-------------------------- MODULE SlotCacheProofs --------------------------
(***************************************************************************)
(* Proofs about SlotCache, for any slots and configurations.  First        *)
(* KvMatchesPrompt, without children and with any faults, from CacheInv;   *)
(* then NoNeedlessExhaustion, with any children, from RoomInv.  Each in    *)
(* this order: the invariant; ranks, prefixes and the operations on the    *)
(* cells; the change of one slot; the prompt cache; the tasks; the loops   *)
(* of update_slots; the decode.                                            *)
(***************************************************************************)
EXTENDS SlotCache, TLAPS, FiniteSetTheorems, SequenceTheorems

-----------------------------------------------------------------------------
(***************************************************************************)
(* Hypotheses                                                              *)
(***************************************************************************)

\* No request has child tasks.  With them KvMatchesPrompt is false: run slots_family.
Childless == \A c \in Configs : \A r \in c.requests : r.children = 0

\* Whoever forgets the tokens of a slot also removes its cells: slot files can be read, and an embedding is
\* not cancelled while it waits for a batch that it fits in.
Tidy(c) == /\ "badfile" \notin c.faults
           /\ "cancel" \in c.faults => \A r \in c.requests : r.kind = "completion"

-----------------------------------------------------------------------------
(***************************************************************************)
(* The invariant                                                           *)
(***************************************************************************)

Task == [kind : {"completion", "embedding"}, prompt : Seq(Tok), left : Int, keep : Int, discard : Nat,
         reuse : BOOLEAN, children : {0}, child : {FALSE}, parent : {NoSlot}]
States == {"IDLE", "STARTED", "PROCESSING_PROMPT", "DONE_PROMPT", "GENERATING"}
Slot == [st : States, toks : Seq(Tok), task : Task \cup {NoTask}, sampled : Tok \cup {NoTok}, i_batch : Int]
Owned == [pos : Nat, tok : Tok, seqs : {{s} : s \in Slots}]
Cell == Owned \cup {Empty}
BatchRow == [slot : Slots, pos : Nat, tok : Tok]
SavedRow == [pos : Nat, tok : Tok]
Entry == [toks : Seq(Tok), rows : Seq(SavedRow)]

\* the cell i of kv is the one of sequence s at position p, and holds tok
Lone(kv, i, s, p, tok) ==
    /\ s \in kv[i].seqs /\ kv[i].pos = p /\ kv[i].tok = tok
    /\ \A j \in DOMAIN kv : s \in kv[j].seqs /\ kv[j].pos = p => j = i
Has(kv, s, p, tok) == \E i \in DOMAIN kv : Lone(kv, i, s, p, tok)
Waits(q, h, s, p) == \E k \in h + 1 .. Len(q) : q[k].slot = s /\ q[k].pos = p
Believes(kv, toks, s, q, h) == \A k \in DOMAIN toks : Waits(q, h, s, k - 1) \/ Has(kv, s, k - 1, toks[k])
NoCells(kv, s) == \A i \in DOMAIN kv : s \notin kv[i].seqs

\* what a slot has, whatever the cache holds
Busy(x) ==
    /\ x.st = "IDLE" => x.task = NoTask
    /\ x.st # "IDLE" => x.task \in Task /\ \E r \in params.requests : r.kind = x.task.kind
    /\ x.st = "PROCESSING_PROMPT" => /\ Len(x.toks) <= Len(x.task.prompt)
                                     /\ \A k \in 1 .. Len(x.toks) : x.toks[k] = x.task.prompt[k]
    /\ x.st = "GENERATING" => x.sampled \in Tok

\* a slot that is done with its prompt has no cell beyond its tokens
Ends(kv, x, s) ==
    x.st \in {"DONE_PROMPT", "GENERATING"} => \A i \in DOMAIN kv : s \in kv[i].seqs => kv[i].pos < Len(x.toks)

\* the rows after a are those of busy slots, each for a token without a cell, once
RowOK(kv, sl, q, h, k) ==
    LET x == sl[q[k].slot]  p == q[k].pos IN
    /\ p + 1 \in DOMAIN x.toks /\ x.toks[p + 1] = q[k].tok
    /\ x.st \in {"PROCESSING_PROMPT", "DONE_PROMPT", "GENERATING"}
    /\ x.st # "PROCESSING_PROMPT" => k <= x.i_batch + 1
    /\ \A i \in DOMAIN kv : q[k].slot \in kv[i].seqs => kv[i].pos # p
    /\ \A j \in h + 1 .. Len(q) : q[j].slot = q[k].slot /\ q[j].pos = p => j = k

\* a saved sequence has each of its tokens once
EntryOK(e) ==
    \A k \in DOMAIN e.toks : \E j \in DOMAIN e.rows :
        /\ e.rows[j].pos = k - 1 /\ e.rows[j].tok = e.toks[k]
        /\ \A m \in DOMAIN e.rows : e.rows[m].pos = k - 1 => m = j

Typed(kv, sl, sv) == /\ kv \in [Cells -> Cell]
                     /\ sl \in [Slots -> Slot]
                     /\ sv \in Seq(Entry) /\ \A k \in DOMAIN sv : EntryOK(sv[k])
SlotSound(kv, sl, q, h, s) == /\ Busy(sl[s])
                              /\ Believes(kv, sl[s].toks, s, q, h)
                              /\ Ends(kv, sl[s], s)
RowsSound(kv, sl, q, h) == \A k \in h + 1 .. Len(q) : RowOK(kv, sl, q, h, k)
Sound(kv, sl, sv, q, h) == /\ Typed(kv, sl, sv)
                           /\ \A s \in Slots : SlotSound(kv, sl, q, h, s)
                           /\ RowsSound(kv, sl, q, h)

CacheInv ==
    /\ params \in Configs
    /\ file # NoFile => file \in Entry /\ EntryOK(file)
    /\ batch \in Seq(BatchRow) /\ at \in Nat /\ n_batch \in Nat
    /\ phase = "tasks" => batch = <<>> /\ at = 0 /\ n_batch = params.n_batch
    /\ Sound(cells, slot, saved, batch, at)
\* a view is halved when no idle slot has tokens to give up
Halved == n_batch # params.n_batch => Purgeable = {}
-----------------------------------------------------------------------------
(***************************************************************************)
(* The loops, for Loop!LoopRule                                            *)
(***************************************************************************)

BaseState == [cells : [Cells -> Cell], slot : [Slots -> Slot], saved : Seq(Entry)]
FillState == [cells : [Cells -> Cell], slot : [Slots -> Slot], saved : Seq(Entry), batch : Seq(BatchRow),
              batched : Slots \cup {NoSlot}, full : BOOLEAN]

\* SaveAndClear: between two handlers nothing waits to be decoded
SaveGood(S, k) == S \in BaseState /\ Sound(S.cells, S.slot, S.saved, <<>>, 0)
\* ShiftSlot: the batch is still empty
ShiftGood(S, k) == S \in FillState /\ S.batch = <<>> /\ Sound(S.cells, S.slot, S.saved, <<>>, 0)
\* AddSampled: the batch has tokens of generating slots up to k
AddGood(S, k) == /\ S \in FillState /\ Sound(S.cells, S.slot, S.saved, S.batch, 0)
                 /\ \A j \in 1 .. Len(S.batch) : /\ S.batch[j].slot <= k
                                                 /\ S.slot[S.batch[j].slot].st = "GENERATING"
\* FillSlot: the batch has tokens of generating slots and of slots up to k
FillGood(S, k) == /\ S \in FillState /\ Sound(S.cells, S.slot, S.saved, S.batch, 0)
                  /\ \A j \in 1 .. Len(S.batch) : \/ S.batch[j].slot <= k
                                                  \/ S.slot[S.batch[j].slot].st = "GENERATING"
\* ActivateChildren, SampleSlot: the view is decoded
ViewGood(S, k) == S \in BaseState /\ Sound(S.cells, S.slot, S.saved, batch, at + Len(View))
\* FailSlot: the slots up to k are idle, the tokens of the others may still be in the batch
FailGood(S, k) ==
    /\ S \in BaseState /\ \A i \in DOMAIN S.saved : EntryOK(S.saved[i])
    /\ \A s \in Slots : /\ Busy(S.slot[s])
                        /\ s <= k => S.slot[s].st = "IDLE"
                        /\ S.slot[s].st = "IDLE" => SlotSound(S.cells, S.slot, <<>>, 0, s)

SaveLoop == INSTANCE Loop WITH
    N <- NSlots, Turn <- LAMBDA c, S, s : SaveAndClear(S, s), Good <- LAMBDA c, S, k : SaveGood(S, k)
ShiftLoop == INSTANCE Loop WITH
    N <- NSlots, Turn <- LAMBDA c, S, s : ShiftSlot(S, s), Good <- LAMBDA c, S, k : ShiftGood(S, k)
AddLoop == INSTANCE Loop WITH
    N <- NSlots, Turn <- LAMBDA c, S, s : AddSampled(S, s), Good <- LAMBDA c, S, k : AddGood(S, k)
FillLoop == INSTANCE Loop WITH
    N <- NSlots, Turn <- LAMBDA c, S, s : FillSlot(S, s), Good <- LAMBDA c, S, k : FillGood(S, k)
ActivateLoop == INSTANCE Loop WITH
    N <- NSlots, Turn <- LAMBDA c, S, s : ActivateChildren(S, s), Good <- LAMBDA c, S, k : ViewGood(S, k)
SampleLoop == INSTANCE Loop WITH
    N <- NSlots, Turn <- LAMBDA c, S, s : SampleSlot(S, s), Good <- LAMBDA c, S, k : ViewGood(S, k)
FailLoop == INSTANCE Loop WITH
    N <- NSlots, Turn <- LAMBDA c, S, s : FailSlot(S, s), Good <- LAMBDA c, S, k : FailGood(S, k)

-----------------------------------------------------------------------------
(***************************************************************************)
(* Ranks, and what remains of a sequence                                   *)
(***************************************************************************)

\* Ranks number the elements of a finite set of numbers.
LEMMA RankLemma ==
    ASSUME NEW K \in SUBSET Nat, IsFiniteSet(K)
    PROVE  /\ Cardinality(K) \in Nat
           /\ \A x \in K : RankIn(K, x) \in 1 .. Cardinality(K)
           /\ \A x, y \in K : x < y => RankIn(K, x) < RankIn(K, y)
           /\ \A k \in 1 .. Cardinality(K) : \E x \in K : RankIn(K, x) = k
<1> DEFINE Upto(x) == {y \in K : y <= x}
<1>1. Cardinality(K) \in Nat
  BY FS_CardinalityType
<1>2. ASSUME NEW x \in K
      PROVE  IsFiniteSet(Upto(x)) /\ RankIn(K, x) \in 1 .. Cardinality(K)
  <2>1. Upto(x) \in SUBSET K /\ x \in Upto(x)
    OBVIOUS
  <2>2. IsFiniteSet(Upto(x)) /\ Cardinality(Upto(x)) <= Cardinality(K)
    BY <2>1, FS_Subset
  <2>3. Cardinality(Upto(x)) \in Nat /\ Cardinality(Upto(x)) # 0
    BY <2>1, <2>2, FS_CardinalityType, FS_EmptySet
  <2> QED
    BY <1>1, <2>2, <2>3 DEF RankIn
<1>3. ASSUME NEW x \in K, NEW y \in K, x < y
      PROVE  RankIn(K, x) < RankIn(K, y)
  <2>0. x \in Nat /\ y \in Nat /\ x < y /\ \A z \in K : z \in Nat
    BY <1>3
  <2>1. Upto(x) \in SUBSET Upto(y) /\ y \in Upto(y) /\ y \notin Upto(x)
    <3>1. \A z \in K : z <= x => z <= y
      BY <2>0
    <3>2. y <= y /\ ~(y <= x)
      BY <2>0
    <3> QED
      BY <3>1, <3>2
  <2>2. Cardinality(Upto(x)) <= Cardinality(Upto(y)) /\ Cardinality(Upto(x)) # Cardinality(Upto(y))
    BY <1>2, <2>1, FS_Subset
  <2>3. Cardinality(Upto(x)) \in Nat /\ Cardinality(Upto(y)) \in Nat
    BY <1>2, FS_CardinalityType
  <2> QED
    BY <2>2, <2>3 DEF RankIn
<1>4. ASSUME NEW k \in 1 .. Cardinality(K)
      PROVE  \E x \in K : RankIn(K, x) = k
  <2> DEFINE N == 1 .. Cardinality(K)
             g == [x \in K |-> RankIn(K, x)]
  <2>1. g \in [K -> N]
    BY <1>2
  <2>2. \A x, y \in K : g[x] = g[y] => x = y
    <3> SUFFICES ASSUME NEW x \in K, NEW y \in K, g[x] = g[y], x # y
                 PROVE  FALSE
      OBVIOUS
    <3>1. RankIn(K, x) = RankIn(K, y)
      OBVIOUS
    <3>2. x < y \/ y < x
      OBVIOUS
    <3>3. RankIn(K, x) \in 1 .. Cardinality(K) /\ RankIn(K, y) \in 1 .. Cardinality(K)
      BY <1>2, Zenon
    <3> QED
      BY <1>1, <1>3, <3>1, <3>2, <3>3
  <2>3. g \in Injection(K, N)
    BY <2>1, <2>2 DEF Injection, IsInjective
  <2>4. IsFiniteSet(N) /\ Cardinality(N) = Cardinality(K)
    BY <1>1, FS_Interval
  <2>5. g \in Surjection(K, N)
    BY <2>3, <2>4, FS_Injection
  <2> QED
    BY <2>5 DEF Surjection
<1> QED
  BY <1>1, <1>2, <1>3, <1>4

\* Nth is the inverse of RankIn.
LEMMA NthLemma ==
    ASSUME NEW K \in SUBSET Nat, IsFiniteSet(K)
    PROVE  /\ \A k \in 1 .. Cardinality(K) : Nth(K, k) \in K
           /\ \A j, k \in 1 .. Cardinality(K) : j < k => Nth(K, j) < Nth(K, k)
           /\ \A x \in K : \E k \in 1 .. Cardinality(K) : Nth(K, k) = x
<1>1. ASSUME NEW k \in 1 .. Cardinality(K)
      PROVE  Nth(K, k) \in K /\ RankIn(K, Nth(K, k)) = k
  BY RankLemma DEF Nth
<1>2. ASSUME NEW j \in 1 .. Cardinality(K), NEW k \in 1 .. Cardinality(K), j < k
      PROVE  Nth(K, j) < Nth(K, k)
  <2> DEFINE x == Nth(K, j)  y == Nth(K, k)
  <2>1. x \in K /\ y \in K /\ RankIn(K, x) = j /\ RankIn(K, y) = k
    BY <1>1
  <2>2. x \in Nat /\ y \in Nat
    BY <2>1
  <2> HIDE DEF x, y
  <2>3. x < y \/ x = y \/ y < x
    BY <2>2
  <2>4. ~(y < x)
    BY <2>1, RankLemma, <1>2
  <2>5. x # y
    BY <2>1, <1>2
  <2> QED
    BY <2>3, <2>4, <2>5 DEF x, y
<1>3. ASSUME NEW x \in K
      PROVE  \E k \in 1 .. Cardinality(K) : Nth(K, k) = x
  <2> DEFINE k == RankIn(K, x)
             y == Nth(K, k)
  <2>1. k \in 1 .. Cardinality(K)
    BY RankLemma
  <2>2. y \in K /\ RankIn(K, y) = RankIn(K, x)
    BY <1>1, <2>1
  <2> HIDE DEF y
  <2>3. ~(x < y) /\ ~(y < x)
    <3>1. RankIn(K, x) \in Nat
      BY <2>1
    <3> QED
      BY <2>2, <3>1, RankLemma
  <2>4. y = x
    BY <2>2, <2>3
  <2> QED
    BY <2>1, <2>4 DEF y
<1> QED
  BY <1>1, <1>2, <1>3

\* Kept takes the elements at the given positions, each once.
LEMMA KeptLemma ==
    ASSUME NEW S, NEW q \in Seq(S), NEW K \in SUBSET DOMAIN q
    PROVE  /\ Kept(q, K) \in Seq(S)
           /\ \A k \in DOMAIN Kept(q, K) : Nth(K, k) \in K /\ Kept(q, K)[k] = q[Nth(K, k)]
           /\ \A j, k \in DOMAIN Kept(q, K) : j < k => Nth(K, j) < Nth(K, k)
           /\ \A x \in K : \E k \in DOMAIN Kept(q, K) : Kept(q, K)[k] = q[x]
<1>1. K \in SUBSET Nat /\ IsFiniteSet(K)
  <2>1. DOMAIN q = 1 .. Len(q) /\ Len(q) \in Nat
    BY LenProperties
  <2>2. IsFiniteSet(1 .. Len(q))
    BY <2>1, FS_Interval
  <2> QED
    BY <2>1, <2>2, FS_Subset
<1>2. Cardinality(K) \in Nat
  BY <1>1, FS_CardinalityType
<1> DEFINE n == Cardinality(K)
<1>3. DOMAIN Kept(q, K) = 1 .. n /\ \A k \in 1 .. n : Kept(q, K)[k] = q[Nth(K, k)]
  BY DEF Kept
<1>4. \A k \in 1 .. n : Nth(K, k) \in K
  BY <1>1, NthLemma
<1>5. \A k \in 1 .. n : q[Nth(K, k)] \in S
  BY <1>4, ElementOfSeq, LenProperties
<1>6. Kept(q, K) \in [1 .. n -> S]
  BY <1>5 DEF Kept
<1>7. Kept(q, K) \in Seq(S)
  BY <1>2, <1>6
<1>8. \A j, k \in 1 .. n : j < k => Nth(K, j) < Nth(K, k)
  BY <1>1, NthLemma
<1>9. \A x \in K : \E k \in 1 .. n : Nth(K, k) = x
  BY <1>1, NthLemma
<1> HIDE DEF n
<1> QED
  BY <1>3, <1>4, <1>7, <1>8, <1>9

-----------------------------------------------------------------------------
(***************************************************************************)
(* Prefixes and small numbers                                              *)
(***************************************************************************)

LEMMA MinOfTwo == ASSUME NEW m \in Int, NEW n \in Int
                  PROVE  Min({m, n}) = IF m <= n THEN m ELSE n
<1> DEFINE l == IF m <= n THEN m ELSE n
<1>1. l \in {m, n} /\ \A y \in {m, n} : l <= y
  OBVIOUS
<1>2. \A x \in {m, n} : (\A y \in {m, n} : x <= y) => x = l
  OBVIOUS
<1> QED
  BY <1>1, <1>2 DEF Min

LEMMA MaxOfTwo == ASSUME NEW m \in Int, NEW n \in Int
                  PROVE  Max({m, n}) = IF m <= n THEN n ELSE m
<1> DEFINE l == IF m <= n THEN n ELSE m
<1>1. l \in {m, n} /\ \A y \in {m, n} : l >= y
  OBVIOUS
<1>2. \A x \in {m, n} : (\A y \in {m, n} : x >= y) => x = l
  OBVIOUS
<1> QED
  BY <1>1, <1>2 DEF Max

\* The smallest slot of a set is in the set.
LEMMA MinIn == ASSUME NEW K \in SUBSET Slots, K # {}
               PROVE  Min(K) \in K
<1>1. K \in SUBSET Nat
  BY NSlotsAssumption DEF Slots
<1>2. \E x \in K : \A y \in K : x <= y
  BY <1>1, ShiftLoop!LeastNumber
<1> QED
  BY <1>2 DEF Min

\* get_common_prefix() is the length of a prefix of both.
LEMMA CommonLemma ==
    ASSUME NEW p, NEW q, Len(p) \in Nat, Len(q) \in Nat
    PROVE  /\ Common(p, q) \in Nat /\ Common(p, q) <= Len(p) /\ Common(p, q) <= Len(q)
           /\ \A k \in 1 .. Common(p, q) : p[k] = q[k]
<1>1. Len(p) \in Nat /\ Len(q) \in Nat
  OBVIOUS
<1> DEFINE m == Min({Len(p), Len(q)})
           K == {n \in 0 .. m : \A k \in 1 .. n : p[k] = q[k]}
           U == {n \in Nat : \A k \in K : k <= n}
<1>2. m \in Nat /\ m <= Len(p) /\ m <= Len(q)
  BY <1>1, MinOfTwo
<1>3. 0 \in K
  BY <1>2
<1> HIDE DEF m
<1>4. K \in SUBSET Nat /\ m \in U
  BY <1>2
<1>5. PICK u \in U : \A y \in U : u <= y
  <2>1. U \in SUBSET Nat /\ U # {}
    BY <1>4
  <2> HIDE DEF U
  <2> QED
    BY <2>1, ShiftLoop!LeastNumber
<1>6. u \in K
  <2> SUFFICES ASSUME u \notin K PROVE FALSE
    OBVIOUS
  <2>1. u \in Nat /\ \A k \in K : k \in Nat /\ k <= u
    BY <1>4, <1>5
  <2> HIDE DEF K
  <2>2. \A k \in K : k <= u - 1
    BY <2>1
  <2>3. u - 1 \in Nat
    BY <1>3, <2>1, <2>2
  <2> QED
    BY <1>5, <2>1, <2>2, <2>3
<1>7. \A k \in K : u >= k
  BY <1>4, <1>5
<1>8. Common(p, q) \in K
  <2>1. Common(p, q) = Max(K)
    BY DEF Common, m
  <2> HIDE DEF K
  <2> QED
    BY <1>6, <1>7, <2>1 DEF Max
<1> QED
  BY <1>2, <1>8
-----------------------------------------------------------------------------
(***************************************************************************)
(* The operations on the cells                                             *)
(***************************************************************************)

\* the cells of sequence t are the same
Same(kv, kv2, t) == \A i \in Cells : t \in kv[i].seqs \/ t \in kv2[i].seqs => kv2[i] = kv[i]
NewCell(row) == [pos |-> row.pos, tok |-> row.tok, seqs |-> {row.slot}]

\* Without children a cell belongs to one sequence, or is empty.
LEMMA CellLemma ==
    \A c \in Cell : /\ c.seqs = {} <=> c = Empty
                    /\ \A s \in c.seqs : s \in Slots /\ c.seqs = {s} /\ c \in Owned
<1> SUFFICES ASSUME NEW c \in Cell
             PROVE  /\ c.seqs = {} <=> c = Empty
                    /\ \A s \in c.seqs : s \in Slots /\ c.seqs = {s} /\ c \in Owned
  OBVIOUS
<1>1. CASE c = Empty
  BY <1>1 DEF Empty
<1>2. CASE c \in Owned
  <2>1. PICK t \in Slots : c.seqs = {t}
    BY <1>2 DEF Owned
  <2>2. c # Empty
    BY <2>1 DEF Empty
  <2> QED
    BY <1>2, <2>1, <2>2
<1> QED
  BY <1>1, <1>2 DEF Cell

LEMMA SeqRmLemma ==
    ASSUME NEW kv \in [Cells -> Cell], NEW s \in Slots, NEW p0, NEW p1
    PROVE  /\ SeqRm(kv, s, p0, p1) \in [Cells -> Cell]
           /\ \A i \in Cells : SeqRm(kv, s, p0, p1)[i] = IF OfSeq(kv[i], s, p0, p1) THEN Empty ELSE kv[i]
           /\ \A t \in Slots \ {s} : Same(kv, SeqRm(kv, s, p0, p1), t)
<1> DEFINE new == SeqRm(kv, s, p0, p1)
<1>1. ASSUME NEW i \in Cells
      PROVE  new[i] = IF OfSeq(kv[i], s, p0, p1) THEN Empty ELSE kv[i]
  <2>1. OfSeq(kv[i], s, p0, p1) => kv[i].seqs = {s}
    BY CellLemma DEF OfSeq
  <2> QED
    BY <2>1 DEF SeqRm, Without
<1>2. DOMAIN new = Cells /\ new = [i \in DOMAIN new |-> new[i]]
  BY DEF SeqRm
<1>3. \A i \in Cells : new[i] \in Cell
  BY <1>1 DEF Cell
<1>4. new \in [Cells -> Cell]
  <2> HIDE DEF new
  <2> QED
    BY <1>2, <1>3
<1>5. ASSUME NEW t \in Slots \ {s}, NEW i \in Cells, t \in kv[i].seqs \/ t \in new[i].seqs
      PROVE  new[i] = kv[i]
  <2>1. OfSeq(kv[i], s, p0, p1) => kv[i].seqs = {s} /\ new[i].seqs = {}
    BY <1>1, CellLemma DEF OfSeq, Empty
  <2> HIDE DEF new
  <2> QED
    BY <1>1, <1>5, <2>1
<1> QED
  BY <1>1, <1>4, <1>5 DEF Same

\* seq_add() moves positions down, and none below zero.
LEMMA SeqAddLemma ==
    ASSUME NEW kv \in [Cells -> Cell], NEW s \in Slots, NEW p0 \in Nat, NEW p1, NEW d \in Nat, d <= p0
    PROVE  /\ SeqAdd(kv, s, p0, p1, -d) \in [Cells -> Cell]
           /\ \A i \in Cells : SeqAdd(kv, s, p0, p1, -d)[i] =
                 IF OfSeq(kv[i], s, p0, p1) THEN [kv[i] EXCEPT !.pos = @ - d] ELSE kv[i]
           /\ \A t \in Slots \ {s} : Same(kv, SeqAdd(kv, s, p0, p1, -d), t)
<1> DEFINE new == SeqAdd(kv, s, p0, p1, -d)
<1>1. ASSUME NEW i \in Cells
      PROVE  new[i] = IF OfSeq(kv[i], s, p0, p1) THEN [kv[i] EXCEPT !.pos = @ - d] ELSE kv[i]
  <2>1. CASE OfSeq(kv[i], s, p0, p1)
    <3>1. kv[i] \in Owned
      BY <2>1, CellLemma DEF OfSeq
    <3>2. kv[i].pos \in Nat
      BY <3>1 DEF Owned
    <3>3. kv[i].pos + (-d) = kv[i].pos - d
      BY <3>2
    <3>4. new[i] = [kv[i] EXCEPT !.pos = @ + (-d)]
      BY <2>1 DEF SeqAdd
    <3> QED
      BY <2>1, <3>3, <3>4
  <2>2. CASE ~OfSeq(kv[i], s, p0, p1)
    BY <2>2 DEF SeqAdd
  <2> QED
    BY <2>1, <2>2
<1>2. DOMAIN new = Cells /\ new = [i \in DOMAIN new |-> new[i]]
  BY DEF SeqAdd
<1>3. ASSUME NEW i \in Cells, OfSeq(kv[i], s, p0, p1)
      PROVE  /\ kv[i].seqs = {s}
             /\ [kv[i] EXCEPT !.pos = @ - d] \in Owned
             /\ [kv[i] EXCEPT !.pos = @ - d].seqs = {s}
  <2>1. kv[i] \in Owned /\ kv[i].seqs = {s} /\ p0 <= kv[i].pos
    BY <1>3, CellLemma DEF OfSeq
  <2>2. kv[i].pos - d \in Nat
    BY <2>1 DEF Owned
  <2> QED
    BY <2>1, <2>2 DEF Owned
<1>4. \A i \in Cells : new[i] \in Cell
  BY <1>1, <1>3 DEF Cell
<1>5. new \in [Cells -> Cell]
  <2> HIDE DEF new
  <2> QED
    BY <1>2, <1>4
<1>6. ASSUME NEW t \in Slots \ {s}, NEW i \in Cells, t \in kv[i].seqs \/ t \in new[i].seqs
      PROVE  new[i] = kv[i]
  <2>1. OfSeq(kv[i], s, p0, p1) => kv[i].seqs = {s} /\ new[i].seqs = {s}
    BY <1>1, <1>3
  <2> HIDE DEF new
  <2> QED
    BY <1>1, <1>6, <2>1
<1> QED
  BY <1>1, <1>5, <1>6 DEF Same

\* apply() puts every row in a free cell of its own, and changes no other cell.
LEMMA PlaceLemma ==
    ASSUME NEW kv \in [Cells -> Cell], NEW rows \in Seq(BatchRow), Len(rows) <= Cardinality(Free(kv)),
           params.n_ctx \in Nat
    PROVE  /\ Place(kv, rows) \in [Cells -> Cell]
           /\ \E f \in [1 .. Len(rows) -> Cells] :
                 /\ \A j, k \in 1 .. Len(rows) : f[j] = f[k] => j = k
                 /\ \A k \in 1 .. Len(rows) : kv[f[k]] = Empty /\ Place(kv, rows)[f[k]] = NewCell(rows[k])
                 /\ \A i \in Cells : (\A k \in 1 .. Len(rows) : f[k] # i) => Place(kv, rows)[i] = kv[i]
<1> DEFINE F == Free(kv)
           n == Len(rows)
           new == Place(kv, rows)
<1>1. F \in SUBSET Nat /\ IsFiniteSet(F) /\ F \in SUBSET Cells /\ \A i \in Cells : i \in F <=> kv[i] = Empty
  <2>1. IsFiniteSet(Cells)
    BY FS_Interval DEF Cells
  <2>2. F \in SUBSET Cells /\ \A i \in Cells : i \in F <=> kv[i] = Empty
    BY DEF Free
  <2>3. Cells \in SUBSET Nat
    BY DEF Cells
  <2> QED
    BY <2>1, <2>2, <2>3, FS_Subset
<1>2. n \in Nat /\ Cardinality(F) \in Nat /\ n <= Cardinality(F)
  BY <1>1, LenProperties, FS_CardinalityType
<1>3. ASSUME NEW i \in Cells
      PROVE  new[i] = IF i \in F /\ RankIn(F, i) <= n THEN NewCell(rows[RankIn(F, i)]) ELSE kv[i]
  BY <1>1 DEF Place, NewCell
<1>4. \A i \in F : RankIn(F, i) \in 1 .. Cardinality(F)
  <2> HIDE DEF F
  <2> QED
    BY <1>1, RankLemma
<1>5. \A k \in 1 .. Cardinality(F) : Nth(F, k) \in F /\ RankIn(F, Nth(F, k)) = k
  <2>1. \A k \in 1 .. Cardinality(F) : \E x \in F : RankIn(F, x) = k
    BY <1>1, RankLemma
  <2> HIDE DEF F
  <2> QED
    BY <2>1 DEF Nth
<1>6. \A x, y \in F : x < y => RankIn(F, x) < RankIn(F, y)
  <2> HIDE DEF F
  <2> QED
    BY <1>1, RankLemma
<1>7. \A x, y \in F : RankIn(F, x) = RankIn(F, y) => x = y
  <2> HIDE DEF F
  <2>1. ASSUME NEW x \in F, NEW y \in F, x # y, RankIn(F, x) = RankIn(F, y)
        PROVE  FALSE
    <3>1. x \in Nat /\ y \in Nat /\ RankIn(F, x) \in Nat /\ RankIn(F, y) \in Nat
      BY <1>1, <1>2, <1>4
    <3>2. x < y \/ y < x
      BY <2>1, <3>1
    <3> QED
      BY <1>6, <2>1, <3>1, <3>2
  <2> QED
    BY <2>1
<1>8. \A k \in 1 .. n : k \in 1 .. Cardinality(F) /\ NewCell(rows[k]) \in Owned
  <2>1. \A k \in 1 .. n : rows[k] \in BatchRow
    BY ElementOfSeq
  <2>2. \A k \in 1 .. n : k \in 1 .. Cardinality(F)
    BY <1>2
  <2> QED
    BY <2>1, <2>2 DEF BatchRow, NewCell, Owned
<1>9. new \in [Cells -> Cell]
  <2>1. new = [i \in Cells |-> new[i]]
    BY DEF Place
  <2>2. ASSUME NEW i \in Cells
        PROVE  new[i] \in Cell
    <3>1. CASE i \in F /\ RankIn(F, i) <= n
      <4>1. RankIn(F, i) \in 1 .. n
        BY <1>2, <1>4, <3>1
      <4> HIDE DEF F, n, new
      <4> QED
        BY <1>3, <1>8, <3>1, <4>1 DEF Cell
    <3>2. CASE ~(i \in F /\ RankIn(F, i) <= n)
      BY <1>3, <3>2
    <3> QED
      BY <3>1, <3>2
  <2> HIDE DEF new
  <2> QED
    BY <2>1, <2>2
<1> DEFINE f == [k \in 1 .. n |-> Nth(F, k)]
<1>10. f \in [1 .. n -> Cells]
  BY <1>1, <1>5, <1>8
<1>11. \A j, k \in 1 .. n : f[j] = f[k] => j = k
  <2> HIDE DEF F, n
  <2> QED
    BY <1>5, <1>8
<1>12. ASSUME NEW k \in 1 .. n
       PROVE  kv[f[k]] = Empty /\ new[f[k]] = NewCell(rows[k])
  <2>1. f[k] \in F /\ RankIn(F, f[k]) = k /\ k <= n /\ f[k] \in Cells
    BY <1>1, <1>2, <1>5, <1>8
  <2> HIDE DEF F, n, new, f
  <2> QED
    BY <1>1, <1>3, <2>1
<1>13. ASSUME NEW i \in Cells, \A k \in 1 .. n : f[k] # i
       PROVE  new[i] = kv[i]
  <2>1. ~(i \in F /\ RankIn(F, i) <= n)
    <3> SUFFICES ASSUME i \in F, RankIn(F, i) <= n PROVE FALSE
      OBVIOUS
    <3>1. RankIn(F, i) \in 1 .. n
      BY <1>2, <1>4
    <3>2. f[RankIn(F, i)] \in F /\ RankIn(F, f[RankIn(F, i)]) = RankIn(F, i)
      BY <1>5, <1>8, <3>1
    <3>3. f[RankIn(F, i)] = i
      <4> HIDE DEF F, f
      <4> QED
        BY <1>7, <3>2
    <3> QED
      BY <1>13, <3>1, <3>3
  <2> QED
    BY <1>3, <2>1
<1> QED
  <2> HIDE DEF f, F, new
  <2> QED
    BY <1>9, <1>10, <1>11, <1>12, <1>13 DEF new
LEMMA SameTrans ==
    ASSUME NEW kv, NEW kv1, NEW kv2, NEW t, Same(kv, kv1, t), Same(kv1, kv2, t)
    PROVE  Same(kv, kv2, t)
<1> SUFFICES ASSUME NEW i \in Cells, t \in kv[i].seqs \/ t \in kv2[i].seqs
             PROVE  kv2[i] = kv[i]
  BY DEF Same
<1>1. t \in kv[i].seqs \/ t \in kv1[i].seqs => kv1[i] = kv[i]
  BY DEF Same
<1>2. t \in kv1[i].seqs \/ t \in kv2[i].seqs => kv2[i] = kv1[i]
  BY DEF Same
<1> QED
  BY <1>1, <1>2

\* Removing a whole sequence.
LEMMA SeqGone ==
    ASSUME NEW kv \in [Cells -> Cell], NEW s \in Slots
    PROVE  NoCells(SeqRm(kv, s, 0, End), s)
<1> DEFINE new == SeqRm(kv, s, 0, End)
<1>1. new \in [Cells -> Cell] /\ \A i \in Cells : new[i] = IF OfSeq(kv[i], s, 0, End) THEN Empty ELSE kv[i]
  BY SeqRmLemma
<1>2. ASSUME NEW i \in Cells
      PROVE  s \notin new[i].seqs
  <2>1. s \in kv[i].seqs => OfSeq(kv[i], s, 0, End)
    <3>1. s \in kv[i].seqs => kv[i].pos \in Nat
      BY CellLemma DEF Owned
    <3> QED
      BY <3>1 DEF OfSeq
  <2>2. s \notin Empty.seqs
    BY DEF Empty
  <2> HIDE DEF new
  <2> QED
    BY <1>1, <2>1, <2>2
<1> QED
  <2>1. DOMAIN new = Cells
    BY <1>1
  <2> HIDE DEF new
  <2>2. NoCells(new, s)
    BY <1>2, <2>1 DEF NoCells
  <2> QED
    BY <2>2 DEF new

\* The rows of a saved sequence are its cells, each once.
LEMMA RowsLemma ==
    ASSUME NEW kv \in [Cells -> Cell], NEW s \in Slots, params.n_ctx \in Nat
    PROVE  /\ Rows(kv, s) \in Seq(SavedRow)
           /\ \E g \in [DOMAIN Rows(kv, s) -> Cells] :
                 /\ \A j, k \in DOMAIN Rows(kv, s) : g[j] = g[k] => j = k
                 /\ \A k \in DOMAIN Rows(kv, s) : /\ s \in kv[g[k]].seqs
                                                  /\ Rows(kv, s)[k] = [pos |-> kv[g[k]].pos, tok |-> kv[g[k]].tok]
                 /\ \A i \in Cells : s \in kv[i].seqs => \E k \in DOMAIN Rows(kv, s) : g[k] = i
<1> DEFINE K == {i \in DOMAIN kv : s \in kv[i].seqs}
           held == Kept(kv, K)
           rows == Rows(kv, s)
<1>1. DOMAIN kv = Cells /\ Cells = 1 .. params.n_ctx
  BY DEF Cells
<1>2. K \in SUBSET Nat /\ IsFiniteSet(K) /\ K \in SUBSET Cells
  <2>1. IsFiniteSet(Cells)
    BY <1>1, FS_Interval
  <2>2. K \in SUBSET Cells /\ Cells \in SUBSET Nat
    BY <1>1
  <2> QED
    BY <2>1, <2>2, FS_Subset
<1>3. /\ \A k \in 1 .. Cardinality(K) : Nth(K, k) \in K
      /\ \A j, k \in 1 .. Cardinality(K) : j < k => Nth(K, j) < Nth(K, k)
      /\ \A x \in K : \E k \in 1 .. Cardinality(K) : Nth(K, k) = x
  <2> HIDE DEF K
  <2> QED
    BY <1>2, NthLemma
<1> DEFINE n == Cardinality(K)
<1>4. n \in Nat
  BY <1>2, FS_CardinalityType
<1>5. DOMAIN rows = 1 .. n /\ \A k \in 1 .. n : rows[k] = [pos |-> kv[Nth(K, k)].pos, tok |-> kv[Nth(K, k)].tok]
  BY DEF Rows, Kept
<1> DEFINE g == [k \in 1 .. n |-> Nth(K, k)]
<1>6. g \in [1 .. n -> Cells]
  BY <1>2, <1>3
<1>7. \A k \in 1 .. n : s \in kv[g[k]].seqs /\ rows[k] = [pos |-> kv[g[k]].pos, tok |-> kv[g[k]].tok]
  BY <1>3, <1>5
<1>8. \A i \in Cells : s \in kv[i].seqs => \E k \in 1 .. n : g[k] = i
  BY <1>1, <1>3
<1>9. \A j, k \in 1 .. n : g[j] = g[k] => j = k
  <2> SUFFICES ASSUME NEW j \in 1 .. n, NEW k \in 1 .. n, g[j] = g[k], j < k
               PROVE  FALSE
    <3>1. \A j, k \in 1 .. n : j < k => g[j] # g[k]
      OBVIOUS
    <3> HIDE DEF g, n
    <3> QED
      BY <1>4, <3>1
  <2>1. Nth(K, j) < Nth(K, k) /\ Nth(K, j) = Nth(K, k) /\ Nth(K, j) \in Nat
    BY <1>2, <1>3
  <2> HIDE DEF K
  <2> QED
    BY <2>1
<1>10. rows \in Seq(SavedRow)
  <2>1. \A k \in 1 .. n : rows[k] \in SavedRow
    <3> SUFFICES ASSUME NEW k \in 1 .. n PROVE rows[k] \in SavedRow
      OBVIOUS
    <3>1. g[k] \in Cells /\ s \in kv[g[k]].seqs /\ rows[k] = [pos |-> kv[g[k]].pos, tok |-> kv[g[k]].tok]
      BY <1>6, <1>7
    <3> HIDE DEF g, rows
    <3>2. kv[g[k]] \in Owned
      BY <3>1, CellLemma
    <3> QED
      BY <3>1, <3>2 DEF Owned, SavedRow
  <2>2. rows = [k \in 1 .. n |-> rows[k]]
    BY <1>5 DEF Rows
  <2> HIDE DEF rows, n
  <2>3. rows \in [1 .. n -> SavedRow]
    BY <2>1, <2>2
  <2> QED
    BY <1>4, <2>3
<1> HIDE DEF g, n, rows
<1>11. g \in [DOMAIN rows -> Cells]
  BY <1>5, <1>6
<1>12. \E f \in [DOMAIN rows -> Cells] :
          /\ \A j, k \in DOMAIN rows : f[j] = f[k] => j = k
          /\ \A k \in DOMAIN rows : s \in kv[f[k]].seqs /\ rows[k] = [pos |-> kv[f[k]].pos, tok |-> kv[f[k]].tok]
          /\ \A i \in Cells : s \in kv[i].seqs => \E k \in DOMAIN rows : f[k] = i
  <2>1. \A j, k \in DOMAIN rows : g[j] = g[k] => j = k
    BY <1>5, <1>9
  <2>2. \A k \in DOMAIN rows : s \in kv[g[k]].seqs /\ rows[k] = [pos |-> kv[g[k]].pos, tok |-> kv[g[k]].tok]
    BY <1>5, <1>7
  <2>3. \A i \in Cells : s \in kv[i].seqs => \E k \in DOMAIN rows : g[k] = i
    BY <1>5, <1>8
  <2> QED
    BY <1>11, <2>1, <2>2, <2>3, Zenon
<1> QED
  BY <1>10, <1>12 DEF rows

\* What is saved of a slot that waits for nothing has each of its tokens once.
LEMMA SavedEntry ==
    ASSUME NEW kv \in [Cells -> Cell], NEW s \in Slots, NEW toks \in Seq(Tok), params.n_ctx \in Nat,
           Believes(kv, toks, s, <<>>, 0)
    PROVE  /\ [toks |-> toks, rows |-> Rows(kv, s)] \in Entry
           /\ EntryOK([toks |-> toks, rows |-> Rows(kv, s)])
<1> DEFINE rows == Rows(kv, s)
           e == [toks |-> toks, rows |-> rows]
<1>1. rows \in Seq(SavedRow)
  BY RowsLemma
<1>2. PICK g \in [DOMAIN rows -> Cells] :
         /\ \A j, k \in DOMAIN rows : g[j] = g[k] => j = k
         /\ \A k \in DOMAIN rows : s \in kv[g[k]].seqs /\ rows[k] = [pos |-> kv[g[k]].pos, tok |-> kv[g[k]].tok]
         /\ \A i \in Cells : s \in kv[i].seqs => \E k \in DOMAIN rows : g[k] = i
  BY RowsLemma
<1> HIDE DEF rows
<1>3. e \in Entry
  BY <1>1 DEF Entry
<1>4. ASSUME NEW k \in DOMAIN toks
      PROVE  \E j \in DOMAIN rows : /\ rows[j].pos = k - 1 /\ rows[j].tok = toks[k]
                                    /\ \A m \in DOMAIN rows : rows[m].pos = k - 1 => m = j
  <2>1. ~Waits(<<>>, 0, s, k - 1)
    BY DEF Waits
  <2>2. PICK i \in DOMAIN kv : Lone(kv, i, s, k - 1, toks[k])
    BY <2>1 DEF Believes, Has
  <2>3. PICK j \in DOMAIN rows : g[j] = i
    BY <1>2, <2>2 DEF Lone
  <2>4. rows[j].pos = k - 1 /\ rows[j].tok = toks[k]
    BY <1>2, <2>2, <2>3 DEF Lone
  <2>5. ASSUME NEW m \in DOMAIN rows, rows[m].pos = k - 1
        PROVE  m = j
    <3>1. g[m] \in DOMAIN kv /\ s \in kv[g[m]].seqs /\ kv[g[m]].pos = k - 1
      BY <1>2, <2>5
    <3>2. g[m] = i
      BY <2>2, <3>1 DEF Lone
    <3> QED
      BY <1>2, <2>3, <3>2
  <2> QED
    BY <2>4, <2>5
<1> QED
  BY <1>3, <1>4 DEF EntryOK, rows

\* A restored sequence is what was saved.
LEMMA RestoredLemma ==
    ASSUME NEW kv \in [Cells -> Cell], NEW s \in Slots, NEW e \in Entry, EntryOK(e), params.n_ctx \in Nat,
           Fits(kv, s, e.rows)
    PROVE  /\ Restored(kv, s, e.rows) \in [Cells -> Cell]
           /\ \A t \in Slots \ {s} : Same(kv, Restored(kv, s, e.rows), t)
           /\ Believes(Restored(kv, s, e.rows), e.toks, s, <<>>, 0)
<1> DEFINE gone == SeqRm(kv, s, 0, End)
           n == Len(e.rows)
           rows == [k \in DOMAIN e.rows |-> [slot |-> s, pos |-> e.rows[k].pos, tok |-> e.rows[k].tok]]
           new == Restored(kv, s, e.rows)
<1>1. gone \in [Cells -> Cell] /\ (\A t \in Slots \ {s} : Same(kv, gone, t)) /\ NoCells(gone, s)
  BY SeqRmLemma, SeqGone
<1>2. e.rows \in Seq(SavedRow) /\ n \in Nat /\ DOMAIN e.rows = 1 .. n /\ e.toks \in Seq(Tok)
      /\ \A k \in 1 .. n : e.rows[k] \in SavedRow
  <2>1. e.rows \in Seq(SavedRow) /\ e.toks \in Seq(Tok)
    BY DEF Entry
  <2> QED
    BY <2>1, LenProperties, ElementOfSeq
<1>3. rows \in Seq(BatchRow) /\ Len(rows) = n
  <2>1. \A k \in 1 .. n : [slot |-> s, pos |-> e.rows[k].pos, tok |-> e.rows[k].tok] \in BatchRow
    BY <1>2 DEF SavedRow, BatchRow
  <2>2. rows \in [1 .. n -> BatchRow]
    BY <1>2, <2>1
  <2> HIDE DEF rows, n
  <2> QED
    BY <1>2, <2>2
<1>4. new = Place(gone, rows) /\ Len(rows) <= Cardinality(Free(gone))
  BY <1>3 DEF Restored, Fits
<1> HIDE DEF gone, rows, new
<1>5. new \in [Cells -> Cell]
  BY <1>1, <1>3, <1>4, PlaceLemma
<1>6. PICK f \in [1 .. n -> Cells] :
         /\ \A j, k \in 1 .. n : f[j] = f[k] => j = k
         /\ \A k \in 1 .. n : gone[f[k]] = Empty /\ new[f[k]] = NewCell(rows[k])
         /\ \A i \in Cells : (\A k \in 1 .. n : f[k] # i) => new[i] = gone[i]
  <2> HIDE DEF n
  <2>1. \E f \in [1 .. Len(rows) -> Cells] :
           /\ \A j, k \in 1 .. Len(rows) : f[j] = f[k] => j = k
           /\ \A k \in 1 .. Len(rows) : gone[f[k]] = Empty /\ Place(gone, rows)[f[k]] = NewCell(rows[k])
           /\ \A i \in Cells : (\A k \in 1 .. Len(rows) : f[k] # i) => Place(gone, rows)[i] = gone[i]
    BY <1>1, <1>3, <1>4, PlaceLemma
  <2>2. Len(rows) = n /\ Place(gone, rows) = new
    BY <1>3, <1>4
  <2> QED
    BY <2>1, <2>2
<1> HIDE DEF n
<1>7. ASSUME NEW k \in 1 .. n
      PROVE  new[f[k]].pos = e.rows[k].pos /\ new[f[k]].tok = e.rows[k].tok /\ new[f[k]].seqs = {s}
  <2>1. new[f[k]] = NewCell(rows[k])
    BY <1>6
  <2>2. rows[k] = [slot |-> s, pos |-> e.rows[k].pos, tok |-> e.rows[k].tok]
    BY <1>2 DEF rows
  <2> QED
    BY <2>1, <2>2 DEF NewCell
<1>8. ASSUME NEW t \in Slots \ {s}
      PROVE  Same(gone, new, t)
  <2> SUFFICES ASSUME NEW i \in Cells, t \in gone[i].seqs \/ t \in new[i].seqs
               PROVE  new[i] = gone[i]
    BY DEF Same
  <2>1. \A k \in 1 .. n : f[k] # i
    <3> SUFFICES ASSUME NEW k \in 1 .. n, f[k] = i PROVE FALSE
      OBVIOUS
    <3>1. gone[i] = Empty /\ new[i].seqs = {s}
      BY <1>6, <1>7
    <3> QED
      BY <3>1 DEF Empty
  <2> QED
    BY <1>6, <2>1
<1>9. \A t \in Slots \ {s} : Same(kv, new, t)
  BY <1>1, <1>8, SameTrans
<1>10. ASSUME NEW i \in Cells, s \in new[i].seqs
       PROVE  \E k \in 1 .. n : f[k] = i
  <2>1. s \notin gone[i].seqs
    BY <1>1 DEF NoCells
  <2> QED
    BY <1>6, <1>10, <2>1
<1>11. ASSUME NEW k \in DOMAIN e.toks
       PROVE  Has(new, s, k - 1, e.toks[k])
  <2>1. PICK j \in 1 .. n : /\ e.rows[j].pos = k - 1 /\ e.rows[j].tok = e.toks[k]
                            /\ \A m \in 1 .. n : e.rows[m].pos = k - 1 => m = j
    <3>1. \E j \in DOMAIN e.rows : /\ e.rows[j].pos = k - 1 /\ e.rows[j].tok = e.toks[k]
                                   /\ \A m \in DOMAIN e.rows : e.rows[m].pos = k - 1 => m = j
      BY DEF EntryOK
    <3> QED
      BY <1>2, <3>1
  <2>2. f[j] \in DOMAIN new
    BY <1>5, <1>6
  <2>3. s \in new[f[j]].seqs /\ new[f[j]].pos = k - 1 /\ new[f[j]].tok = e.toks[k]
    BY <1>7, <2>1
  <2>4. ASSUME NEW i \in DOMAIN new, s \in new[i].seqs, new[i].pos = k - 1
        PROVE  i = f[j]
    <3>1. PICK m \in 1 .. n : f[m] = i
      BY <1>5, <1>10, <2>4
    <3>2. e.rows[m].pos = k - 1
      BY <1>7, <2>4, <3>1
    <3> QED
      BY <2>1, <3>1, <3>2
  <2> QED
    BY <2>2, <2>3, <2>4 DEF Has, Lone
<1> QED
  BY <1>5, <1>9, <1>11 DEF Believes, new
-----------------------------------------------------------------------------
(***************************************************************************)
(* The change of one slot and of its cells                                 *)
(***************************************************************************)

LEMMA SameHas ==
    ASSUME NEW kv \in [Cells -> Cell], NEW kv2 \in [Cells -> Cell], NEW t, Same(kv, kv2, t)
    PROVE  /\ \A p, tok : Has(kv, t, p, tok) => Has(kv2, t, p, tok)
           /\ NoCells(kv, t) => NoCells(kv2, t)
           /\ \A i \in Cells : t \in kv2[i].seqs => t \in kv[i].seqs /\ kv2[i] = kv[i]
<1>1. \A i \in Cells : t \in kv2[i].seqs <=> t \in kv[i].seqs
  BY DEF Same
<1>2. \A i \in Cells : t \in kv[i].seqs => kv2[i] = kv[i]
  BY DEF Same
<1>3. ASSUME NEW p, NEW tok, Has(kv, t, p, tok)
      PROVE  Has(kv2, t, p, tok)
  <2>1. PICK i \in Cells : Lone(kv, i, t, p, tok)
    BY <1>3 DEF Has
  <2>2. Lone(kv2, i, t, p, tok)
    BY <1>1, <1>2, <2>1 DEF Lone
  <2> QED
    BY <2>2 DEF Has
<1>4. NoCells(kv, t) => NoCells(kv2, t)
  BY <1>1 DEF NoCells
<1> QED
  BY <1>1, <1>2, <1>3, <1>4

\* A slot does not notice what happens to the others and to their rows.
LEMMA OtherSlot ==
    ASSUME NEW kv \in [Cells -> Cell], NEW kv2 \in [Cells -> Cell], NEW sl, NEW sl2, NEW t \in Slots,
           NEW q, NEW q2, NEW h, NEW h2,
           Same(kv, kv2, t), sl2[t] = sl[t], SlotSound(kv, sl, q, h, t),
           \A p : Waits(q, h, t, p) => Waits(q2, h2, t, p)
    PROVE  SlotSound(kv2, sl2, q2, h2, t)
<1> DEFINE x == sl[t]
<1>1. Busy(sl2[t])
  BY DEF SlotSound
<1>2. Believes(kv2, sl2[t].toks, t, q2, h2)
  BY SameHas DEF SlotSound, Believes
<1>3. Ends(kv2, sl2[t], t)
  <2>1. Ends(kv, x, t)
    BY DEF SlotSound
  <2>2. \A i \in Cells : t \in kv2[i].seqs => t \in kv[i].seqs /\ kv2[i] = kv[i]
    BY SameHas
  <2>3. Ends(kv2, x, t)
    BY <2>1, <2>2 DEF Ends
  <2> QED
    BY <2>3
<1> QED
  BY <1>1, <1>2, <1>3 DEF SlotSound

LEMMA OneSlot ==
    ASSUME NEW kv, NEW sl, NEW sv, NEW q \in Seq(BatchRow), NEW q2 \in Seq(BatchRow), NEW h \in Nat,
           NEW s \in Slots, NEW x \in Slot, NEW kv2 \in [Cells -> Cell],
           Sound(kv, sl, sv, q, h),
           \A t \in Slots \ {s} : Same(kv, kv2, t),
           Len(q) <= Len(q2), \A k \in 1 .. Len(q) : q2[k] = q[k],
           \A k \in Len(q) + 1 .. Len(q2) : q2[k].slot = s,
           SlotSound(kv2, [sl EXCEPT ![s] = x], q2, h, s),
           \A k \in h + 1 .. Len(q2) : q2[k].slot = s => RowOK(kv2, [sl EXCEPT ![s] = x], q2, h, k)
    PROVE  Sound(kv2, [sl EXCEPT ![s] = x], sv, q2, h)
<1> DEFINE sl2 == [sl EXCEPT ![s] = x]
<1>1. kv \in [Cells -> Cell] /\ sl \in [Slots -> Slot]
  BY DEF Sound, Typed
<1>2. sl2 \in [Slots -> Slot] /\ sl2[s] = x /\ \A t \in Slots \ {s} : sl2[t] = sl[t]
  BY <1>1
<1>3. Typed(kv2, sl2, sv)
  BY <1>2 DEF Sound, Typed
<1> HIDE DEF sl2
<1>0. Len(q) \in Nat /\ Len(q2) \in Nat
  BY LenProperties
<1>4. ASSUME NEW t \in Slots \ {s}, NEW p, Waits(q, h, t, p)
      PROVE  Waits(q2, h, t, p)
  <2>1. PICK k \in h + 1 .. Len(q) : q[k].slot = t /\ q[k].pos = p
    BY <1>4 DEF Waits
  <2>2. k \in h + 1 .. Len(q2) /\ k \in 1 .. Len(q)
    BY <1>0
  <2> QED
    BY <2>1, <2>2 DEF Waits
<1>5. ASSUME NEW t \in Slots
      PROVE  SlotSound(kv2, sl2, q2, h, t)
  <2>1. CASE t = s
    BY <2>1 DEF sl2
  <2>2. CASE t # s
    <3>1. SlotSound(kv, sl, q, h, t)
      BY DEF Sound
    <3> QED
      BY <1>1, <1>2, <1>4, <2>2, <3>1, OtherSlot
  <2> QED
    BY <2>1, <2>2
<1>6. ASSUME NEW k \in h + 1 .. Len(q2)
      PROVE  RowOK(kv2, sl2, q2, h, k)
  <2>1. CASE q2[k].slot = s
    BY <2>1 DEF sl2
  <2>2. CASE q2[k].slot # s
    <3> DEFINE t == q2[k].slot
    <3>1. k \in 1 .. Len(q) /\ k \in h + 1 .. Len(q) /\ k \in 1 .. Len(q2)
      BY <1>0, <2>2
    <3>2. q2[k] = q[k]
      BY <3>1
    <3>3. RowOK(kv, sl, q, h, k)
      BY <3>1 DEF Sound, RowsSound
    <3>4. t \in Slots \ {s}
      <4>1. q2[k] \in BatchRow
        BY <3>1, ElementOfSeq
      <4> QED
        BY <2>2, <4>1 DEF BatchRow
    <3>5. sl2[t] = sl[t]
      BY <1>2, <3>4
    <3>6. \A i \in Cells : t \in kv2[i].seqs => t \in kv[i].seqs /\ kv2[i] = kv[i]
      <4>1. Same(kv, kv2, t)
        BY <3>4
      <4> HIDE DEF t
      <4> QED
        BY <1>1, <4>1, SameHas
    <3>7. \A j \in h + 1 .. Len(q2) : q2[j].slot = t => j \in h + 1 .. Len(q) /\ q2[j] = q[j]
      BY <1>0, <3>4
    <3>8. q[k].slot = t /\ q[k] = q2[k]
      BY <3>2
    <3> HIDE DEF t
    <3>9. \A i \in DOMAIN kv2 : t \in kv2[i].seqs => kv2[i].pos # q2[k].pos
      BY <1>1, <3>3, <3>6, <3>8 DEF RowOK
    <3>10. \A j \in h + 1 .. Len(q2) : q2[j].slot = t /\ q2[j].pos = q2[k].pos => j = k
      BY <3>3, <3>7, <3>8 DEF RowOK
    <3>11. /\ q2[k].pos + 1 \in DOMAIN sl2[t].toks /\ sl2[t].toks[q2[k].pos + 1] = q2[k].tok
           /\ sl2[t].st \in {"PROCESSING_PROMPT", "DONE_PROMPT", "GENERATING"}
           /\ sl2[t].st # "PROCESSING_PROMPT" => k <= sl2[t].i_batch + 1
      BY <3>3, <3>5, <3>8 DEF RowOK
    <3> QED
      BY <3>8, <3>9, <3>10, <3>11 DEF RowOK
  <2> QED
    BY <2>1, <2>2
<1> QED
  BY <1>3, <1>5, <1>6 DEF Sound, RowsSound, sl2
\* Between two handlers nothing waits.
LEMMA OneSlotAlone ==
    ASSUME NEW kv, NEW sl, NEW sv, NEW s \in Slots, NEW x \in Slot, NEW kv2 \in [Cells -> Cell],
           Sound(kv, sl, sv, <<>>, 0),
           \A t \in Slots \ {s} : Same(kv, kv2, t),
           SlotSound(kv2, [sl EXCEPT ![s] = x], <<>>, 0, s)
    PROVE  Sound(kv2, [sl EXCEPT ![s] = x], sv, <<>>, 0)
<1> DEFINE q == <<>>
<1>1. q \in Seq(BatchRow) /\ Len(q) = 0 /\ 0 \in Nat
  BY EmptySeq
<1>2. /\ Len(q) <= Len(q) /\ \A k \in 1 .. Len(q) : q[k] = q[k]
      /\ \A k \in Len(q) + 1 .. Len(q) : q[k].slot = s
      /\ \A k \in 0 + 1 .. Len(q) : q[k].slot = s => RowOK(kv2, [sl EXCEPT ![s] = x], q, 0, k)
  <2> HIDE DEF q
  <2> QED
    BY <1>1
<1>3. Sound(kv, sl, sv, q, 0) /\ SlotSound(kv2, [sl EXCEPT ![s] = x], q, 0, s)
  OBVIOUS
<1> HIDE DEF q
<1>4. Sound(kv2, [sl EXCEPT ![s] = x], sv, q, 0)
  BY <1>1, <1>2, <1>3, OneSlot
<1> QED
  BY <1>4 DEF q

\* Only slots that work on their tokens have rows.
LEMMA NoRowsOf ==
    ASSUME NEW kv, NEW sl, NEW sv, NEW q, NEW h, NEW s, Sound(kv, sl, sv, q, h),
           sl[s].st \notin {"PROCESSING_PROMPT", "DONE_PROMPT", "GENERATING"}
    PROVE  /\ \A k \in h + 1 .. Len(q) : q[k].slot # s
           /\ \A p : ~Waits(q, h, s, p)
<1>1. ASSUME NEW k \in h + 1 .. Len(q), q[k].slot = s
      PROVE  FALSE
  <2>1. RowOK(kv, sl, q, h, k)
    BY DEF Sound, RowsSound
  <2> QED
    BY <1>1, <2>1 DEF RowOK
<1> QED
  BY <1>1 DEF Waits

LEMMA NothingWaits == \A s, p : ~Waits(<<>>, 0, s, p)
<1>1. Len(<<>>) = 0
  BY EmptySeq
<1> QED
  BY <1>1 DEF Waits

\* a slot that waits for nothing: what is left of SlotSound
LEMMA AloneSound ==
    ASSUME NEW kv, NEW sl, NEW s
    PROVE  SlotSound(kv, sl, <<>>, 0, s) <=>
              /\ Busy(sl[s])
              /\ \A k \in DOMAIN sl[s].toks : Has(kv, s, k - 1, sl[s].toks[k])
              /\ Ends(kv, sl[s], s)
BY NothingWaits DEF SlotSound, Believes

\* R is S, with other cells and another slot s
Changes(S, R, s, kv, x) ==
    /\ R.cells = kv /\ R.slot = [S.slot EXCEPT ![s] = x] /\ R.saved = S.saved
    /\ S \in BaseState => R \in BaseState
    /\ S \in FillState => R \in FillState /\ R.batch = S.batch /\ R.batched = S.batched /\ R.full = S.full

Freed(x) == [x EXCEPT !.st = "IDLE", !.task = NoTask, !.sampled = NoTok, !.i_batch = -1]
Cleared(x) == [x EXCEPT !.toks = <<>>]

LEMMA SlotFields ==
    ASSUME NEW S, S \in BaseState \/ S \in FillState
    PROVE  S.cells \in [Cells -> Cell] /\ S.slot \in [Slots -> Slot] /\ S.saved \in Seq(Entry)
BY DEF BaseState, FillState

LEMMA FreedSlot == \A x \in Slot : Freed(x) \in Slot /\ Cleared(x) \in Slot
<1> SUFFICES ASSUME NEW x \in Slot PROVE Freed(x) \in Slot /\ Cleared(x) \in Slot
  OBVIOUS
<1>1. Freed(x) \in Slot
  <2> DEFINE y1 == [x EXCEPT !.st = "IDLE"]
             y2 == [y1 EXCEPT !.task = NoTask]
             y3 == [y2 EXCEPT !.sampled = NoTok]
             y4 == [y3 EXCEPT !.i_batch = -1]
  <2>1. y1 \in Slot
    BY DEF Slot, States
  <2> HIDE DEF y1
  <2>2. y2 \in Slot
    BY <2>1 DEF Slot
  <2> HIDE DEF y2
  <2>3. y3 \in Slot
    BY <2>2 DEF Slot
  <2> HIDE DEF y3
  <2>4. y4 \in Slot
    BY <2>3, SMTT(30) DEF Slot
  <2>5. Freed(x) = y4
    BY SMT DEF Freed, y1, y2, y3
  <2> HIDE DEF y4
  <2> QED
    BY <2>4, <2>5
<1>2. Cleared(x) \in Slot
  <2>1. <<>> \in Seq(Tok)
    BY EmptySeq
  <2> QED
    BY <2>1 DEF Slot, Cleared
<1> QED
  BY <1>1, <1>2

\* Without children release() frees its slot and nothing else.
LEMMA ReleaseLemma ==
    ASSUME NEW S, S \in BaseState \/ S \in FillState, NEW s \in Slots, \A t \in Slots : Busy(S.slot[t]),
           S.slot[s].st # "IDLE"
    PROVE  Changes(S, Release(S, s), s, S.cells, Freed(S.slot[s]))
<1> DEFINE orphans == {t \in Slots : S.slot[t].task # NoTask /\ S.slot[t].task.parent = s}
           sl == [t \in Slots |->
                    IF t = s THEN [S.slot[t] EXCEPT !.st = "IDLE", !.task = NoTask, !.sampled = NoTok, !.i_batch = -1]
                    ELSE IF t \in orphans THEN [S.slot[t] EXCEPT !.task.parent = NoSlot] ELSE S.slot[t]]
           R == [S EXCEPT !.slot = sl]
<1>1. S.slot \in [Slots -> Slot]
  BY SlotFields
<1>2. \A t \in Slots : t \notin orphans
  <2>1. s # NoSlot
    BY NSlotsAssumption DEF Slots, NoSlot
  <2>2. ASSUME NEW t \in Slots, S.slot[t].task # NoTask
        PROVE  S.slot[t].task.parent = NoSlot
    BY <1>1, <2>2 DEF Slot, Task
  <2> QED
    BY <2>1, <2>2
<1>3. ~IsChild(S, s)
  BY <1>1 DEF IsChild, Slot, Task
<1>4. Release(S, s) = R
  BY <1>3 DEF Release
<1> HIDE DEF orphans
<1>5. sl = [S.slot EXCEPT ![s] = Freed(S.slot[s])]
  BY <1>1, <1>2 DEF Freed
<1>6. sl \in [Slots -> Slot]
  <2>1. Freed(S.slot[s]) \in Slot
    BY <1>1, FreedSlot
  <2> QED
    BY <1>1, <1>5, <2>1
<1> HIDE DEF sl
<1>7. R.slot = sl /\ R.cells = S.cells /\ R.saved = S.saved
  BY DEF BaseState, FillState
<1>8. /\ S \in BaseState => R \in BaseState
      /\ S \in FillState => R \in FillState /\ R.batch = S.batch /\ R.batched = S.batched /\ R.full = S.full
  BY <1>6 DEF BaseState, FillState
<1> QED
  BY <1>4, <1>5, <1>7, <1>8 DEF Changes

LEMMA ClearLemma ==
    ASSUME NEW S, S \in BaseState \/ S \in FillState, NEW s \in Slots
    PROVE  Changes(S, PromptClear(S, s), s, SeqRm(S.cells, s, 0, End), Cleared(S.slot[s]))
<1> DEFINE kv == SeqRm(S.cells, s, 0, End)
           R == PromptClear(S, s)
<1>1. S.slot \in [Slots -> Slot] /\ kv \in [Cells -> Cell]
  BY SlotFields, SeqRmLemma
<1>2. Cleared(S.slot[s]) \in Slot
  BY <1>1, FreedSlot
<1>3. R = [S EXCEPT !.cells = kv, !.slot = [S.slot EXCEPT ![s] = Cleared(S.slot[s])]]
  BY <1>1 DEF PromptClear, Cleared, BaseState, FillState
<1> HIDE DEF kv, R
<1>4. R.cells = kv /\ R.slot = [S.slot EXCEPT ![s] = Cleared(S.slot[s])] /\ R.saved = S.saved
  BY <1>3 DEF BaseState, FillState
<1>5. /\ S \in BaseState => R \in BaseState
      /\ S \in FillState => R \in FillState /\ R.batch = S.batch /\ R.batched = S.batched /\ R.full = S.full
  BY <1>1, <1>2, <1>3 DEF BaseState, FillState
<1> QED
  BY <1>4, <1>5 DEF Changes, kv, R

\* A slot without tokens and cells.
LEMMA ClearedSound ==
    ASSUME NEW kv \in [Cells -> Cell], NEW sl \in [Slots -> Slot], NEW q, NEW h, NEW s \in Slots, Busy(sl[s])
    PROVE  SlotSound(SeqRm(kv, s, 0, End), [sl EXCEPT ![s] = Cleared(sl[s])], q, h, s)
<1> DEFINE kv2 == SeqRm(kv, s, 0, End)
           x == Cleared(sl[s])
           sl2 == [sl EXCEPT ![s] = x]
<1>1. NoCells(kv2, s)
  BY SeqGone
<1>2. sl2[s] = x
  OBVIOUS
<1>3. x.toks = <<>> /\ x.st = sl[s].st /\ x.task = sl[s].task /\ x.sampled = sl[s].sampled
  BY DEF Slot, Cleared
<1> HIDE DEF kv2, x
<1>4. Len(<<>>) = 0 /\ DOMAIN <<>> = {}
  BY EmptySeq
<1>5. Busy(x)
  <2>1. x.st = "PROCESSING_PROMPT" => x.task \in Task
    BY <1>3 DEF Busy
  <2>2. x.st = "PROCESSING_PROMPT" => 0 <= Len(x.task.prompt)
    <3>1. x.st = "PROCESSING_PROMPT" => x.task.prompt \in Seq(Tok)
      BY <2>1 DEF Task
    <3> QED
      BY <3>1, LenProperties
  <2> QED
    BY <1>3, <1>4, <2>2 DEF Busy
<1>6. Believes(kv2, x.toks, s, q, h)
  BY <1>3, <1>4 DEF Believes
<1>7. Ends(kv2, x, s)
  BY <1>1 DEF NoCells, Ends
<1> HIDE DEF sl2
<1>8. SlotSound(kv2, sl2, q, h, s)
  BY <1>2, <1>5, <1>6, <1>7 DEF SlotSound
<1> QED
  BY <1>8 DEF kv2, x, sl2
\* A released slot keeps its tokens and its cells.
LEMMA ReleasedSound ==
    ASSUME NEW kv, NEW sl \in [Slots -> Slot], NEW q, NEW h, NEW s \in Slots, SlotSound(kv, sl, q, h, s)
    PROVE  SlotSound(kv, [sl EXCEPT ![s] = Freed(sl[s])], q, h, s)
<1> DEFINE x == Freed(sl[s])
           sl2 == [sl EXCEPT ![s] = x]
<1>1. sl2[s] = x
  OBVIOUS
<1>2. x.toks = sl[s].toks /\ x.st = "IDLE" /\ x.task = NoTask
  BY DEF Slot, Freed
<1> HIDE DEF x, sl2
<1>3. Busy(x)
  BY <1>2 DEF Busy
<1>4. Believes(kv, x.toks, s, q, h)
  BY <1>2 DEF SlotSound
<1>5. Ends(kv, x, s)
  BY <1>2 DEF Ends
<1>6. SlotSound(kv, sl2, q, h, s)
  BY <1>1, <1>3, <1>4, <1>5 DEF SlotSound
<1> QED
  BY <1>6 DEF sl2, x

-----------------------------------------------------------------------------
(***************************************************************************)
(* The prompt cache                                                        *)
(***************************************************************************)

LEMMA OtherSaved ==
    ASSUME NEW kv, NEW sl, NEW sv, NEW sv2 \in Seq(Entry), NEW q, NEW h, Sound(kv, sl, sv, q, h),
           \A k \in DOMAIN sv2 : EntryOK(sv2[k])
    PROVE  Sound(kv, sl, sv2, q, h)
BY DEF Sound, Typed

LEMMA SavedOK ==
    ASSUME NEW kv, NEW sl, NEW sv, NEW q, NEW h, Sound(kv, sl, sv, q, h)
    PROVE  /\ kv \in [Cells -> Cell] /\ sl \in [Slots -> Slot] /\ sv \in Seq(Entry)
           /\ \A k \in 1 .. Len(sv) : EntryOK(sv[k]) /\ sv[k] \in Entry
           /\ \A s \in Slots : SlotSound(kv, sl, q, h, s) /\ Busy(sl[s])
<1>1. sv \in Seq(Entry) /\ \A k \in DOMAIN sv : EntryOK(sv[k])
  BY DEF Sound, Typed
<1>2. DOMAIN sv = 1 .. Len(sv)
  BY <1>1, LenProperties
<1>3. \A k \in 1 .. Len(sv) : sv[k] \in Entry
  BY <1>1, ElementOfSeq
<1> QED
  BY <1>1, <1>2, <1>3 DEF Sound, Typed, SlotSound

\* prompt_save() appends the entry of the slot to some of the others.
LEMMA PromptSaveLemma ==
    ASSUME NEW S \in BaseState, NEW s \in Slots, Sound(S.cells, S.slot, S.saved, <<>>, 0), S.slot[s].st = "IDLE",
           params.n_ctx \in Nat
    PROVE  LET R == PromptSave(S, s)
           IN  R \in BaseState /\ R.cells = S.cells /\ R.slot = S.slot /\ Sound(R.cells, R.slot, R.saved, <<>>, 0)
<1> DEFINE toks == S.slot[s].toks
           K == {k \in DOMAIN S.saved : ~IsPrefix(S.saved[k].toks, toks)}
           kept == Kept(S.saved, K)
           e == [toks |-> toks, rows |-> Rows(S.cells, s)]
           R == [S EXCEPT !.saved = Append(kept, e)]
<1>1. CASE PromptSave(S, s) = S
  BY <1>1
<1>2. CASE PromptSave(S, s) = R
  <2>1. /\ S.cells \in [Cells -> Cell] /\ S.slot \in [Slots -> Slot] /\ S.saved \in Seq(Entry)
        /\ \A k \in 1 .. Len(S.saved) : EntryOK(S.saved[k])
        /\ SlotSound(S.cells, S.slot, <<>>, 0, s)
    BY SavedOK
  <2>2. toks \in Seq(Tok)
    BY <2>1 DEF Slot
  <2>3. Believes(S.cells, toks, s, <<>>, 0)
    BY <2>1 DEF SlotSound
  <2> HIDE DEF toks
  <2>4. e \in Entry /\ EntryOK(e)
    BY <2>1, <2>2, <2>3, SavedEntry
  <2>5. kept \in Seq(Entry) /\ \A k \in DOMAIN kept : Nth(K, k) \in K /\ kept[k] = S.saved[Nth(K, k)]
    <3>1. K \in SUBSET DOMAIN S.saved
      OBVIOUS
    <3> HIDE DEF K
    <3> QED
      BY <2>1, <3>1, KeptLemma
  <2>6. \A k \in DOMAIN kept : EntryOK(kept[k])
    <3>1. K \in SUBSET (1 .. Len(S.saved))
      BY <2>1, LenProperties
    <3> HIDE DEF K
    <3> QED
      BY <2>1, <2>5, <3>1
  <2> HIDE DEF kept, e
  <2> DEFINE new == Append(kept, e)
  <2>7. /\ new \in Seq(Entry) /\ Len(new) = Len(kept) + 1
        /\ \A k \in 1 .. Len(kept) : new[k] = kept[k]
        /\ new[Len(kept) + 1] = e
    BY <2>4, <2>5, AppendProperties
  <2>8. \A k \in DOMAIN new : EntryOK(new[k])
    <3>1. Len(kept) \in Nat /\ DOMAIN kept = 1 .. Len(kept) /\ DOMAIN new = 1 .. Len(new)
      BY <2>5, <2>7, LenProperties
    <3> HIDE DEF new
    <3>2. ASSUME NEW k \in DOMAIN new
          PROVE  k \in 1 .. Len(kept) \/ k = Len(kept) + 1
      BY <2>7, <3>1
    <3> QED
      BY <2>4, <2>6, <2>7, <3>1, <3>2
  <2> HIDE DEF new
  <2>9. R.cells = S.cells /\ R.slot = S.slot /\ R.saved = new /\ R \in BaseState
    BY <2>7 DEF BaseState, new
  <2>10. Sound(R.cells, R.slot, R.saved, <<>>, 0)
    BY <2>7, <2>8, <2>9, OtherSaved
  <2> QED
    BY <1>2, <2>9, <2>10
<1> QED
  <2>1. PromptSave(S, s) = S \/ PromptSave(S, s) = R
    BY DEF PromptSave
  <2> QED
    BY <1>1, <1>2, <2>1

\* update() drops the oldest entries.
LEMMA CacheUpdateLemma ==
    ASSUME NEW S \in BaseState, Sound(S.cells, S.slot, S.saved, <<>>, 0)
    PROVE  LET R == CacheUpdate(S)
           IN  R \in BaseState /\ R.cells = S.cells /\ R.slot = S.slot /\ Sound(R.cells, R.slot, R.saved, <<>>, 0)
<1> DEFINE over == {k \in DOMAIN S.saved : \A j \in 1 .. k :
                      /\ j < Len(S.saved) /\ params.limit > 0
                      /\ TokensIn(SubSeq(S.saved, j, Len(S.saved))) > params.limit}
           m == Cardinality(over) + 1
           new == SubSeq(S.saved, m, Len(S.saved))
           R == [S EXCEPT !.saved = new]
<1>1. S.saved \in Seq(Entry) /\ \A k \in 1 .. Len(S.saved) : EntryOK(S.saved[k]) /\ S.saved[k] \in Entry
  BY SavedOK
<1>2. Len(S.saved) \in Nat /\ DOMAIN S.saved = 1 .. Len(S.saved)
  BY <1>1, LenProperties
<1>3. m \in Nat /\ m >= 1
  <2>1. IsFiniteSet(over)
    <3>1. IsFiniteSet(1 .. Len(S.saved)) /\ over \in SUBSET (1 .. Len(S.saved))
      BY <1>2, FS_Interval
    <3> HIDE DEF over
    <3> QED
      BY <3>1, FS_Subset
  <2> HIDE DEF over
  <2> QED
    BY <2>1, FS_CardinalityType
<1>4. CacheUpdate(S) = R
  BY DEF CacheUpdate
<1> HIDE DEF m
<1>5. \A i \in m .. Len(S.saved) : S.saved[i] \in Entry
  BY <1>1, <1>2, <1>3
<1>6. /\ new \in Seq(Entry)
      /\ Len(new) = IF m <= Len(S.saved) THEN Len(S.saved) - m + 1 ELSE 0
      /\ \A i \in 1 .. Len(S.saved) - m + 1 : new[i] = S.saved[m + i - 1]
  BY <1>2, <1>3, <1>5, SubSeqProperties
<1> HIDE DEF new
<1>7. \A k \in DOMAIN new : EntryOK(new[k])
  <2> SUFFICES ASSUME NEW k \in DOMAIN new PROVE EntryOK(new[k])
    OBVIOUS
  <2>1. k \in 1 .. Len(S.saved) - m + 1 /\ m + k - 1 \in 1 .. Len(S.saved)
    <3>1. k \in 1 .. Len(new)
      BY <1>6, LenProperties
    <3> QED
      BY <1>2, <1>3, <1>6, <3>1
  <2> QED
    BY <1>1, <1>6, <2>1
<1>8. R.cells = S.cells /\ R.slot = S.slot /\ R.saved = new /\ R \in BaseState
  BY <1>6 DEF BaseState
<1>9. Sound(R.cells, R.slot, R.saved, <<>>, 0)
  BY <1>6, <1>7, <1>8, OtherSaved
<1> QED
  BY <1>4, <1>8, <1>9
\* load() finds an entry, or 0.
LEMMA BestSavedLemma ==
    ASSUME NEW S, NEW s, NEW prompt, Len(S.saved) \in Nat
    PROVE  BestSaved(S, s, prompt) \in 0 .. Len(S.saved)
<1> DEFINE n == Len(S.saved)
           match(k) == Match(IF k = 0 THEN S.slot[s].toks ELSE S.saved[k].toks, prompt)
           better(k, j) == 4 * match(k).lcp >= match(k).size /\ Better(match(k), match(j))
           Body(f, m) == f = [k \in 0 .. m |-> IF k = 0 THEN 0 ELSE IF better(k, f[k - 1]) THEN k ELSE f[k - 1]]
           best == CHOOSE f : Body(f, n)
<1>1. BestSaved(S, s, prompt) = best[n]
  BY DEF BestSaved
<1> HIDE DEF n, better
<1>2. n \in Nat
  BY DEF n
<1>3. \A m \in Nat : \E f : Body(f, m)
  <2> DEFINE K == {m \in Nat : ~\E f : Body(f, m)}
  <2> SUFFICES ASSUME K # {} PROVE FALSE
    OBVIOUS
  <2>1. PICK m \in K : \A y \in K : m <= y
    <3>1. K \in SUBSET Nat
      OBVIOUS
    <3> HIDE DEF K
    <3> QED
      BY <3>1, ShiftLoop!LeastNumber
  <2>2. m # 0
    <3>1. Body([k \in 0 .. 0 |-> 0], 0)
      OBVIOUS
    <3> QED
      BY <2>1, <3>1
  <2>3. m - 1 \in Nat /\ m - 1 \notin K
    <3>1. m \in Nat /\ m - 1 \in Nat /\ ~(m <= m - 1)
      BY <2>1, <2>2
    <3> QED
      BY <2>1, <3>1
  <2>4. PICK f : Body(f, m - 1)
    BY <2>3
  <2> DEFINE g == [k \in 0 .. m |-> IF k = m THEN IF better(m, f[m - 1]) THEN m ELSE f[m - 1] ELSE f[k]]
  <2>5. ASSUME NEW k \in 0 .. m
        PROVE  g[k] = IF k = 0 THEN 0 ELSE IF better(k, g[k - 1]) THEN k ELSE g[k - 1]
    <3>0. m \in Nat /\ m # 0 /\ k \in Nat /\ k <= m
      BY <2>1, <2>2
    <3>1. k # 0 => k - 1 \in 0 .. m /\ k - 1 # m
      BY <3>0
    <3>2. k # 0 => g[k - 1] = f[k - 1]
      BY <3>1
    <3>3. CASE k = m
      <4>1. g[k] = IF better(m, f[m - 1]) THEN m ELSE f[m - 1]
        BY <3>3
      <4> HIDE DEF g
      <4> QED
        BY <3>0, <3>2, <3>3, <4>1
    <3>4. CASE k # m
      <4>1. k \in 0 .. m - 1 /\ g[k] = f[k]
        BY <3>0, <3>4
      <4>2. f[k] = IF k = 0 THEN 0 ELSE IF better(k, f[k - 1]) THEN k ELSE f[k - 1]
        BY <2>4, <4>1
      <4> HIDE DEF g
      <4> QED
        BY <3>2, <4>1, <4>2
    <3> QED
      BY <3>3, <3>4
  <2>6. Body(g, m)
    <3>1. g = [k \in 0 .. m |-> g[k]]
      OBVIOUS
    <3> HIDE DEF g
    <3> QED
      BY <2>5, <3>1
  <2> QED
    BY <2>1, <2>6
<1>4. Body(best, n)
  <2>1. \E f : Body(f, n)
    BY <1>2, <1>3
  <2> QED
    BY <2>1
<1> HIDE DEF best
<1>5. \A k \in 0 .. n : best[k] \in 0 .. n
  <2> DEFINE K == {k \in 0 .. n : best[k] \notin 0 .. n}
  <2> SUFFICES ASSUME K # {} PROVE FALSE
    OBVIOUS
  <2>1. PICK m \in K : \A y \in K : m <= y
    <3>1. K \in SUBSET Nat
      BY <1>2
    <3> HIDE DEF K
    <3> QED
      BY <3>1, ShiftLoop!LeastNumber
  <2>2. m \in 0 .. n /\ best[m] = IF m = 0 THEN 0 ELSE IF better(m, best[m - 1]) THEN m ELSE best[m - 1]
    BY <1>4, <2>1
  <2>3. m # 0
    BY <1>2, <2>1, <2>2
  <2>4. m - 1 \in 0 .. n /\ ~(m <= m - 1)
    BY <1>2, <2>2, <2>3
  <2>5. best[m - 1] \in 0 .. n
    BY <2>1, <2>4
  <2> QED
    BY <2>1, <2>2, <2>3, <2>5
<1>6. n \in 0 .. n
  BY <1>2
<1>7. best[n] \in 0 .. n
  BY <1>5, <1>6
<1> QED
  BY <1>1, <1>7 DEF n

\* An idle slot gets other tokens and other cells.
LEMMA GivenSound ==
    ASSUME NEW kv2 \in [Cells -> Cell], NEW sl \in [Slots -> Slot], NEW s \in Slots, NEW toks \in Seq(Tok),
           sl[s].st = "IDLE", Busy(sl[s]), Believes(kv2, toks, s, <<>>, 0)
    PROVE  /\ [sl[s] EXCEPT !.toks = toks] \in Slot
           /\ SlotSound(kv2, [sl EXCEPT ![s] = [sl[s] EXCEPT !.toks = toks]], <<>>, 0, s)
<1> DEFINE x == [sl[s] EXCEPT !.toks = toks]
           sl2 == [sl EXCEPT ![s] = x]
<1>1. sl2[s] = x /\ x \in Slot
  BY DEF Slot
<1>2. x.toks = toks /\ x.st = "IDLE" /\ x.task = sl[s].task
  BY DEF Slot
<1> HIDE DEF x, sl2
<1>3. Busy(x) /\ Ends(kv2, x, s)
  BY <1>2 DEF Busy, Ends
<1>4. SlotSound(kv2, sl2, <<>>, 0, s)
  BY <1>1, <1>2, <1>3 DEF SlotSound
<1> QED
  BY <1>1, <1>4 DEF sl2, x

\* A slot that is cleared between two handlers.
LEMMA PromptClearLemma ==
    ASSUME NEW S \in BaseState, NEW s \in Slots, Sound(S.cells, S.slot, S.saved, <<>>, 0)
    PROVE  LET R == PromptClear(S, s)
           IN  /\ R \in BaseState /\ Sound(R.cells, R.slot, R.saved, <<>>, 0)
               /\ R.slot = [S.slot EXCEPT ![s] = Cleared(S.slot[s])]
<1> DEFINE R == PromptClear(S, s)
           kv == SeqRm(S.cells, s, 0, End)
           x == Cleared(S.slot[s])
<1>1. S.cells \in [Cells -> Cell] /\ S.slot \in [Slots -> Slot] /\ Busy(S.slot[s])
  BY SavedOK
<1>2. Changes(S, R, s, kv, x)
  BY ClearLemma
<1>3. kv \in [Cells -> Cell] /\ \A t \in Slots \ {s} : Same(S.cells, kv, t)
  BY <1>1, SeqRmLemma
<1>4. SlotSound(kv, [S.slot EXCEPT ![s] = x], <<>>, 0, s)
  BY <1>1, ClearedSound
<1>5. x \in Slot
  BY <1>1, FreedSlot
<1> HIDE DEF R, kv, x
<1>6. Sound(kv, [S.slot EXCEPT ![s] = x], S.saved, <<>>, 0)
  BY <1>3, <1>4, <1>5, OneSlotAlone
<1>7. R \in BaseState /\ R.cells = kv /\ R.slot = [S.slot EXCEPT ![s] = x] /\ R.saved = S.saved
  BY <1>2 DEF Changes
<1> QED
  BY <1>6, <1>7 DEF R, x

\* prompt_load() takes an entry out of the cache and into an idle slot.
LEMMA PromptLoadLemma ==
    ASSUME NEW S \in BaseState, NEW s \in Slots, NEW prompt, Sound(S.cells, S.slot, S.saved, <<>>, 0),
           S.slot[s].st = "IDLE", params.n_ctx \in Nat
    PROVE  LET R == PromptLoad(S, s, prompt)
           IN  R \in BaseState /\ Sound(R.cells, R.slot, R.saved, <<>>, 0) /\ R.slot[s].st = "IDLE"
<1> DEFINE k == BestSaved(S, s, prompt)
           n == Len(S.saved)
<1>1. /\ S.cells \in [Cells -> Cell] /\ S.slot \in [Slots -> Slot] /\ S.saved \in Seq(Entry)
      /\ \A j \in 1 .. n : EntryOK(S.saved[j]) /\ S.saved[j] \in Entry
      /\ Busy(S.slot[s])
  BY SavedOK
<1>2. n \in Nat
  BY <1>1, LenProperties
<1>3. k \in 0 .. n
  BY <1>2, BestSavedLemma
<1>4. CASE k = 0
  BY <1>4 DEF PromptLoad
<1>5. CASE k # 0 /\ ~Fits(S.cells, s, S.saved[k].rows)
  <2> DEFINE R == PromptClear(S, s)
  <2>1. PromptLoad(S, s, prompt) = R
    BY <1>5 DEF PromptLoad
  <2>2. /\ R \in BaseState /\ Sound(R.cells, R.slot, R.saved, <<>>, 0)
        /\ R.slot = [S.slot EXCEPT ![s] = Cleared(S.slot[s])]
    BY PromptClearLemma
  <2>3. Cleared(S.slot[s]).st = "IDLE"
    BY <1>1 DEF Cleared, Slot
  <2> HIDE DEF R
  <2> QED
    BY <1>1, <2>1, <2>2, <2>3
<1>6. CASE k # 0 /\ Fits(S.cells, s, S.saved[k].rows)
  <2> DEFINE e == S.saved[k]
             kv == Restored(S.cells, s, e.rows)
             x == [S.slot[s] EXCEPT !.toks = e.toks]
             sl == [S.slot EXCEPT ![s] = x]
             new == RemoveAt(S.saved, k)
             R == PromptLoad(S, s, prompt)
  <2>1. k \in 1 .. n
    BY <1>2, <1>3, <1>6
  <2>2. R = [S EXCEPT !.cells = kv, !.slot = sl, !.saved = new]
    BY <1>6 DEF PromptLoad, BaseState
  <2> HIDE DEF k, R
  <2>3. e \in Entry /\ EntryOK(e) /\ e.toks \in Seq(Tok)
    BY <1>1, <2>1 DEF Entry
  <2>4. /\ kv \in [Cells -> Cell] /\ \A t \in Slots \ {s} : Same(S.cells, kv, t)
        /\ Believes(kv, e.toks, s, <<>>, 0)
    <3> HIDE DEF e
    <3> QED
      BY <1>1, <1>6, <2>3, RestoredLemma DEF k, e
  <2>5. x \in Slot /\ SlotSound(kv, sl, <<>>, 0, s)
    <3> HIDE DEF e, kv
    <3> QED
      BY <1>1, <2>3, <2>4, GivenSound
  <2>6. Sound(kv, sl, S.saved, <<>>, 0)
    <3> HIDE DEF x, kv
    <3> QED
      BY <2>4, <2>5, OneSlotAlone
  <2>7. new \in Seq(Entry) /\ \A j \in DOMAIN new : EntryOK(new[j])
    <3> DEFINE p1 == SubSeq(S.saved, 1, k - 1)
               p2 == SubSeq(S.saved, k + 1, n)
    <3>1. /\ p1 \in Seq(Entry) /\ Len(p1) = k - 1 /\ \A i \in 1 .. k - 1 : p1[i] = S.saved[i]
      <4>1. \A i \in 1 .. k - 1 : S.saved[i] \in Entry
        BY <1>1, <1>2, <2>1
      <4>2. k - 1 \in Int /\ (IF 1 <= k - 1 THEN k - 1 - 1 + 1 ELSE 0) = k - 1 /\ 1 \in Int
            /\ \A i \in Int : 1 + i - 1 = i
        BY <1>2, <2>1
      <4>3. /\ p1 \in Seq(Entry) /\ Len(p1) = IF 1 <= k - 1 THEN k - 1 - 1 + 1 ELSE 0
            /\ \A i \in 1 .. k - 1 - 1 + 1 : p1[i] = S.saved[1 + i - 1]
        BY <4>1, <4>2, SubSeqProperties
      <4> HIDE DEF p1
      <4> QED
        BY <1>2, <2>1, <4>2, <4>3
    <3>2. /\ p2 \in Seq(Entry) /\ Len(p2) = n - k /\ \A i \in 1 .. n - k : p2[i] = S.saved[k + i]
      <4> DEFINE m == k + 1
      <4>1. m \in Int /\ \A i \in m .. n : S.saved[i] \in Entry
        BY <1>1, <1>2, <2>1
      <4>2. p2 = SubSeq(S.saved, m, n)
        OBVIOUS
      <4>3. m = k + 1
        OBVIOUS
      <4> HIDE DEF m, n, p2
      <4>4. /\ p2 \in Seq(Entry) /\ Len(p2) = IF m <= n THEN n - m + 1 ELSE 0
            /\ \A i \in 1 .. n - m + 1 : p2[i] = S.saved[m + i - 1]
        BY <1>2, <4>1, <4>2, SubSeqProperties
      <4>5. n - m + 1 = n - k /\ \A i \in Int : m + i - 1 = k + i
        BY <1>2, <2>1, <4>3
      <4> QED
        BY <1>2, <2>1, <4>3, <4>4, <4>5
    <3>3. new = p1 \o p2
      BY DEF RemoveAt
    <3> HIDE DEF p1, p2, new, n
    <3>4. /\ new \in Seq(Entry) /\ Len(new) = Len(p1) + Len(p2)
          /\ \A i \in 1 .. Len(p1) + Len(p2) : new[i] = IF i <= Len(p1) THEN p1[i] ELSE p2[i - Len(p1)]
      BY <3>1, <3>2, <3>3, ConcatProperties
    <3>5. ASSUME NEW j \in DOMAIN new
          PROVE  EntryOK(new[j])
      <4>1. j \in 1 .. n - 1
        <5>1. DOMAIN new = 1 .. Len(new)
          BY <3>4, LenProperties
        <5> QED
          BY <1>2, <2>1, <3>1, <3>2, <3>4, <5>1
      <4>2. CASE j <= k - 1
        <5>1. new[j] = S.saved[j] /\ j \in 1 .. n
          BY <1>2, <2>1, <3>1, <3>2, <3>4, <4>1, <4>2
        <5> QED
          BY <1>1, <5>1
      <4>3. CASE ~(j <= k - 1)
        <5>1. j - (k - 1) \in 1 .. n - k /\ k + (j - (k - 1)) \in 1 .. n
          BY <1>2, <2>1, <4>1, <4>3
        <5>2. new[j] = p2[j - (k - 1)]
          BY <1>2, <2>1, <3>1, <3>2, <3>4, <4>1, <4>3, SMTT(20)
        <5>3. new[j] = S.saved[k + (j - (k - 1))]
          BY <3>2, <5>1, <5>2
        <5> QED
          BY <1>1, <5>1, <5>3
      <4> QED
        BY <4>2, <4>3
    <3> QED
      BY <3>4, <3>5
  <2>8. sl \in [Slots -> Slot] /\ sl[s] = x /\ x.st = "IDLE"
    <3>1. x.st = "IDLE"
      BY <1>1 DEF Slot
    <3> HIDE DEF x
    <3> QED
      BY <1>1, <2>5, <3>1
  <2> HIDE DEF kv, sl, new, x
  <2>9. R.cells = kv /\ R.slot = sl /\ R.saved = new /\ R \in BaseState
    BY <2>2, <2>4, <2>7, <2>8 DEF BaseState
  <2>10. Sound(R.cells, R.slot, R.saved, <<>>, 0)
    BY <2>6, <2>7, <2>9, OtherSaved
  <2> QED
    BY <2>8, <2>9, <2>10 DEF R
<1> QED
  BY <1>4, <1>5, <1>6
-----------------------------------------------------------------------------
(***************************************************************************)
(* The tasks                                                               *)
(***************************************************************************)

\* SaveAndClear(S, s): an idle slot gives its tokens to the prompt cache.
LEMMA SaveTurn ==
    ASSUME params.n_ctx \in Nat, NEW s \in Slots, NEW S, NEW j, NEW k, SaveGood(S, j)
    PROVE  \A T \in SaveAndClear(S, s) : SaveGood(T, k)
<1>1. S \in BaseState /\ Sound(S.cells, S.slot, S.saved, <<>>, 0)
  BY DEF SaveGood
<1>2. CASE Processing(S, s) \/ S.slot[s].toks = <<>>
  BY <1>1, <1>2 DEF SaveAndClear, SaveGood
<1>3. CASE ~(Processing(S, s) \/ S.slot[s].toks = <<>>)
  <2> DEFINE P == PromptSave(S, s)
             Q == PromptClear(P, s)
             R == CacheUpdate(Q)
  <2>1. SaveAndClear(S, s) = {R}
    BY <1>3 DEF SaveAndClear
  <2>2. P \in BaseState /\ Sound(P.cells, P.slot, P.saved, <<>>, 0)
    BY <1>1, <1>3, PromptSaveLemma DEF Processing
  <2> HIDE DEF P
  <2>3. Q \in BaseState /\ Sound(Q.cells, Q.slot, Q.saved, <<>>, 0)
    BY <2>2, PromptClearLemma
  <2> HIDE DEF Q
  <2>4. R \in BaseState /\ Sound(R.cells, R.slot, R.saved, <<>>, 0)
    BY <2>3, CacheUpdateLemma
  <2> HIDE DEF R
  <2> QED
    BY <2>1, <2>4 DEF SaveGood
<1> QED
  BY <1>2, <1>3

LEMMA SaveAll ==
    ASSUME params.n_ctx \in Nat, NEW S, SaveGood(S, 0)
    PROVE  \A T \in Each(SaveAndClear, {S}) : SaveGood(T, NSlots)
<1>1. Each(SaveAndClear, {S}) = SaveLoop!After(0, {S})
  BY DEF Each, SaveLoop!After
<1>2. \A T \in {S} : SaveGood(T, 0)
  OBVIOUS
<1>3. \A s \in 1 .. NSlots : \A R : SaveGood(R, s - 1) => \A T \in SaveAndClear(R, s) : SaveGood(T, s)
  BY SaveTurn DEF Slots
<1> QED
  BY <1>1, <1>2, <1>3, NSlotsAssumption, SaveLoop!LoopRule

\* get_available_slot() saves and loads an idle slot, which stays idle.
LEMMA ChosenLemma ==
    ASSUME params.n_ctx \in Nat, NEW s \in Slots, NEW S, SaveGood(S, 0), S.slot[s].st = "IDLE", NEW r
    PROVE  \A T \in Chosen(S, r, s) : SaveGood(T, 0) /\ T.slot[s].st = "IDLE"
<1>1. S \in BaseState /\ Sound(S.cells, S.slot, S.saved, <<>>, 0)
  BY DEF SaveGood
<1>2. CASE ~UpdatesCache(S, r, s)
  BY <1>2 DEF Chosen
<1>3. CASE UpdatesCache(S, r, s)
  <2> DEFINE K == IF S.slot[s].toks = <<>> THEN S ELSE PromptSave(S, s)
             L == PromptLoad(K, s, r.prompt)
             R == CacheUpdate(L)
  <2>1. Chosen(S, r, s) = {R}
    BY <1>3 DEF Chosen
  <2>2. K \in BaseState /\ Sound(K.cells, K.slot, K.saved, <<>>, 0) /\ K.slot[s].st = "IDLE"
    BY <1>1, PromptSaveLemma
  <2> HIDE DEF K
  <2>3. L \in BaseState /\ Sound(L.cells, L.slot, L.saved, <<>>, 0) /\ L.slot[s].st = "IDLE"
    BY <2>2, PromptLoadLemma
  <2> HIDE DEF L
  <2>4. R \in BaseState /\ Sound(R.cells, R.slot, R.saved, <<>>, 0) /\ R.slot[s].st = "IDLE"
    BY <2>3, CacheUpdateLemma
  <2> HIDE DEF R
  <2> QED
    BY <2>1, <2>4 DEF SaveGood
<1> QED
  BY <1>2, <1>3

\* launch_slot_with_task(), for a request without children.
LEMMA StartedLemma ==
    ASSUME NEW s \in Slots, NEW S, SaveGood(S, 0), S.slot[s].st = "IDLE",
           NEW r \in params.requests, r \in Request, r.children = 0
    PROVE  SaveGood(Started(S, r, s), 0)
<1> DEFINE x == [S.slot[s] EXCEPT !.st = "STARTED", !.task = TaskOf(r, FALSE, NoSlot)]
           sl == [S.slot EXCEPT ![s] = x]
           R == [S EXCEPT !.slot = sl]
<1>1. S \in BaseState /\ Sound(S.cells, S.slot, S.saved, <<>>, 0)
  BY DEF SaveGood
<1>2. /\ S.cells \in [Cells -> Cell] /\ S.slot \in [Slots -> Slot]
      /\ SlotSound(S.cells, S.slot, <<>>, 0, s)
  BY <1>1, SavedOK
<1>3. ChildSlots(S, r, s) = {}
  <2> DEFINE free == Idle(S) \ {s}
  <2>1. free \in SUBSET Nat /\ IsFiniteSet(free)
    <3>1. IsFiniteSet(Slots) /\ Slots \in SUBSET Nat
      BY NSlotsAssumption, FS_Interval DEF Slots
    <3>2. free \in SUBSET Slots
      BY DEF Idle
    <3> QED
      BY <3>1, <3>2, FS_Subset
  <2>2. \A t \in free : RankIn(free, t) \in 1 .. Cardinality(free)
    <3> HIDE DEF free
    <3> QED
      BY <2>1, RankLemma
  <2>3. Cardinality(free) \in Nat
    <3> HIDE DEF free
    <3> QED
      BY <2>1, FS_CardinalityType
  <2>4. \A t \in free : ~(RankIn(free, t) <= r.children)
    <3> HIDE DEF free
    <3> QED
      BY <2>2, <2>3
  <2> QED
    BY <2>4 DEF ChildSlots
<1>4. Started(S, r, s) = R
  <2>1. sl = [t \in Slots |-> IF t = s THEN [S.slot[t] EXCEPT !.st = "STARTED", !.task = TaskOf(r, FALSE, NoSlot)]
                              ELSE IF t \in {} THEN [S.slot[t] EXCEPT !.st = "WAIT_OTHER", !.task = TaskOf(r, TRUE, s)]
                              ELSE S.slot[t]]
    BY <1>2
  <2> QED
    BY <1>3, <2>1 DEF Started
<1>5. TaskOf(r, FALSE, NoSlot) \in Task /\ TaskOf(r, FALSE, NoSlot).kind = r.kind
  BY DEF TaskOf, Task, Request
<1>6. x \in Slot
  <2> DEFINE y == [S.slot[s] EXCEPT !.st = "STARTED"]
             task == TaskOf(r, FALSE, NoSlot)
  <2>1. y \in Slot
    BY <1>2 DEF Slot, States
  <2>2. x = [y EXCEPT !.task = task]
    OBVIOUS
  <2> HIDE DEF y, task, x
  <2> QED
    BY <1>5, <2>1, <2>2 DEF Slot, task
<1>7. x.toks = S.slot[s].toks /\ x.st = "STARTED" /\ x.task = TaskOf(r, FALSE, NoSlot)
  BY <1>2 DEF Slot
<1> HIDE DEF x
<1>8. SlotSound(S.cells, sl, <<>>, 0, s)
  <2>1. sl[s] = x
    BY <1>2
  <2>2. Busy(x)
    BY <1>5, <1>7 DEF Busy
  <2>3. Believes(S.cells, x.toks, s, <<>>, 0)
    BY <1>2, <1>7 DEF SlotSound
  <2>4. Ends(S.cells, x, s)
    BY <1>7 DEF Ends
  <2> HIDE DEF sl
  <2> QED
    BY <2>1, <2>2, <2>3, <2>4 DEF SlotSound
<1>9. Sound(S.cells, sl, S.saved, <<>>, 0)
  <2>1. \A t \in Slots \ {s} : Same(S.cells, S.cells, t)
    BY DEF Same
  <2> QED
    BY <1>1, <1>2, <1>6, <1>8, <2>1, OneSlotAlone
<1>10. sl \in [Slots -> Slot]
  BY <1>2, <1>6
<1> HIDE DEF sl
<1>11. R \in BaseState /\ R.cells = S.cells /\ R.slot = sl /\ R.saved = S.saved
  BY <1>1, <1>10 DEF BaseState
<1> QED
  BY <1>4, <1>9, <1>11 DEF SaveGood
\* The parameters do not change.
LEMMA SoundPrime ==
    ASSUME NEW S, NEW q, NEW h, Sound(S.cells, S.slot, S.saved, q, h), params' = params,
           cells' = S.cells, slot' = S.slot, saved' = S.saved, batch' = q, at' = h
    PROVE  Sound(cells, slot, saved, batch, at)'
<1>1. Typed(cells, slot, saved)'
  <2>1. Typed(S.cells, S.slot, S.saved)
    BY DEF Sound
  <2>2. \A k \in DOMAIN S.saved : EntryOK(S.saved[k])
    BY <2>1 DEF Typed
  <2>3. (\A k \in DOMAIN saved : EntryOK(saved[k]))'
    BY <2>2 DEF EntryOK
  <2> QED
    BY <2>1, <2>3 DEF Typed, Cells
<1>2. ASSUME NEW s \in Slots
      PROVE  SlotSound(cells, slot, batch, at, s)'
  <2>1. SlotSound(S.cells, S.slot, q, h, s)
    BY DEF Sound
  <2>2. Busy(slot[s])'
    BY <2>1 DEF SlotSound, Busy
  <2>3. Believes(cells, slot[s].toks, s, batch, at)'
    BY <2>1 DEF SlotSound, Believes, Waits, Has, Lone
  <2>4. Ends(cells, slot[s], s)'
    BY <2>1 DEF SlotSound, Ends
  <2> QED
    BY <2>2, <2>3, <2>4 DEF SlotSound
<1>3. RowsSound(cells, slot, batch, at)'
  <2>1. RowsSound(S.cells, S.slot, q, h)
    BY DEF Sound
  <2> QED
    BY <2>1 DEF RowsSound, RowOK
<1> QED
  BY <1>1, <1>2, <1>3 DEF Sound

\* What the handlers of tasks find.
LEMMA AtTasks ==
    ASSUME CacheInv, phase = "tasks"
    PROVE  /\ SaveGood(State, 0) /\ params.n_ctx \in Nat /\ params.n_ctx >= 4 /\ params.n_batch \in Nat \ {0}
           /\ State.cells = cells /\ State.slot = slot /\ State.saved = saved
<1>1. Sound(cells, slot, saved, <<>>, 0)
  BY DEF CacheInv
<1>2. State \in BaseState /\ State.cells = cells /\ State.slot = slot /\ State.saved = saved
  BY <1>1, SavedOK DEF State, BaseState
<1>3. params.n_ctx \in Nat /\ params.n_ctx >= 4 /\ params.n_batch \in Nat \ {0}
  BY ConfigsAssumption DEF CacheInv, Config
<1> QED
  BY <1>1, <1>2, <1>3 DEF SaveGood

\* ... and what they leave.
LEMMA TaskStep ==
    ASSUME CacheInv, phase = "tasks", NEW S, SaveGood(S, 0), Take(S), SameBatch, file' = file
    PROVE  CacheInv'
<1>1. /\ params' = params /\ batch' = <<>> /\ at' = 0 /\ n_batch' = n_batch /\ phase' = phase
      /\ n_batch = params.n_batch
  BY DEF SameBatch, CacheInv
<1>2. Sound(cells, slot, saved, batch, at)'
  <2>1. Sound(S.cells, S.slot, S.saved, <<>>, 0)
    BY DEF SaveGood
  <2> DEFINE q == <<>>
  <2>2. Sound(S.cells, S.slot, S.saved, q, 0) /\ batch' = q
    BY <1>1, <2>1
  <2> HIDE DEF q
  <2> QED
    BY <1>1, <2>2, SoundPrime DEF Take
<1>3. (file # NoFile => file \in Entry /\ EntryOK(file))'
  BY <1>1 DEF CacheInv, EntryOK
<1>4. /\ params' \in Configs
      /\ batch' \in Seq(BatchRow) /\ at' \in Nat /\ n_batch' \in Nat
      /\ phase' = "tasks" => batch' = <<>> /\ at' = 0 /\ n_batch' = params'.n_batch
  BY <1>1, EmptySeq DEF CacheInv
<1> QED
  BY <1>2, <1>3, <1>4 DEF CacheInv

LEMMA LaunchStep ==
    ASSUME Childless, CacheInv, NEW r \in params.requests, NEW s \in Slots, Launch(r, s)
    PROVE  CacheInv'
<1>1. SaveGood(State, 0) /\ params.n_ctx \in Nat /\ phase = "tasks"
  BY AtTasks DEF Launch
<1>2. r \in Request /\ r.children = 0
  BY ConfigsAssumption DEF CacheInv, Config, Childless
<1>3. State.slot[s].st = "IDLE"
  BY DEF Launch, Idle, Processing
<1>4. PICK S \in IF r.id_slot = NoSlot THEN Chosen(State, r, s) ELSE {State} :
        \E L \in IF Cardinality(ChildSlots(S, r, s)) < r.children THEN {S}
                 ELSE IF params.cache_idle THEN Each(SaveAndClear, {Started(S, r, s)})
                 ELSE {Started(S, r, s)} : Take(L)
  BY DEF Launch
<1>5. SaveGood(S, 0) /\ S.slot[s].st = "IDLE"
  <2>1. \A T \in Chosen(State, r, s) : SaveGood(T, 0) /\ T.slot[s].st = "IDLE"
    BY <1>1, <1>3, ChosenLemma
  <2> QED
    BY <1>1, <1>3, <1>4, <2>1
<1>6. PICK L \in IF Cardinality(ChildSlots(S, r, s)) < r.children THEN {S}
                 ELSE IF params.cache_idle THEN Each(SaveAndClear, {Started(S, r, s)})
                 ELSE {Started(S, r, s)} : Take(L)
  BY <1>4
<1> DEFINE X == Started(S, r, s)
<1>7. SaveGood(X, 0)
  BY <1>2, <1>5, StartedLemma
<1> HIDE DEF X
<1>8. \A T \in Each(SaveAndClear, {X}) : SaveGood(T, 0)
  BY <1>1, <1>7, SaveAll DEF SaveGood
<1>9. SaveGood(L, 0)
  <2>1. L = S \/ L \in Each(SaveAndClear, {X}) \/ L = X
    BY <1>6 DEF X
  <2> QED
    BY <1>5, <1>7, <1>8, <2>1
<1> QED
  BY <1>1, <1>6, <1>9, TaskStep DEF Launch

\* Without embeddings, or without cancellations, a released slot without tokens has no cells.
LEMMA CancelStep ==
    ASSUME CacheInv, NEW s \in Slots, Cancel(s)
    PROVE  CacheInv'
<1> DEFINE x == Freed(slot[s])
           R == Release(State, s)
<1>1. /\ SaveGood(State, 0) /\ phase = "tasks" /\ slot[s].st # "IDLE" /\ "cancel" \in params.faults
      /\ State.cells = cells /\ State.slot = slot /\ State.saved = saved
  BY AtTasks DEF Cancel, Processing
<1>2. State \in BaseState /\ Sound(cells, slot, saved, <<>>, 0)
  BY <1>1 DEF SaveGood
<1>3. /\ cells \in [Cells -> Cell] /\ slot \in [Slots -> Slot]
      /\ \A t \in Slots : Busy(slot[t])
      /\ SlotSound(cells, slot, <<>>, 0, s)
  BY <1>2, SavedOK
<1>4. Changes(State, R, s, cells, x)
  BY <1>1, <1>2, <1>3, ReleaseLemma
<1>6. SlotSound(cells, [slot EXCEPT ![s] = x], <<>>, 0, s)
  BY <1>3, ReleasedSound
<1>7. x \in Slot
  BY <1>3, FreedSlot
<1>8. \A t \in Slots \ {s} : Same(cells, cells, t)
  BY DEF Same
<1> HIDE DEF x, R
<1>9. Sound(cells, [slot EXCEPT ![s] = x], saved, <<>>, 0)
  BY <1>2, <1>3, <1>6, <1>7, <1>8, OneSlotAlone
<1>10. SaveGood(R, 0)
  BY <1>1, <1>2, <1>4, <1>9 DEF SaveGood, Changes
<1> QED
  BY <1>1, <1>10, TaskStep DEF Cancel, R

LEMMA SlotSaveStep ==
    ASSUME CacheInv, NEW s \in Slots, SlotSave(s)
    PROVE  CacheInv'
<1> DEFINE e == [toks |-> slot[s].toks, rows |-> Rows(cells, s)]
<1>1. SaveGood(State, 0) /\ params.n_ctx \in Nat /\ phase = "tasks" /\ slot[s].st = "IDLE"
  BY AtTasks DEF SlotSave, Processing
<1>2. Sound(cells, slot, saved, <<>>, 0)
  BY <1>1, AtTasks DEF SaveGood
<1>3. /\ cells \in [Cells -> Cell] /\ slot \in [Slots -> Slot]
      /\ SlotSound(cells, slot, <<>>, 0, s)
  BY <1>2, SavedOK
<1>4. e \in Entry /\ EntryOK(e)
  <2>1. slot[s].toks \in Seq(Tok) /\ Believes(cells, slot[s].toks, s, <<>>, 0)
    BY <1>3 DEF Slot, SlotSound
  <2> QED
    BY <1>1, <1>3, <2>1, SavedEntry
<1> HIDE DEF e
<1>5. /\ file' = e /\ params' = params /\ batch' = batch /\ at' = at /\ n_batch' = n_batch /\ phase' = phase
      /\ cells' = cells /\ slot' = slot /\ saved' = saved
  BY DEF SlotSave, SameBatch, e
<1>6. (file # NoFile => file \in Entry /\ EntryOK(file))'
  BY <1>4, <1>5 DEF EntryOK
<1>7. Sound(cells, slot, saved, batch, at)'
  <2>1. Sound(State.cells, State.slot, State.saved, batch, at)
    BY <1>1, AtTasks DEF CacheInv
  <2> QED
    BY <1>1, <1>5, <2>1, AtTasks, SoundPrime
<1> QED
  BY <1>5, <1>6, <1>7 DEF CacheInv

LEMMA SlotEraseStep ==
    ASSUME CacheInv, NEW s \in Slots, SlotErase(s)
    PROVE  CacheInv'
<1>1. SaveGood(State, 0) /\ phase = "tasks"
  BY AtTasks DEF SlotErase
<1>2. SaveGood(PromptClear(State, s), 0)
  BY <1>1, PromptClearLemma DEF SaveGood
<1> QED
  BY <1>1, <1>2, TaskStep DEF SlotErase

LEMMA SlotRestoreStep ==
    ASSUME CacheInv, NEW s \in Slots, SlotRestore(s)
    PROVE  CacheInv'
<1> DEFINE kv == Restored(cells, s, file.rows)
           x == [slot[s] EXCEPT !.toks = file.toks]
           sl == [slot EXCEPT ![s] = x]
           R == [State EXCEPT !.cells = Restored(@, s, file.rows), !.slot[s].toks = file.toks]
<1>1. /\ SaveGood(State, 0) /\ params.n_ctx \in Nat /\ phase = "tasks" /\ slot[s].st = "IDLE"
      /\ State.cells = cells /\ State.slot = slot /\ State.saved = saved
  BY AtTasks DEF SlotRestore, Processing
<1>2. State \in BaseState /\ Sound(cells, slot, saved, <<>>, 0)
  BY <1>1 DEF SaveGood
<1>3. cells \in [Cells -> Cell] /\ slot \in [Slots -> Slot] /\ saved \in Seq(Entry) /\ Busy(slot[s])
  BY <1>2, SavedOK
<1>4. file \in Entry /\ EntryOK(file) /\ file.toks \in Seq(Tok)
  BY DEF SlotRestore, CacheInv, Entry
<1>5. CASE Fits(cells, s, file.rows)
  <2>1. /\ kv \in [Cells -> Cell] /\ \A t \in Slots \ {s} : Same(cells, kv, t)
        /\ Believes(kv, file.toks, s, <<>>, 0)
    BY <1>1, <1>3, <1>4, <1>5, RestoredLemma
  <2>2. R.cells = kv /\ R.slot = sl /\ R.saved = saved
    BY <1>1, <1>3 DEF State
  <2>0. R = [State EXCEPT !.cells = kv, !.slot = sl]
    BY <1>1
  <2> HIDE DEF kv, R
  <2>3. x \in Slot /\ SlotSound(kv, sl, <<>>, 0, s)
    BY <1>1, <1>3, <1>4, <2>1, GivenSound
  <2> HIDE DEF x
  <2>4. Sound(kv, sl, saved, <<>>, 0)
    BY <1>2, <2>1, <2>3, OneSlotAlone
  <2>5. sl \in [Slots -> Slot]
    BY <1>3, <2>3
  <2> HIDE DEF sl
  <2>6. R \in BaseState
    BY <1>2, <2>0, <2>1, <2>5 DEF BaseState
  <2>7. SaveGood(R, 0)
    BY <2>2, <2>4, <2>6 DEF SaveGood
  <2>8. Take(R)
    BY <1>5 DEF SlotRestore, R
  <2> QED
    BY <1>1, <2>7, <2>8, TaskStep DEF SlotRestore
<1>6. CASE ~Fits(cells, s, file.rows)
  <2>1. SaveGood(PromptClear(State, s), 0)
    BY <1>1, <1>2, PromptClearLemma DEF SaveGood
  <2> QED
    BY <1>1, <1>6, <2>1, TaskStep DEF SlotRestore
<1> QED
  BY <1>5, <1>6

\* The tokens are forgotten and the cells stay.
LEMMA SlotRestoreFailsStep ==
    ASSUME CacheInv, NEW s \in Slots, SlotRestoreFails(s)
    PROVE  CacheInv'
<1> DEFINE none == <<>>
           x == [slot[s] EXCEPT !.toks = none]
           sl == [slot EXCEPT ![s] = x]
           R == [State EXCEPT !.slot[s].toks = none]
<1>1. /\ SaveGood(State, 0) /\ phase = "tasks" /\ slot[s].st = "IDLE" /\ "badfile" \in params.faults
      /\ State.cells = cells /\ State.slot = slot /\ State.saved = saved
  BY AtTasks DEF SlotRestoreFails, Processing
<1>2. State \in BaseState /\ Sound(cells, slot, saved, <<>>, 0)
  BY <1>1 DEF SaveGood
<1>3. cells \in [Cells -> Cell] /\ slot \in [Slots -> Slot] /\ saved \in Seq(Entry) /\ Busy(slot[s])
  BY <1>2, SavedOK
<1>4. none \in Seq(Tok) /\ Believes(cells, none, s, <<>>, 0)
  BY EmptySeq DEF Believes
<1>6. Take(R)
  BY DEF SlotRestoreFails
<1> HIDE DEF none
<1>7. x \in Slot /\ SlotSound(cells, sl, <<>>, 0, s)
  BY <1>1, <1>3, <1>4, GivenSound
<1>8. R.cells = cells /\ R.slot = sl /\ R.saved = saved
  BY <1>1, <1>3 DEF State
<1> HIDE DEF x
<1>9. Sound(cells, sl, saved, <<>>, 0)
  <2>1. \A t \in Slots \ {s} : Same(cells, cells, t)
    BY DEF Same
  <2> QED
    BY <1>2, <1>3, <1>7, <2>1, OneSlotAlone
<1>10. sl \in [Slots -> Slot]
  BY <1>3, <1>7
<1> HIDE DEF sl
<1>11. R \in BaseState
  <2>1. R = [cells |-> cells, slot |-> sl, saved |-> saved]
    BY <1>8 DEF State
  <2> QED
    BY <1>3, <1>10, <2>1 DEF BaseState
<1> HIDE DEF R
<1>12. SaveGood(R, 0)
  BY <1>8, <1>9, <1>11 DEF SaveGood
<1> QED
  BY <1>1, <1>6, <1>12, TaskStep DEF SlotRestoreFails
-----------------------------------------------------------------------------
(***************************************************************************)
(* The loops of update_slots                                               *)
(***************************************************************************)

\* The context shift: the positions after the discarded ones move down with their tokens.
LEMMA ShiftCells ==
    ASSUME NEW kv \in [Cells -> Cell], NEW s \in Slots, NEW toks \in Seq(Tok), NEW keep \in Nat, NEW d \in Nat,
           keep <= Len(toks),
           \A k \in DOMAIN toks : Has(kv, s, k - 1, toks[k]),
           \A i \in Cells : s \in kv[i].seqs => kv[i].pos < Len(toks)
    PROVE  LET kv2 == SeqAdd(SeqRm(kv, s, keep, keep + d), s, keep + d, Len(toks), -d)
               new == SubSeq(toks, 1, keep) \o SubSeq(toks, keep + d + 1, Len(toks))
           IN  /\ kv2 \in [Cells -> Cell] /\ new \in Seq(Tok)
               /\ \A t \in Slots \ {s} : Same(kv, kv2, t)
               /\ \A k \in DOMAIN new : Has(kv2, s, k - 1, new[k])
               /\ \A i \in Cells : s \in kv2[i].seqs => kv2[i].pos < Len(new)
<1> DEFINE n == Len(toks)
           kv1 == SeqRm(kv, s, keep, keep + d)
           kv2 == SeqAdd(kv1, s, keep + d, n, -d)
           p1 == SubSeq(toks, 1, keep)
           m == keep + d + 1
           p2 == SubSeq(toks, m, n)
           new == p1 \o p2
<1>1. n \in Nat /\ DOMAIN toks = 1 .. n
  BY LenProperties
<1>2. /\ kv1 \in [Cells -> Cell]
      /\ \A i \in Cells : kv1[i] = IF OfSeq(kv[i], s, keep, keep + d) THEN Empty ELSE kv[i]
      /\ \A t \in Slots \ {s} : Same(kv, kv1, t)
  BY SeqRmLemma
<1> HIDE DEF kv1
<1>3. keep + d \in Nat /\ d <= keep + d
  OBVIOUS
<1>4. /\ kv2 \in [Cells -> Cell]
      /\ \A i \in Cells : kv2[i] = IF OfSeq(kv1[i], s, keep + d, n) THEN [kv1[i] EXCEPT !.pos = @ - d] ELSE kv1[i]
      /\ \A t \in Slots \ {s} : Same(kv1, kv2, t)
  BY <1>2, <1>3, SeqAddLemma
<1> HIDE DEF kv2
<1>5. \A t \in Slots \ {s} : Same(kv, kv2, t)
  BY <1>2, <1>4, SameTrans
<1>6. ASSUME NEW i \in Cells, s \in kv[i].seqs
      PROVE  kv[i] \in Owned /\ kv[i].pos \in Nat /\ kv[i].pos < n /\ kv[i].seqs = {s}
  <2>1. kv[i] \in Owned /\ kv[i].seqs = {s}
    BY <1>6, CellLemma
  <2> QED
    BY <1>6, <2>1 DEF Owned
<1>7. ASSUME NEW i \in Cells, s \in kv2[i].seqs
      PROVE  /\ s \in kv[i].seqs
             /\ \/ kv[i].pos < keep /\ kv2[i].pos = kv[i].pos
                \/ kv[i].pos >= keep + d /\ kv2[i].pos = kv[i].pos - d
  <2>1. s \in kv1[i].seqs
    <3>1. CASE OfSeq(kv1[i], s, keep + d, n)
      BY <3>1 DEF OfSeq
    <3>2. CASE ~OfSeq(kv1[i], s, keep + d, n)
      BY <1>4, <1>7, <3>2
    <3> QED
      BY <3>1, <3>2
  <2>2. ~OfSeq(kv[i], s, keep, keep + d) /\ kv1[i] = kv[i]
    BY <1>2, <2>1 DEF Empty
  <2>3. kv[i] \in Owned /\ kv[i].pos \in Nat /\ kv[i].pos < n
    BY <1>6, <2>1, <2>2
  <2>4. CASE kv[i].pos < keep
    <3>1. ~OfSeq(kv1[i], s, keep + d, n)
      BY <2>2, <2>3, <2>4 DEF OfSeq
    <3> QED
      BY <1>4, <2>1, <2>2, <2>4, <3>1
  <2>5. CASE ~(kv[i].pos < keep)
    <3>1. kv[i].pos >= keep + d
      BY <2>1, <2>2, <2>3, <2>5 DEF OfSeq
    <3>2. OfSeq(kv1[i], s, keep + d, n)
      BY <2>1, <2>2, <2>3, <3>1 DEF OfSeq
    <3>3. kv2[i] = [kv[i] EXCEPT !.pos = @ - d]
      BY <1>4, <2>2, <3>2
    <3>4. kv2[i].pos = kv[i].pos - d
      BY <2>3, <3>3 DEF Owned
    <3> QED
      BY <2>1, <2>2, <3>1, <3>4
  <2> QED
    BY <2>4, <2>5
<1>8. ASSUME NEW i \in Cells, s \in kv[i].seqs
      PROVE  /\ kv[i].pos < keep => s \in kv2[i].seqs /\ kv2[i].pos = kv[i].pos /\ kv2[i].tok = kv[i].tok
             /\ kv[i].pos >= keep + d => s \in kv2[i].seqs /\ kv2[i].pos = kv[i].pos - d /\ kv2[i].tok = kv[i].tok
  <2>1. kv[i] \in Owned /\ kv[i].pos \in Nat /\ kv[i].pos < n
    BY <1>6, <1>8
  <2>2. CASE kv[i].pos < keep
    <3>1. kv1[i] = kv[i]
      BY <1>2, <2>1, <2>2 DEF OfSeq
    <3>2. kv2[i] = kv[i]
      BY <1>4, <2>1, <2>2, <3>1 DEF OfSeq
    <3> QED
      BY <1>8, <2>1, <2>2, <3>2
  <2>3. CASE kv[i].pos >= keep + d
    <3>1. kv1[i] = kv[i]
      <4>1. keep + d # End /\ ~(kv[i].pos < keep + d)
        BY <2>1, <2>3 DEF End
      <4> QED
        BY <1>2, <4>1 DEF OfSeq
    <3>2. OfSeq(kv1[i], s, keep + d, n)
      BY <1>8, <2>1, <2>3, <3>1 DEF OfSeq
    <3>3. kv2[i] = [kv[i] EXCEPT !.pos = @ - d]
      BY <1>4, <3>1, <3>2
    <3>4. s \in kv2[i].seqs /\ kv2[i].pos = kv[i].pos - d /\ kv2[i].tok = kv[i].tok
      BY <1>8, <2>1, <3>3 DEF Owned
    <3>5. ~(kv[i].pos < keep)
      BY <2>1, <2>3
    <3> QED
      BY <3>4, <3>5
  <2> QED
    BY <2>2, <2>3
<1>9. p1 \in Seq(Tok) /\ Len(p1) = keep /\ \A k \in 1 .. keep : p1[k] = toks[k]
  <2>1. \A k \in 1 .. keep : toks[k] \in Tok
    BY <1>1, ElementOfSeq
  <2>2. 1 \in Int /\ keep \in Int /\ (IF 1 <= keep THEN keep - 1 + 1 ELSE 0) = keep
        /\ keep - 1 + 1 = keep /\ \A i \in Int : 1 + i - 1 = i
    OBVIOUS
  <2>3. /\ p1 \in Seq(Tok) /\ Len(p1) = IF 1 <= keep THEN keep - 1 + 1 ELSE 0
        /\ \A i \in 1 .. keep - 1 + 1 : p1[i] = toks[1 + i - 1]
    BY <2>1, <2>2, SubSeqProperties
  <2> HIDE DEF p1
  <2> QED
    BY <2>2, <2>3
<1>10. m \in Nat /\ m = keep + d + 1
  OBVIOUS
<1> HIDE DEF m, p1
<1>11. /\ p2 \in Seq(Tok) /\ Len(p2) = IF m <= n THEN n - m + 1 ELSE 0
       /\ \A i \in 1 .. n - m + 1 : p2[i] = toks[m + i - 1]
  <2>1. \A k \in m .. n : toks[k] \in Tok
    <3>1. \A k \in m .. n : k \in 1 .. n
      BY <1>1, <1>10
    <3> QED
      BY <1>1, <3>1, ElementOfSeq
  <2>2. m \in Int /\ n \in Int
    BY <1>1, <1>10
  <2> HIDE DEF n
  <2> QED
    BY <2>1, <2>2, SubSeqProperties
<1> HIDE DEF p2
<1>12. /\ new \in Seq(Tok) /\ Len(new) = keep + Len(p2)
       /\ \A k \in 1 .. keep + Len(p2) : new[k] = IF k <= keep THEN p1[k] ELSE p2[k - keep]
  BY <1>9, <1>11, ConcatProperties
<1> HIDE DEF new
<1>13. \A k \in 1 .. Len(new) : /\ k \in Nat /\ k >= 1
                                /\ k <= keep => (new[k] = toks[k] /\ k \in 1 .. n)
                                /\ k > keep => (new[k] = toks[k + d] /\ k + d \in 1 .. n)
  <2> SUFFICES ASSUME NEW k \in 1 .. Len(new)
               PROVE  /\ k \in Nat /\ k >= 1
                      /\ k <= keep => (new[k] = toks[k] /\ k \in 1 .. n)
                      /\ k > keep => (new[k] = toks[k + d] /\ k + d \in 1 .. n)
    OBVIOUS
  <2>1. Len(p2) \in Nat /\ k \in 1 .. keep + Len(p2)
    BY <1>11, <1>12, LenProperties
  <2>2. CASE k <= keep
    BY <1>1, <1>9, <1>12, <2>1, <2>2
  <2>3. CASE k > keep
    <3>1. k - keep \in 1 .. Len(p2) /\ new[k] = p2[k - keep]
      BY <1>12, <2>1, <2>3
    <3>2. k - keep \in 1 .. n - m + 1 /\ m + (k - keep) - 1 = k + d
      <4> HIDE DEF n
      <4>1. Len(p2) \in Nat /\ Len(p2) = IF m <= n THEN n - m + 1 ELSE 0
        BY <1>11, <2>1
      <4>2. k \in Nat /\ k - keep >= 1 /\ k - keep <= Len(p2)
        BY <2>1, <3>1
      <4> QED
        BY <1>1, <1>10, <4>1, <4>2
    <3>3. new[k] = toks[k + d]
      BY <1>11, <3>1, <3>2
    <3> QED
      BY <1>1, <1>10, <2>1, <2>3, <3>2, <3>3
  <2> QED
    BY <2>1, <2>2, <2>3
<1>14. ASSUME NEW k \in 1 .. Len(new)
       PROVE  Has(kv2, s, k - 1, new[k])
  <2>1. CASE k <= keep
    <3>1. PICK i \in Cells : Lone(kv, i, s, k - 1, toks[k])
      BY <1>1, <1>13, <2>1 DEF Has
    <3>2. s \in kv2[i].seqs /\ kv2[i].pos = k - 1 /\ kv2[i].tok = toks[k]
      BY <1>8, <1>13, <2>1, <3>1 DEF Lone
    <3>3. ASSUME NEW j \in Cells, s \in kv2[j].seqs, kv2[j].pos = k - 1
          PROVE  j = i
      <4>1. s \in kv[j].seqs /\ kv[j].pos = k - 1
        BY <1>6, <1>7, <1>13, <2>1, <3>3
      <4> QED
        BY <3>1, <4>1 DEF Lone
    <3> QED
      BY <1>4, <1>13, <2>1, <3>2, <3>3 DEF Has, Lone
  <2>2. CASE ~(k <= keep)
    <3>0. k > keep /\ k \in Nat /\ new[k] = toks[k + d] /\ k + d \in 1 .. n
      BY <1>13, <2>2
    <3>1. PICK i \in Cells : Lone(kv, i, s, k + d - 1, toks[k + d])
      BY <1>1, <3>0 DEF Has
    <3>2. s \in kv2[i].seqs /\ kv2[i].pos = k - 1 /\ kv2[i].tok = toks[k + d]
      <4>1. s \in kv[i].seqs /\ kv[i].pos = k + d - 1 /\ kv[i].tok = toks[k + d]
        BY <3>1 DEF Lone
      <4>2. k + d - 1 >= keep + d /\ k + d - 1 - d = k - 1
        BY <3>0
      <4> QED
        BY <1>8, <4>1, <4>2
    <3>3. ASSUME NEW j \in Cells, s \in kv2[j].seqs, kv2[j].pos = k - 1
          PROVE  j = i
      <4>1. s \in kv[j].seqs /\ kv[j].pos = k + d - 1
        <5>1. /\ s \in kv[j].seqs
              /\ \/ kv[j].pos < keep /\ kv2[j].pos = kv[j].pos
                 \/ kv[j].pos >= keep + d /\ kv2[j].pos = kv[j].pos - d
          BY <1>7, <3>3
        <5>2. kv[j].pos \in Nat
          BY <1>6, <5>1
        <5> DEFINE p == kv[j].pos
        <5>3. p \in Nat /\ kv2[j].pos = k - 1
          BY <3>3, <5>2
        <5>4. p = k + d - 1
          <6> HIDE DEF p
          <6>1. (p < keep /\ k - 1 = p) \/ k - 1 = p - d
            BY <5>1, <5>3 DEF p
          <6> QED
            BY <3>0, <5>3, <6>1
        <5> QED
          BY <5>1, <5>4
      <4> QED
        BY <3>1, <4>1 DEF Lone
    <3> QED
      BY <1>4, <3>0, <3>2, <3>3 DEF Has, Lone
  <2> QED
    BY <2>1, <2>2
<1>15. ASSUME NEW i \in Cells, s \in kv2[i].seqs
       PROVE  kv2[i].pos < Len(new)
  <2>1. /\ s \in kv[i].seqs /\ kv[i].pos \in Nat /\ kv[i].pos < n
        /\ \/ kv[i].pos < keep /\ kv2[i].pos = kv[i].pos
           \/ kv[i].pos >= keep + d /\ kv2[i].pos = kv[i].pos - d
    BY <1>6, <1>7, <1>15
  <2>2. Len(p2) \in Nat /\ Len(p2) = IF m <= n THEN n - m + 1 ELSE 0
    BY <1>11, LenProperties
  <2> DEFINE p == kv[i].pos
  <2>3. p \in Nat /\ p < n /\ ((p < keep /\ kv2[i].pos = p) \/ (p >= keep + d /\ kv2[i].pos = p - d))
    BY <2>1
  <2> HIDE DEF p, n
  <2>4. kv2[i].pos < keep + Len(p2)
    BY <1>1, <1>10, <2>2, <2>3
  <2> QED
    BY <1>12, <2>4
<1>16. DOMAIN new = 1 .. Len(new)
  BY <1>12, LenProperties
<1>17. /\ kv2 \in [Cells -> Cell] /\ new \in Seq(Tok)
       /\ \A t \in Slots \ {s} : Same(kv, kv2, t)
       /\ \A k \in DOMAIN new : Has(kv2, s, k - 1, new[k])
       /\ \A i \in Cells : s \in kv2[i].seqs => kv2[i].pos < Len(new)
  BY <1>4, <1>5, <1>12, <1>14, <1>15, <1>16
<1> QED
  BY <1>17 DEF new, p1, p2, m, kv2, kv1
LEMMA ChangedLemma ==
    ASSUME NEW S, S \in BaseState \/ S \in FillState, NEW s \in Slots, NEW kv \in [Cells -> Cell], NEW x \in Slot
    PROVE  Changes(S, [S EXCEPT !.cells = kv, !.slot = [S.slot EXCEPT ![s] = x]], s, kv, x)
<1> DEFINE sl == [S.slot EXCEPT ![s] = x]
           R == [S EXCEPT !.cells = kv, !.slot = sl]
<1>1. sl \in [Slots -> Slot]
  BY SlotFields
<1> HIDE DEF sl
<1>2. R.cells = kv /\ R.slot = sl /\ R.saved = S.saved
  BY DEF BaseState, FillState
<1>3. /\ S \in BaseState => R \in BaseState
      /\ S \in FillState => R \in FillState /\ R.batch = S.batch /\ R.batched = S.batched /\ R.full = S.full
  BY <1>1 DEF BaseState, FillState
<1> HIDE DEF R
<1>4. Changes(S, R, s, kv, x)
  BY <1>2, <1>3 DEF Changes, sl
<1> QED
  BY <1>4 DEF R, sl

\* ShiftSlot(S, s): the slots whose context is full.
LEMMA ShiftTurn ==
    ASSUME params.n_ctx \in Nat, params.n_ctx >= 4, NEW s \in Slots, NEW S, NEW j, NEW k, ShiftGood(S, j)
    PROVE  \A T \in ShiftSlot(S, s) : ShiftGood(T, k)
<1>1. S \in FillState /\ S.batch = <<>> /\ Sound(S.cells, S.slot, S.saved, <<>>, 0)
  BY DEF ShiftGood
<1>2. /\ S.cells \in [Cells -> Cell] /\ S.slot \in [Slots -> Slot]
      /\ \A t \in Slots : Busy(S.slot[t])
      /\ SlotSound(S.cells, S.slot, <<>>, 0, s)
  BY <1>1, SavedOK
<1>3. CASE ShiftSlot(S, s) = {S}
  BY <1>1, <1>3 DEF ShiftGood
<1>4. CASE S.slot[s].st = "GENERATING" /\ ShiftSlot(S, s) = {Release(S, s)}
  <2> DEFINE x == Freed(S.slot[s])
             R == Release(S, s)
  <2>1. Changes(S, R, s, S.cells, x)
    BY <1>1, <1>2, <1>4, ReleaseLemma
  <2>2. SlotSound(S.cells, [S.slot EXCEPT ![s] = x], <<>>, 0, s)
    BY <1>2, <1>4, ReleasedSound
  <2>3. x \in Slot
    BY <1>2, FreedSlot
  <2>4. \A t \in Slots \ {s} : Same(S.cells, S.cells, t)
    BY DEF Same
  <2> HIDE DEF x, R
  <2>5. Sound(S.cells, [S.slot EXCEPT ![s] = x], S.saved, <<>>, 0)
    BY <1>1, <1>2, <2>2, <2>3, <2>4, OneSlotAlone
  <2>6. ShiftGood(R, k)
    BY <1>1, <2>1, <2>5 DEF ShiftGood, Changes
  <2> QED
    BY <1>4, <2>6 DEF R
<1>5. CASE S.slot[s].st = "GENERATING" /\ Len(S.slot[s].toks) + 1 >= params.n_ctx /\ ShiftSlot(S, s) = {Shift(S, s)}
  <2> DEFINE toks == S.slot[s].toks
             n == Len(toks)
             task == S.slot[s].task
             want == IF task.keep < 0 THEN Len(task.prompt) ELSE task.keep
             keep == Min({params.n_ctx - 4, want})
             d == IF task.discard > 0 THEN task.discard ELSE (n - keep) \div 2
             kv2 == SeqAdd(SeqRm(S.cells, s, keep, keep + d), s, keep + d, n, -d)
             new == SubSeq(toks, 1, keep) \o SubSeq(toks, keep + d + 1, n)
             x == [S.slot[s] EXCEPT !.toks = new]
             sl == [S.slot EXCEPT ![s] = x]
             R == [S EXCEPT !.cells = kv2, !.slot = sl]
  <2>1. Shift(S, s) = R
    BY DEF Shift, NKeep
  <2>2. toks \in Seq(Tok) /\ n \in Nat /\ DOMAIN toks = 1 .. n
    BY <1>2, LenProperties DEF Slot
  <2>3. task \in Task /\ S.slot[s].sampled \in Tok /\ Busy(S.slot[s])
    BY <1>2, <1>5 DEF Busy
  <2>4. want \in Nat
    <3>1. Len(task.prompt) \in Nat /\ task.keep \in Int
      BY <2>3, LenProperties DEF Task
    <3> HIDE DEF task
    <3> QED
      BY <3>1
  <2>5. keep \in Nat /\ keep <= params.n_ctx - 4
    <3> HIDE DEF want
    <3>1. params.n_ctx - 4 \in Nat
      OBVIOUS
    <3> QED
      BY <2>4, <3>1, MinOfTwo
  <2>6. keep <= n
    <3>1. n + 1 >= params.n_ctx
      BY <1>5
    <3> HIDE DEF n, keep
    <3> QED
      BY <2>2, <2>5, <3>1
  <2>7. d \in Nat
    <3>1. task.discard \in Nat
      BY <2>3 DEF Task
    <3>2. (n - keep) \div 2 \in Nat
      <4> HIDE DEF n, keep
      <4> QED
        BY <2>2, <2>5, <2>6
    <3> HIDE DEF n, keep, task
    <3> QED
      BY <3>1, <3>2
  <2>8. /\ \A i \in DOMAIN toks : Has(S.cells, s, i - 1, toks[i])
        /\ \A i \in Cells : s \in S.cells[i].seqs => S.cells[i].pos < n
    BY <1>2, <1>5, AloneSound DEF Ends
  <2>9. /\ kv2 \in [Cells -> Cell] /\ new \in Seq(Tok)
        /\ \A t \in Slots \ {s} : Same(S.cells, kv2, t)
        /\ \A i \in DOMAIN new : Has(kv2, s, i - 1, new[i])
        /\ \A i \in Cells : s \in kv2[i].seqs => kv2[i].pos < Len(new)
    <3> HIDE DEF keep, d, toks
    <3> QED
      BY <1>2, <2>2, <2>5, <2>6, <2>7, <2>8, ShiftCells
  <2> HIDE DEF kv2, new
  <2>10. x \in Slot
    BY <1>2, <2>9 DEF Slot
  <2>11. x.toks = new /\ x.st = "GENERATING" /\ x.task = task /\ x.sampled = S.slot[s].sampled
    BY <1>2, <1>5 DEF Slot
  <2>12. Changes(S, R, s, kv2, x)
    <3> HIDE DEF x
    <3> QED
      BY <1>1, <2>9, <2>10, ChangedLemma
  <2> HIDE DEF x, R, task, toks
  <2>13. SlotSound(kv2, sl, <<>>, 0, s)
    <3>1. sl[s] = x
      BY <1>2
    <3>2. Busy(x)
      <4>1. S.slot[s].task \in Task /\ \E r \in params.requests : r.kind = S.slot[s].task.kind
        BY <1>2, <1>5 DEF Busy
      <4>2. x.task = S.slot[s].task
        BY <2>11 DEF task
      <4> QED
        BY <2>3, <2>11, <4>1, <4>2 DEF Busy
    <3>3. Ends(kv2, x, s)
      BY <2>9, <2>11 DEF Ends
    <3>5. \A i \in DOMAIN x.toks : Has(kv2, s, i - 1, x.toks[i])
      BY <2>9, <2>11
    <3> HIDE DEF sl
    <3> QED
      BY <3>1, <3>2, <3>3, <3>5, AloneSound
  <2>14. Sound(kv2, sl, S.saved, <<>>, 0)
    BY <1>1, <2>9, <2>10, <2>13, OneSlotAlone
  <2>15. ShiftGood(R, k)
    BY <1>1, <2>12, <2>14 DEF ShiftGood, Changes
  <2> QED
    BY <1>5, <2>1, <2>15
<1> QED
  <2>1. Len(S.slot[s].toks) \in Nat
    BY <1>2, LenProperties DEF Slot
  <2>2. Len(S.slot[s].toks) + 1 < params.n_ctx \/ Len(S.slot[s].toks) + 1 >= params.n_ctx
    BY <2>1
  <2> QED
    BY <1>3, <1>4, <1>5, <2>2 DEF ShiftSlot
\* the rows of the tokens of x after the first ones, which are the only tokens of x in the cache
NewRows(q, s, kv2, x, rows, from) ==
    /\ kv2 \in [Cells -> Cell] /\ x \in Slot /\ rows \in Seq(BatchRow) /\ from \in Nat
    /\ \A j \in 1 .. Len(q) : q[j].slot # s
    /\ from + Len(rows) = Len(x.toks)
    /\ \A k \in 1 .. Len(rows) : /\ rows[k].slot = s
                                 /\ rows[k].pos = from + k - 1
                                 /\ rows[k].tok = x.toks[from + k]
    /\ x.st \in {"PROCESSING_PROMPT", "DONE_PROMPT", "GENERATING"}
    /\ x.st # "PROCESSING_PROMPT" => x.i_batch = Len(q) + Len(rows) - 1
    /\ Busy(x)
    /\ \A k \in 1 .. from : Has(kv2, s, k - 1, x.toks[k])
    /\ \A i \in Cells : s \in kv2[i].seqs => kv2[i].pos < from

\* q2 is q with more rows of the slot s
Extends(q, q2, s) == /\ q2 \in Seq(BatchRow) /\ Len(q) <= Len(q2)
                     /\ \A j \in 1 .. Len(q) : q2[j] = q[j]
                     /\ \A j \in Len(q) + 1 .. Len(q2) : q2[j].slot = s

\* The batch gets the rows of the last tokens of a slot that had none in it.
LEMMA RowsAdded ==
    ASSUME NEW kv, NEW sl, NEW sv, NEW q \in Seq(BatchRow), NEW s \in Slots, NEW kv2, NEW x, NEW rows, NEW from,
           Sound(kv, sl, sv, q, 0), \A t \in Slots \ {s} : Same(kv, kv2, t), NewRows(q, s, kv2, x, rows, from)
    PROVE  Extends(q, q \o rows, s) /\ Sound(kv2, [sl EXCEPT ![s] = x], sv, q \o rows, 0)
<1> DEFINE q2 == q \o rows
           sl2 == [sl EXCEPT ![s] = x]
           a == Len(q)
           n == Len(rows)
<1>0. /\ kv2 \in [Cells -> Cell] /\ x \in Slot /\ rows \in Seq(BatchRow) /\ from \in Nat
      /\ \A j \in 1 .. Len(q) : q[j].slot # s
      /\ from + Len(rows) = Len(x.toks)
      /\ \A k \in 1 .. Len(rows) : rows[k].slot = s /\ rows[k].pos = from + k - 1 /\ rows[k].tok = x.toks[from + k]
      /\ x.st \in {"PROCESSING_PROMPT", "DONE_PROMPT", "GENERATING"}
      /\ x.st # "PROCESSING_PROMPT" => x.i_batch = Len(q) + Len(rows) - 1
      /\ Busy(x)
      /\ \A k \in 1 .. from : Has(kv2, s, k - 1, x.toks[k])
      /\ \A i \in Cells : s \in kv2[i].seqs => kv2[i].pos < from
  BY DEF NewRows
<1>1. a \in Nat /\ n \in Nat /\ Len(x.toks) = from + n /\ DOMAIN x.toks = 1 .. from + n
  <2>1. x.toks \in Seq(Tok)
    BY <1>0 DEF Slot
  <2> QED
    BY <1>0, <2>1, LenProperties
<1>2. /\ q2 \in Seq(BatchRow) /\ Len(q2) = a + n
      /\ \A i \in 1 .. a + n : q2[i] = IF i <= a THEN q[i] ELSE rows[i - a]
  BY <1>0, ConcatProperties
<1>3. sl2[s] = x
  BY <1>0 DEF Sound, Typed
<1>4. \A k \in 1 .. n : rows[k].slot = s /\ rows[k].pos = from + k - 1 /\ rows[k].tok = x.toks[from + k]
  BY <1>0
<1>5. \A j \in 1 .. a : q[j].slot # s
  BY <1>0
<1> HIDE DEF q2, a, n
<1>6. \A j \in 1 .. a : q2[j] = q[j]
  BY <1>1, <1>2
<1>7. ASSUME NEW k \in 1 .. n
      PROVE  a + k \in 1 .. a + n /\ q2[a + k] = rows[k]
  <2> DEFINE i == a + k
  <2>1. i \in 1 .. a + n /\ ~(i <= a) /\ i - a = k
    BY <1>1
  <2> HIDE DEF i
  <2>2. q2[i] = rows[k]
    BY <1>2, <2>1
  <2> QED
    BY <2>1, <2>2 DEF i
<1>8. ASSUME NEW j \in 1 .. a + n, q2[j].slot = s
      PROVE  j - a \in 1 .. n /\ q2[j].pos = from + (j - a) - 1 /\ q2[j].tok = x.toks[from + (j - a)]
  <2>1. ~(j <= a)
    BY <1>1, <1>5, <1>6, <1>8
  <2>2. j - a \in 1 .. n /\ q2[j] = rows[j - a]
    BY <1>1, <1>2, <2>1
  <2> QED
    BY <1>4, <2>2
<1>9. \A j \in a + 1 .. a + n : q2[j].slot = s
  <2> SUFFICES ASSUME NEW j \in a + 1 .. a + n PROVE q2[j].slot = s
    OBVIOUS
  <2>1. j - a \in 1 .. n /\ a + (j - a) = j
    BY <1>1
  <2> QED
    BY <1>4, <1>7, <2>1
<1>10. Believes(kv2, x.toks, s, q2, 0)
  <2> SUFFICES ASSUME NEW k \in DOMAIN x.toks
               PROVE  Waits(q2, 0, s, k - 1) \/ Has(kv2, s, k - 1, x.toks[k])
    BY DEF Believes
  <2>1. CASE k <= from
    BY <1>0, <1>1, <2>1
  <2>2. CASE ~(k <= from)
    <3>1. k - from \in 1 .. n /\ from + (k - from) - 1 = k - 1
      BY <1>0, <1>1, <2>2
    <3>2. a + (k - from) \in 0 + 1 .. Len(q2) /\ q2[a + (k - from)] = rows[k - from]
      <4>1. a + (k - from) \in 1 .. a + n
        BY <1>7, <3>1
      <4> QED
        BY <1>2, <1>7, <3>1, <4>1
    <3>3. q2[a + (k - from)].slot = s /\ q2[a + (k - from)].pos = k - 1
      BY <1>4, <3>1, <3>2
    <3> QED
      BY <3>2, <3>3 DEF Waits
  <2> QED
    BY <2>1, <2>2
<1>11. ASSUME NEW i \in Cells, s \in kv2[i].seqs
       PROVE  kv2[i].pos \in Nat /\ kv2[i].pos < from
  <2>1. kv2[i] \in Owned
    BY <1>0, <1>11, CellLemma
  <2> QED
    BY <1>0, <1>11, <2>1 DEF Owned
<1>12. Ends(kv2, x, s)
  <2>1. ASSUME NEW i \in Cells, s \in kv2[i].seqs
        PROVE  kv2[i].pos < Len(x.toks)
    BY <1>0, <1>1, <1>11, <2>1
  <2> QED
    BY <1>0, <2>1 DEF Ends
<1>14. SlotSound(kv2, sl2, q2, 0, s)
  <2> HIDE DEF sl2
  <2> QED
    BY <1>0, <1>3, <1>10, <1>12 DEF SlotSound
<1>15. ASSUME NEW k \in 0 + 1 .. Len(q2), q2[k].slot = s
       PROVE  RowOK(kv2, sl2, q2, 0, k)
  <2>1. k \in 1 .. a + n
    BY <1>1, <1>2
  <2> DEFINE l == k - a
             p == q2[k].pos
  <2>2. l \in 1 .. n /\ p = from + l - 1 /\ q2[k].tok = x.toks[from + l]
    BY <1>8, <1>15, <2>1
  <2>3. p + 1 \in DOMAIN x.toks /\ x.toks[p + 1] = q2[k].tok
    <3>1. p + 1 = from + l /\ from + l \in 1 .. from + n
      <4>1. l \in Nat /\ l >= 1 /\ l <= n
        BY <1>0, <1>1, <2>2
      <4>2. p + 1 = from + l
        <5> HIDE DEF l, p
        <5> QED
          BY <1>0, <2>2, <4>1
      <4> HIDE DEF l, p
      <4> QED
        BY <1>0, <1>1, <4>1, <4>2
    <3> HIDE DEF l, p
    <3> QED
      BY <1>1, <2>2, <3>1
  <2>4. x.st # "PROCESSING_PROMPT" => k <= x.i_batch + 1
    <3>1. x.st # "PROCESSING_PROMPT" => x.i_batch = a + n - 1
      BY <1>0 DEF a, n
    <3> QED
      BY <1>1, <2>1, <3>1
  <2>5. \A i \in DOMAIN kv2 : s \in kv2[i].seqs => kv2[i].pos # p
    <3> SUFFICES ASSUME NEW i \in DOMAIN kv2, s \in kv2[i].seqs PROVE kv2[i].pos # p
      OBVIOUS
    <3>1. kv2[i].pos \in Nat /\ kv2[i].pos < from
      BY <1>0, <1>11
    <3> HIDE DEF p, l
    <3> QED
      BY <1>0, <2>2, <3>1
  <2>6. \A j \in 0 + 1 .. Len(q2) : q2[j].slot = s /\ q2[j].pos = p => j = k
    <3> SUFFICES ASSUME NEW j \in 0 + 1 .. Len(q2), q2[j].slot = s, q2[j].pos = p PROVE j = k
      OBVIOUS
    <3>1. j \in 1 .. a + n
      BY <1>1, <1>2
    <3>2. j - a \in 1 .. n /\ from + (j - a) - 1 = p
      BY <1>8, <3>1
    <3>3. j \in Int /\ k \in Int
      BY <2>1, <3>1
    <3> HIDE DEF p
    <3> QED
      BY <1>0, <1>1, <2>2, <3>2, <3>3
  <2> HIDE DEF p, sl2
  <2>7. RowOK(kv2, sl2, q2, 0, k)
    BY <1>0, <1>3, <1>15, <2>3, <2>4, <2>5, <2>6 DEF RowOK, p
  <2> QED
    BY <2>7
<1>16. Sound(kv2, sl2, sv, q2, 0)
  <2>1. Len(q) <= Len(q2) /\ \A j \in 1 .. Len(q) : q2[j] = q[j]
    BY <1>1, <1>2, <1>6 DEF a
  <2>2. \A j \in Len(q) + 1 .. Len(q2) : q2[j].slot = s
    BY <1>2, <1>9 DEF a
  <2>3. SlotSound(kv2, [sl EXCEPT ![s] = x], q2, 0, s)
    BY <1>14
  <2>4. \A k \in 0 + 1 .. Len(q2) : q2[k].slot = s => RowOK(kv2, [sl EXCEPT ![s] = x], q2, 0, k)
    BY <1>15
  <2>5. q2 \in Seq(BatchRow) /\ 0 \in Nat
    BY <1>2
  <2> HIDE DEF sl2
  <2>6. Sound(kv2, [sl EXCEPT ![s] = x], sv, q2, 0)
    BY <1>0, <2>1, <2>2, <2>3, <2>4, <2>5, OneSlot
  <2> QED
    BY <2>6 DEF sl2
<1>17. Extends(q, q2, s)
  BY <1>1, <1>2, <1>6, <1>9 DEF Extends, a
<1> QED
  BY <1>16, <1>17 DEF q2

\* AddSampled(S, s): the last token of a generating slot.
LEMMA AddTurn ==
    ASSUME NEW s \in Slots, NEW S, AddGood(S, s - 1)
    PROVE  \A T \in AddSampled(S, s) : AddGood(T, s)
<1>1. S \in FillState /\ Sound(S.cells, S.slot, S.saved, S.batch, 0)
  BY DEF AddGood
<1>2. /\ S.cells \in [Cells -> Cell] /\ S.slot \in [Slots -> Slot] /\ S.batch \in Seq(BatchRow)
      /\ SlotSound(S.cells, S.slot, S.batch, 0, s) /\ Busy(S.slot[s])
  BY <1>1, SavedOK DEF FillState
<1>3. /\ s \in Nat /\ Len(S.batch) \in Nat
      /\ \A j \in 1 .. Len(S.batch) : S.batch[j].slot \in Nat
  <2>1. \A j \in 1 .. Len(S.batch) : S.batch[j] \in BatchRow
    BY <1>2, ElementOfSeq
  <2> QED
    BY <1>2, <2>1, LenProperties, NSlotsAssumption DEF Slots, BatchRow
<1>4. \A j \in 1 .. Len(S.batch) : S.batch[j].slot <= s - 1 /\ S.slot[S.batch[j].slot].st = "GENERATING"
  BY DEF AddGood
<1>5. CASE AddSampled(S, s) = {S}
  <2>1. \A j \in 1 .. Len(S.batch) : S.batch[j].slot <= s
    BY <1>3, <1>4
  <2> QED
    BY <1>1, <1>4, <1>5, <2>1 DEF AddGood
<1>6. CASE S.slot[s].st = "GENERATING" /\ AddSampled(S, s) # {S}
  <2> DEFINE toks == S.slot[s].toks
             tok == S.slot[s].sampled
             from == Len(toks)
             row == Row(s, from, tok)
             A == AddToken(S, s, tok)
             b == IF A.batched = NoSlot THEN s ELSE A.batched
             T == [A EXCEPT !.slot[s].i_batch = Len(S.batch), !.batched = IF @ = NoSlot THEN s ELSE @]
             y == [S.slot[s] EXCEPT !.toks = Append(toks, tok)]
             x == [y EXCEPT !.i_batch = Len(S.batch)]
             q2 == Append(S.batch, row)
  <2>1. AddSampled(S, s) = {T}
    BY <1>6 DEF AddSampled
  <2>2. toks \in Seq(Tok) /\ tok \in Tok /\ from \in Nat
    BY <1>2, <1>6, LenProperties DEF Busy, Slot
  <2>3. Append(toks, tok) \in Seq(Tok) /\ Len(Append(toks, tok)) = from + 1
        /\ \A k \in 1 .. from : Append(toks, tok)[k] = toks[k]
        /\ Append(toks, tok)[from + 1] = tok
    <3> HIDE DEF toks, tok
    <3> QED
      BY <2>2, AppendProperties
  <2> DEFINE toks2 == Append(toks, tok)
  <2>4. y \in Slot
    <3> HIDE DEF toks2
    <3> QED
      BY <1>2, <2>3 DEF Slot
  <2>5. x \in Slot /\ x.toks = toks2 /\ x.st = "GENERATING" /\ x.i_batch = Len(S.batch)
        /\ x.sampled = tok /\ x.task = S.slot[s].task
    <3>1. y.toks = toks2 /\ y.st = "GENERATING" /\ y.sampled = tok /\ y.task = S.slot[s].task
      BY <1>2, <1>6 DEF Slot
    <3> HIDE DEF y, toks2, tok
    <3>2. x \in Slot
      BY <1>3, <2>4 DEF Slot
    <3>3. x.toks = y.toks /\ x.st = y.st /\ x.i_batch = Len(S.batch) /\ x.sampled = y.sampled /\ x.task = y.task
      BY <2>4 DEF Slot
    <3> HIDE DEF x
    <3> QED
      BY <3>1, <3>2, <3>3
  <2>6. row \in BatchRow /\ row.slot = s /\ row.pos = from /\ row.tok = tok
    BY <2>2 DEF Row, BatchRow
  <2>7. /\ A.cells = S.cells /\ A.slot = [S.slot EXCEPT ![s] = y] /\ A.saved = S.saved
        /\ A.batch = q2 /\ A.batched = S.batched /\ A.full = S.full
        /\ A = [S EXCEPT !.batch = q2, !.slot = [S.slot EXCEPT ![s] = y]]
    BY <1>1, <1>2 DEF AddToken, FillState
  <2> HIDE DEF A, row, toks2
  <2>8. q2 \in Seq(BatchRow)
    BY <1>2, <2>6, AppendProperties
  <2> HIDE DEF q2, y
  <2>9. A \in FillState /\ A.slot[s] = y
    BY <1>1, <1>2, <2>4, <2>7, <2>8 DEF FillState
  <2>10. T.slot = [S.slot EXCEPT ![s] = x] /\ T.cells = S.cells /\ T.saved = S.saved /\ T.batch = q2
    <3>1. T.slot = [A.slot EXCEPT ![s] = x] /\ T.cells = A.cells /\ T.saved = A.saved /\ T.batch = A.batch
      BY <2>9 DEF FillState
    <3>2. [A.slot EXCEPT ![s] = x] = [S.slot EXCEPT ![s] = x]
      <4> HIDE DEF x
      <4> QED
        BY <1>2, <2>7
    <3> QED
      BY <2>7, <3>1, <3>2
  <2>11. T \in FillState
    <3> DEFINE sl2 == [A.slot EXCEPT ![s] = x]
    <3>1. sl2 \in [Slots -> Slot]
      <4> HIDE DEF x
      <4> QED
        BY <2>5, <2>9 DEF FillState
    <3>2. b \in Slots \cup {NoSlot}
      BY <2>9 DEF FillState
    <3>3. T = [A EXCEPT !.slot = sl2, !.batched = b]
      BY <2>9
    <3> HIDE DEF sl2, b, T
    <3> QED
      BY <2>9, <3>1, <3>2, <3>3 DEF FillState
  <2> HIDE DEF x, T
  <2>12. Busy(x)
    <3>1. S.slot[s].task \in Task /\ \E r \in params.requests : r.kind = S.slot[s].task.kind
      BY <1>2, <1>6 DEF Busy
    <3> QED
      BY <2>2, <2>5, <3>1 DEF Busy
  <2>13. \A j \in 1 .. Len(S.batch) : S.batch[j].slot # s
    BY <1>3, <1>4
  <2>14. \A k \in 1 .. from : Has(S.cells, s, k - 1, x.toks[k])
    <3> SUFFICES ASSUME NEW k \in 1 .. from PROVE Has(S.cells, s, k - 1, x.toks[k])
      OBVIOUS
    <3>1. k \in DOMAIN toks /\ x.toks[k] = toks[k]
      BY <2>2, <2>3, <2>5, LenProperties DEF toks2
    <3>2. ~Waits(S.batch, 0, s, k - 1)
      BY <2>13 DEF Waits
    <3> QED
      BY <1>2, <3>1, <3>2 DEF SlotSound, Believes
  <2>15. \A i \in Cells : s \in S.cells[i].seqs => S.cells[i].pos < from
    BY <1>2, <1>6 DEF SlotSound, Ends
  <2> DEFINE rows == <<row>>
  <2>16. rows \in Seq(BatchRow) /\ Len(rows) = 1 /\ rows[1] = row /\ S.batch \o rows = q2
    BY <1>2, <2>6, AppendIsConcat DEF q2
  <2>17. /\ from + Len(rows) = Len(x.toks)
         /\ \A k \in 1 .. Len(rows) : rows[k].slot = s /\ rows[k].pos = from + k - 1 /\ rows[k].tok = x.toks[from + k]
         /\ Len(S.batch) = Len(S.batch) + Len(rows) - 1
    <3>1. \A k \in 1 .. 1 : k = 1
      OBVIOUS
    <3>2. from + 1 - 1 = from /\ Len(S.batch) + 1 - 1 = Len(S.batch)
      BY <1>3, <2>2
    <3> HIDE DEF rows, from
    <3> QED
      BY <2>3, <2>5, <2>6, <2>16, <3>1, <3>2 DEF toks2, from
  <2>18. \A t \in Slots \ {s} : Same(S.cells, S.cells, t)
    BY DEF Same
  <2> HIDE DEF rows, from
  <2>19. Extends(S.batch, q2, s) /\ Sound(S.cells, [S.slot EXCEPT ![s] = x], S.saved, q2, 0)
    <3>1. /\ x.st \in {"PROCESSING_PROMPT", "DONE_PROMPT", "GENERATING"}
          /\ x.st # "PROCESSING_PROMPT" => x.i_batch = Len(S.batch) + Len(rows) - 1
      BY <2>5, <2>17
    <3>2. x \in Slot /\ rows \in Seq(BatchRow) /\ from \in Nat
      BY <2>2, <2>5, <2>16
    <3>3. NewRows(S.batch, s, S.cells, x, rows, from)
      BY <1>2, <2>12, <2>13, <2>14, <2>15, <2>17, <3>1, <3>2 DEF NewRows
    <3>4. Extends(S.batch, S.batch \o rows, s) /\ Sound(S.cells, [S.slot EXCEPT ![s] = x], S.saved, S.batch \o rows, 0)
      BY <1>1, <1>2, <2>18, <3>3, RowsAdded
    <3> QED
      BY <2>16, <3>4
  <2>20. \A j \in 1 .. Len(q2) : q2[j].slot <= s /\ T.slot[q2[j].slot].st = "GENERATING"
    <3> SUFFICES ASSUME NEW j \in 1 .. Len(q2)
                 PROVE  q2[j].slot <= s /\ T.slot[q2[j].slot].st = "GENERATING"
      OBVIOUS
    <3>1. CASE j \in 1 .. Len(S.batch)
      <4>1. q2[j] = S.batch[j] /\ q2[j].slot <= s /\ q2[j].slot # s /\ S.slot[q2[j].slot].st = "GENERATING"
        BY <1>3, <1>4, <2>13, <2>19, <3>1 DEF Extends
      <4> QED
        BY <1>2, <2>10, <4>1
    <3>2. CASE j \notin 1 .. Len(S.batch)
      <4>1. j \in Len(S.batch) + 1 .. Len(q2)
        BY <1>3, <3>2
      <4>2. q2[j].slot = s
        BY <2>19, <4>1 DEF Extends
      <4> QED
        BY <1>2, <1>3, <2>5, <2>10, <4>2
    <3> QED
      BY <3>1, <3>2
  <2> QED
    BY <2>1, <2>10, <2>11, <2>19, <2>20 DEF AddGood
<1> QED
  BY <1>5, <1>6 DEF AddSampled
\* What the slot holds once it works on its prompt: a prefix of its tokens that is one of the prompt.
BeganOK(S, B, s, x) ==
    /\ Changes(S, B, s, S.cells, x)
    /\ x \in Slot /\ x.st = "PROCESSING_PROMPT" /\ Busy(x)
    /\ x.task = S.slot[s].task /\ x.task \in Task
    /\ Len(x.toks) <= Len(S.slot[s].toks)
    /\ \A k \in 1 .. Len(x.toks) : x.toks[k] = S.slot[s].toks[k]
    /\ S.slot[s].st = "STARTED" /\ ~CanSplit(S, s) => x.toks = <<>>

LEMMA BeganLemma ==
    ASSUME NEW S \in FillState, NEW s \in Slots, Busy(S.slot[s]), S.slot[s].st \in {"STARTED", "PROCESSING_PROMPT"}
    PROVE  \E x : BeganOK(S, Began(S, s), s, x)
<1> DEFINE task == S.slot[s].task
           toks == S.slot[s].toks
           prompt == task.prompt
<1>1. S.slot \in [Slots -> Slot] /\ S.slot[s] \in Slot /\ S.cells \in [Cells -> Cell]
  BY SlotFields
<1>2. task \in Task /\ prompt \in Seq(Tok) /\ toks \in Seq(Tok) /\ \E r \in params.requests : r.kind = task.kind
  BY <1>1 DEF Busy, Task, Slot
<1>3. Len(toks) \in Nat /\ Len(prompt) \in Nat
  BY <1>2, LenProperties
<1>4. CASE S.slot[s].st = "PROCESSING_PROMPT"
  <2>1. Began(S, s) = S
    BY <1>4 DEF Began
  <2>2. Changes(S, S, s, S.cells, S.slot[s])
    <3>1. S.slot = [S.slot EXCEPT ![s] = S.slot[s]]
      BY <1>1
    <3> QED
      BY <3>1 DEF Changes
  <2>3. BeganOK(S, S, s, S.slot[s])
    BY <1>1, <1>2, <1>3, <1>4, <2>2 DEF BeganOK
  <2> QED
    BY <2>1, <2>3
<1>5. CASE S.slot[s].st = "STARTED"
  <2> DEFINE m == Reused(S, s)
             x1 == [S.slot[s] EXCEPT !.st = "PROCESSING_PROMPT"]
             some == SubSeq(toks, 1, m)
             x == [x1 EXCEPT !.toks = some]
             R == [S EXCEPT !.slot = [S.slot EXCEPT ![s] = x]]
  <2>1. m \in Nat /\ m <= Len(toks) /\ m <= Len(prompt) /\ (\A k \in 1 .. m : toks[k] = prompt[k])
        /\ (~CanSplit(S, s) => m = 0)
    <3> DEFINE past == IF task.reuse /\ CanSplit(S, s) THEN Common(toks, prompt) ELSE 0
    <3> HIDE DEF task, toks
    <3>1. Common(toks, prompt) \in Nat /\ Common(toks, prompt) <= Len(toks) /\ Common(toks, prompt) <= Len(prompt)
          /\ \A k \in 1 .. Common(toks, prompt) : toks[k] = prompt[k]
      BY <1>3, CommonLemma
    <3>2. past \in Nat /\ past <= Len(toks) /\ past <= Len(prompt) /\ (\A k \in 1 .. past : toks[k] = prompt[k])
          /\ (~CanSplit(S, s) => past = 0)
      BY <1>3, <3>1
    <3>3. m = IF past = Len(prompt) /\ past > 0 THEN past - 1 ELSE past
      BY DEF Reused, task, toks
    <3> HIDE DEF past, m, prompt
    <3>4. m \in Nat /\ m <= past
      BY <3>2, <3>3
    <3> QED
      BY <1>3, <3>2, <3>3, <3>4
  <2>2. some \in Seq(Tok) /\ Len(some) = m /\ \A k \in 1 .. m : some[k] = toks[k]
    <3>1. \A k \in 1 .. m : k \in 1 .. Len(toks)
      BY <1>3, <2>1
    <3>2. \A k \in 1 .. m : toks[k] \in Tok
      <4> HIDE DEF toks, m
      <4> QED
        BY <1>2, <3>1, ElementOfSeq
    <3> HIDE DEF toks, m
    <3>3. 1 \in Int /\ m \in Int /\ (IF 1 <= m THEN m - 1 + 1 ELSE 0) = m
          /\ m - 1 + 1 = m /\ \A i \in Int : 1 + i - 1 = i
      BY <2>1
    <3>4. /\ some \in Seq(Tok) /\ Len(some) = IF 1 <= m THEN m - 1 + 1 ELSE 0
          /\ \A i \in 1 .. m - 1 + 1 : some[i] = toks[1 + i - 1]
      BY <3>2, <3>3, SubSeqProperties
    <3> HIDE DEF some
    <3> QED
      BY <3>3, <3>4
  <2> HIDE DEF m
  <2>3. x1 \in Slot /\ x1.st = "PROCESSING_PROMPT" /\ x1.task = task /\ x1.toks = toks
    BY <1>1 DEF Slot, States
  <2> HIDE DEF some
  <2>4. x \in Slot /\ x.st = "PROCESSING_PROMPT" /\ x.task = task /\ x.toks = some
    <3> HIDE DEF x1, task
    <3> QED
      BY <2>2, <2>3 DEF Slot
  <2>5. x = [S.slot[s] EXCEPT !.st = "PROCESSING_PROMPT", !.toks = some]
    BY <1>1 DEF Slot
  <2> HIDE DEF x
  <2>6. Began(S, s) = R
    <3> DEFINE z == [S.slot[s] EXCEPT !.st = "PROCESSING_PROMPT", !.toks = some]
    <3>1. Began(S, s) = [S EXCEPT !.slot[s] = z]
      BY <1>5 DEF Began, m, some
    <3>2. z = x
      BY <2>5
    <3> HIDE DEF z
    <3> QED
      BY <3>1, <3>2
  <2>7. R \in FillState /\ R.slot = [S.slot EXCEPT ![s] = x] /\ R.cells = S.cells /\ R.saved = S.saved
        /\ R.batch = S.batch /\ R.batched = S.batched /\ R.full = S.full
    <3> DEFINE sl2 == [S.slot EXCEPT ![s] = x]
    <3>1. sl2 \in [Slots -> Slot]
      BY <1>1, <2>4
    <3>2. R = [S EXCEPT !.slot = sl2]
      OBVIOUS
    <3> HIDE DEF sl2, R
    <3>3. R \in FillState /\ R.slot = sl2 /\ R.cells = S.cells /\ R.saved = S.saved
          /\ R.batch = S.batch /\ R.batched = S.batched /\ R.full = S.full
      BY <3>1, <3>2 DEF FillState
    <3> QED
      BY <3>3 DEF sl2
  <2>8. S \in BaseState => R \in BaseState
    <3>1. S \in BaseState => DOMAIN S = {"cells", "slot", "saved"}
      BY DEF BaseState
    <3>2. "batch" \in DOMAIN S
      BY DEF FillState
    <3> QED
      BY <3>1, <3>2
  <2> HIDE DEF R
  <2>9. Changes(S, R, s, S.cells, x)
    BY <2>7, <2>8 DEF Changes
  <2>10. Busy(x)
    <3> HIDE DEF toks, prompt
    <3> QED
      BY <1>2, <2>1, <2>2, <2>4 DEF Busy, prompt
  <2>11. ~CanSplit(S, s) => x.toks = <<>>
    BY <2>1, <2>2, <2>4, EmptySeq
  <2>12. BeganOK(S, R, s, x)
    BY <1>2, <1>3, <2>1, <2>2, <2>4, <2>9, <2>10, <2>11 DEF BeganOK
  <2> QED
    BY <2>6, <2>12
<1> QED
  BY <1>4, <1>5
\* FillPrompt(B, s): the memory is cut after the tokens that are kept, and the next ones wait in the batch.
LEMMA FillPromptLemma ==
    ASSUME NEW S \in FillState, NEW s \in Slots, NEW B, NEW x, BeganOK(S, B, s, x), params.n_batch \in Nat,
           Sound(S.cells, S.slot, S.saved, S.batch, 0), \A j \in 1 .. Len(S.batch) : S.batch[j].slot # s
    PROVE  LET F == FillPrompt(B, s)
           IN  /\ F \in FillState /\ F.batched = S.batched
               /\ Extends(S.batch, F.batch, s) /\ Sound(F.cells, F.slot, F.saved, F.batch, 0)
               /\ \A t \in Slots \ {s} : F.slot[t] = S.slot[t]
<1> DEFINE toks == x.toks
           task == x.task
           prompt == task.prompt
           from == Len(toks)
           a == Len(S.batch)
           n == Fitting(B, s)
           kv2 == SeqRm(S.cells, s, from, End)
           rows == [k \in 1 .. n |-> Row(s, from + k - 1, prompt[from + k])]
           toks2 == SubSeq(prompt, 1, from + n)
           more == [x EXCEPT !.toks = toks2]
           done == [more EXCEPT !.st = "DONE_PROMPT", !.i_batch = a + n - 1]
           y == IF from + n < Len(prompt) THEN more ELSE done
           F == FillPrompt(B, s)
<1>1. /\ S.cells \in [Cells -> Cell] /\ S.slot \in [Slots -> Slot] /\ S.saved \in Seq(Entry)
      /\ S.batch \in Seq(BatchRow) /\ a \in Nat
      /\ SlotSound(S.cells, S.slot, S.batch, 0, s)
  BY SavedOK, LenProperties DEF FillState
<1>2. /\ x \in Slot /\ x.st = "PROCESSING_PROMPT" /\ Busy(x) /\ task \in Task
      /\ from <= Len(S.slot[s].toks) /\ \A k \in 1 .. from : toks[k] = S.slot[s].toks[k]
      /\ B \in FillState /\ B.cells = S.cells /\ B.slot = [S.slot EXCEPT ![s] = x] /\ B.saved = S.saved
      /\ B.batch = S.batch /\ B.batched = S.batched /\ B.full = S.full
  BY DEF BeganOK, Changes
<1>3. /\ toks \in Seq(Tok) /\ prompt \in Seq(Tok) /\ S.slot[s].toks \in Seq(Tok)
      /\ \E r \in params.requests : r.kind = task.kind
  BY <1>1, <1>2 DEF Slot, Task, Busy
<1>4. from \in Nat /\ Len(prompt) \in Nat /\ Len(S.slot[s].toks) \in Nat
  BY <1>3, LenProperties
<1>5. from <= Len(prompt) /\ \A k \in 1 .. from : toks[k] = prompt[k]
  BY <1>2 DEF Busy
<1>6. B.slot[s] = x
  BY <1>1, <1>2
<1>7. n \in Nat /\ from + n <= Len(prompt)
  <2> DEFINE free == params.n_batch - a
             rest == Len(prompt) - from
  <2>1. n = Max({0, Min({rest, free})})
    BY <1>2, <1>6 DEF Fitting
  <2> HIDE DEF a, from, prompt
  <2>2. rest \in Nat /\ free \in Int
    BY <1>1, <1>4, <1>5
  <2> HIDE DEF rest, free, n
  <2>3. Min({rest, free}) \in Int /\ Min({rest, free}) <= rest
    BY <2>2, MinOfTwo
  <2> DEFINE m == Min({rest, free})
  <2> HIDE DEF m
  <2>4. Max({0, m}) \in Nat /\ Max({0, m}) <= rest
    <3>0. m \in Int /\ m <= rest /\ 0 \in Int
      BY <2>3 DEF m
    <3>1. Max({0, m}) = IF 0 <= m THEN m ELSE 0
      BY <3>0, MaxOfTwo
    <3> QED
      BY <2>2, <3>0, <3>1
  <2>5. n \in Nat /\ n <= rest
    BY <2>1, <2>4 DEF m
  <2> QED
    BY <1>4, <2>5 DEF rest
<1> HIDE DEF n
<1>8. toks2 \in Seq(Tok) /\ Len(toks2) = from + n /\ \A k \in 1 .. from + n : toks2[k] = prompt[k]
  <2> DEFINE m == from + n
  <2>1. \A k \in 1 .. m : prompt[k] \in Tok
    <3>1. \A k \in 1 .. m : k \in 1 .. Len(prompt)
      <4> HIDE DEF from, prompt
      <4> QED
        BY <1>4, <1>7
    <3> HIDE DEF prompt, m
    <3> QED
      BY <1>3, <3>1, ElementOfSeq
  <2>2. m \in Nat
    BY <1>4, <1>7
  <2> HIDE DEF m, prompt
  <2>3. 1 \in Int /\ m \in Int /\ (IF 1 <= m THEN m - 1 + 1 ELSE 0) = m
        /\ m - 1 + 1 = m /\ \A i \in Int : 1 + i - 1 = i
    BY <2>2
  <2> DEFINE some == SubSeq(prompt, 1, m)
  <2>4. /\ some \in Seq(Tok) /\ Len(some) = IF 1 <= m THEN m - 1 + 1 ELSE 0
        /\ \A i \in 1 .. m - 1 + 1 : some[i] = prompt[1 + i - 1]
    BY <2>1, <2>3, SubSeqProperties
  <2>5. toks2 = some
    BY DEF m
  <2> HIDE DEF some, toks2
  <2>6. some \in Seq(Tok) /\ Len(some) = m /\ \A k \in 1 .. m : some[k] = prompt[k]
    BY <2>3, <2>4
  <2> QED
    BY <2>5, <2>6 DEF m
<1>9. /\ kv2 \in [Cells -> Cell]
      /\ \A i \in Cells : kv2[i] = IF OfSeq(S.cells[i], s, from, End) THEN Empty ELSE S.cells[i]
      /\ \A t \in Slots \ {s} : Same(S.cells, kv2, t)
  BY <1>1, SeqRmLemma
<1> HIDE DEF kv2, toks2
<1>10. rows \in Seq(BatchRow) /\ Len(rows) = n
       /\ \A k \in 1 .. n : rows[k].slot = s /\ rows[k].pos = from + k - 1 /\ rows[k].tok = toks2[from + k]
  <2>1. ASSUME NEW k \in 1 .. n
        PROVE  /\ rows[k] = [slot |-> s, pos |-> from + k - 1, tok |-> prompt[from + k]]
               /\ from + k - 1 \in Nat /\ prompt[from + k] \in Tok /\ prompt[from + k] = toks2[from + k]
    <3> DEFINE l == from + k
    <3>1. l \in 1 .. Len(prompt) /\ l \in 1 .. from + n /\ l - 1 \in Nat
      <4> HIDE DEF from, prompt
      <4> QED
        BY <1>4, <1>7
    <3>2. rows[k] = [slot |-> s, pos |-> l - 1, tok |-> prompt[l]]
      BY DEF Row
    <3> HIDE DEF prompt, l, from, rows
    <3>3. prompt[l] \in Tok /\ prompt[l] = toks2[l]
      BY <1>3, <1>8, <3>1, ElementOfSeq
    <3>0. from + k - 1 = l - 1
      BY <1>4, <1>7 DEF l
    <3>4. rows[k] = [slot |-> s, pos |-> from + k - 1, tok |-> prompt[from + k]]
      <4>1. rows[k] = [slot |-> s, pos |-> from + k - 1, tok |-> prompt[l]]
        BY <3>0, <3>2, Zenon
      <4> QED
        BY <4>1, Zenon DEF l
    <3>5. from + k - 1 \in Nat
      BY <3>0, <3>1, Zenon
    <3>6. prompt[from + k] \in Tok /\ prompt[from + k] = toks2[from + k]
      BY <3>3, Zenon DEF l
    <3> QED
      BY <3>4, <3>5, <3>6, Zenon
  <2>2. rows = [k \in 1 .. n |-> rows[k]]
    OBVIOUS
  <2> HIDE DEF rows, from, prompt
  <2>3. \A k \in 1 .. n : rows[k] \in BatchRow /\ rows[k].slot = s /\ rows[k].pos = from + k - 1
                          /\ rows[k].tok = toks2[from + k]
    <3> SUFFICES ASSUME NEW k \in 1 .. n
                 PROVE  /\ rows[k] \in BatchRow /\ rows[k].slot = s /\ rows[k].pos = from + k - 1
                        /\ rows[k].tok = toks2[from + k]
      OBVIOUS
    <3> DEFINE p == from + k - 1
               tok == prompt[from + k]
    <3>1. rows[k] = [slot |-> s, pos |-> p, tok |-> tok] /\ p \in Nat /\ tok \in Tok /\ tok = toks2[from + k]
      BY <2>1
    <3> HIDE DEF p, tok
    <3>2. rows[k] \in BatchRow /\ rows[k].slot = s /\ rows[k].pos = p /\ rows[k].tok = toks2[from + k]
      BY <3>1 DEF BatchRow
    <3> QED
      BY <3>2 DEF p
  <2>4. rows \in [1 .. n -> BatchRow]
    BY <2>2, <2>3
  <2> QED
    BY <1>7, <2>3, <2>4
<1> HIDE DEF rows
<1>11. more \in Slot /\ more.toks = toks2 /\ more.st = "PROCESSING_PROMPT" /\ more.task = task
  BY <1>2, <1>8 DEF Slot
<1>12. done \in Slot /\ done.toks = toks2 /\ done.st = "DONE_PROMPT" /\ done.task = task /\ done.i_batch = a + n - 1
  <2> DEFINE d1 == [more EXCEPT !.st = "DONE_PROMPT"]
             d == [d1 EXCEPT !.i_batch = a + n - 1]
  <2>1. d1 \in Slot /\ d1.toks = toks2 /\ d1.st = "DONE_PROMPT" /\ d1.task = task
    <3> HIDE DEF more, task
    <3> QED
      BY <1>11 DEF Slot, States
  <2>2. a + n - 1 \in Int
    BY <1>1, <1>7
  <2>3. done = d
    <3> HIDE DEF more
    <3> QED
      BY <1>11 DEF Slot
  <2> HIDE DEF d1, task, a, done
  <2>4. d \in Slot /\ d.toks = toks2 /\ d.st = "DONE_PROMPT" /\ d.task = task /\ d.i_batch = a + n - 1
    BY <2>1, <2>2 DEF Slot
  <2> QED
    BY <2>3, <2>4
<1> HIDE DEF more, done
<1>13. y \in Slot /\ y.toks = toks2 /\ y.st \in {"PROCESSING_PROMPT", "DONE_PROMPT"} /\ y.task = task
       /\ (y.st # "PROCESSING_PROMPT" => y.i_batch = a + Len(rows) - 1)
  BY <1>10, <1>11, <1>12
<1> HIDE DEF y
<1>14. Busy(y)
  <2>1. /\ Len(y.toks) <= Len(y.task.prompt)
        /\ \A k \in 1 .. Len(y.toks) : y.toks[k] = y.task.prompt[k]
    BY <1>7, <1>8, <1>13
  <2> HIDE DEF task
  <2> QED
    BY <1>2, <1>3, <1>13, <2>1 DEF Busy
<1>15. ASSUME NEW i \in Cells, s \in kv2[i].seqs
       PROVE  kv2[i] = S.cells[i] /\ kv2[i].pos < from
  <2>1. ~OfSeq(S.cells[i], s, from, End)
    BY <1>9, <1>15 DEF Empty
  <2>2. kv2[i] = S.cells[i]
    BY <1>9, <2>1
  <2>3. S.cells[i] \in Owned
    BY <1>1, <1>15, <2>2, CellLemma
  <2>4. S.cells[i].pos \in Nat
    BY <2>3 DEF Owned
  <2>5. ~(from <= S.cells[i].pos)
    BY <1>15, <2>1, <2>2 DEF OfSeq
  <2> QED
    BY <1>4, <2>2, <2>4, <2>5
<1>16. ASSUME NEW k \in 1 .. from
       PROVE  Has(kv2, s, k - 1, y.toks[k])
  <2>1. k \in 1 .. from + n /\ k \in DOMAIN S.slot[s].toks /\ k - 1 < from /\ k - 1 \in Nat
    <3>1. DOMAIN S.slot[s].toks = 1 .. Len(S.slot[s].toks)
      BY <1>3, LenProperties
    <3> HIDE DEF from
    <3> QED
      BY <1>2, <1>4, <1>7, <3>1
  <2>2. y.toks[k] = S.slot[s].toks[k]
    BY <1>2, <1>5, <1>8, <1>13, <2>1
  <2>3. ~Waits(S.batch, 0, s, k - 1)
    BY DEF Waits
  <2>4. Has(S.cells, s, k - 1, y.toks[k])
    BY <1>1, <2>1, <2>2, <2>3 DEF SlotSound, Believes
  <2>5. PICK i \in Cells : Lone(S.cells, i, s, k - 1, y.toks[k])
    BY <1>1, <2>4 DEF Has
  <2>6. kv2[i] = S.cells[i]
    <3>1. ~OfSeq(S.cells[i], s, from, End)
      <4>1. ~(from <= k - 1)
        <5> HIDE DEF from
        <5> QED
          BY <1>4, <2>1
      <4> QED
        BY <2>5, <4>1 DEF OfSeq, Lone
    <3> QED
      BY <1>9, <3>1
  <2>7. Lone(kv2, i, s, k - 1, y.toks[k])
    BY <1>1, <1>9, <1>15, <2>5, <2>6 DEF Lone
  <2> QED
    BY <1>9, <2>7 DEF Has
<1>17. NewRows(S.batch, s, kv2, y, rows, from)
  BY <1>4, <1>8, <1>9, <1>10, <1>13, <1>14, <1>15, <1>16 DEF NewRows
<1> DEFINE q2 == S.batch \o rows
           sl2 == [S.slot EXCEPT ![s] = y]
<1>18. Extends(S.batch, q2, s) /\ Sound(kv2, sl2, S.saved, q2, 0)
  BY <1>1, <1>9, <1>17, RowsAdded
<1>19. sl2 \in [Slots -> Slot] /\ \A t \in Slots \ {s} : sl2[t] = S.slot[t]
  BY <1>1, <1>13
<1>20. q2 \in Seq(BatchRow)
  BY <1>18 DEF Extends
<1>21. F = [B EXCEPT !.cells = kv2, !.batch = q2, !.slot = sl2]
  <2> DEFINE B1 == [B EXCEPT !.cells = kv2]
  <2>1. B1.slot = B.slot /\ B1.batch = S.batch
    BY <1>2 DEF FillState
  <2>2. F = AddPrompt(B1, s, n)
    BY <1>2, <1>6 DEF FillPrompt, n, kv2
  <2> HIDE DEF B1
  <2>3. B1.slot[s] = x
    BY <1>6, <2>1
  <2>4. AddPrompt(B1, s, n) = [B1 EXCEPT !.batch = q2, !.slot[s] = y]
    BY <2>1, <2>3 DEF AddPrompt, rows, y, more, done, toks2
  <2>5. [B1.slot EXCEPT ![s] = y] = sl2
    BY <1>1, <1>2, <2>1
  <2> HIDE DEF F, q2, sl2
  <2>6. F = [B1 EXCEPT !.batch = q2, !.slot = sl2]
    BY <2>2, <2>4, <2>5
  <2> QED
    BY <1>2, <2>6 DEF B1, FillState
<1> HIDE DEF F, q2, sl2
<1>22. F \in FillState /\ F.cells = kv2 /\ F.batch = q2 /\ F.slot = sl2 /\ F.saved = S.saved /\ F.batched = S.batched
  BY <1>2, <1>9, <1>19, <1>20, <1>21 DEF FillState
<1> QED
  BY <1>18, <1>19, <1>22 DEF F
\* The change of a slot that has no rows in the batch.
LEMMA OneSlotNoRows ==
    ASSUME NEW kv, NEW sl, NEW sv, NEW q \in Seq(BatchRow), NEW h \in Nat, NEW s \in Slots, NEW x \in Slot,
           NEW kv2 \in [Cells -> Cell], Sound(kv, sl, sv, q, h),
           \A t \in Slots \ {s} : Same(kv, kv2, t),
           \A k \in h + 1 .. Len(q) : q[k].slot # s,
           SlotSound(kv2, [sl EXCEPT ![s] = x], q, h, s)
    PROVE  Sound(kv2, [sl EXCEPT ![s] = x], sv, q, h)
<1>1. Len(q) \in Nat
  BY LenProperties
<1>2. Len(q) <= Len(q) /\ \A k \in Len(q) + 1 .. Len(q) : q[k].slot = s
  BY <1>1
<1> DEFINE sl2 == [sl EXCEPT ![s] = x]
<1>3. \A k \in h + 1 .. Len(q) : q[k].slot = s => RowOK(kv2, sl2, q, h, k)
  OBVIOUS
<1> QED
  BY <1>2, <1>3, OneSlot

\* FillSlot(S, s): the prompts, as far as the batch has room.
LEMMA FillTurn ==
    ASSUME params.n_batch \in Nat, NEW s \in Slots, NEW S, FillGood(S, s - 1)
    PROVE  \A T \in FillSlot(S, s) : FillGood(T, s)
<1>1. S \in FillState /\ Sound(S.cells, S.slot, S.saved, S.batch, 0)
  BY DEF FillGood
<1>2. /\ S.cells \in [Cells -> Cell] /\ S.slot \in [Slots -> Slot] /\ S.batch \in Seq(BatchRow)
      /\ \A t \in Slots : Busy(S.slot[t])
      /\ SlotSound(S.cells, S.slot, S.batch, 0, s)
  BY <1>1, SavedOK DEF FillState
<1>3. /\ s \in Nat /\ Len(S.batch) \in Nat
      /\ \A j \in 1 .. Len(S.batch) : S.batch[j].slot \in Nat /\ S.batch[j].slot \in Slots
  <2>1. \A j \in 1 .. Len(S.batch) : S.batch[j] \in BatchRow
    BY <1>2, ElementOfSeq
  <2> QED
    BY <1>2, <2>1, LenProperties, NSlotsAssumption DEF Slots, BatchRow
<1>4. \A j \in 1 .. Len(S.batch) : S.batch[j].slot <= s - 1 \/ S.slot[S.batch[j].slot].st = "GENERATING"
  BY DEF FillGood
<1>5. \A j \in 1 .. Len(S.batch) : S.batch[j].slot <= s \/ S.slot[S.batch[j].slot].st = "GENERATING"
  BY <1>3, <1>4
<1>6. S.slot[s].st # "GENERATING" => \A j \in 1 .. Len(S.batch) : S.batch[j].slot # s
  BY <1>3, <1>4
<1>7. \A t \in Slots \ {s} : Same(S.cells, S.cells, t)
  BY DEF Same
<1> DEFINE skip == \/ S.full \/ ~Processing(S, s) \/ ~CanBatchWith(S, s) \/ S.slot[s].st = "WAIT_OTHER"
           prompting == S.slot[s].st \in {"STARTED", "PROCESSING_PROMPT"}
           refused == S.slot[s].st = "STARTED" /\ (S.slot[s].task.prompt = <<>> \/ TooLong(S, s))
           noRoom == prompting /\ ~CanSplit(S, s) /\ Len(S.batch) + Len(S.slot[s].task.prompt) > params.n_batch
           end(F) == [F EXCEPT !.batched = IF @ = NoSlot THEN s ELSE @, !.full = Len(F.batch) >= params.n_batch]
<1>8. CASE skip
  <2>1. FillSlot(S, s) = {S}
    BY <1>8 DEF FillSlot
  <2> QED
    BY <1>1, <1>5, <2>1 DEF FillGood
<1>9. CASE ~skip /\ refused
  <2> DEFINE x == Freed(S.slot[s])
             R == Release(S, s)
  <2>1. FillSlot(S, s) = {R}
    BY <1>9 DEF FillSlot
  <2>2. Changes(S, R, s, S.cells, x)
    BY <1>1, <1>2, <1>9, ReleaseLemma DEF Processing
  <2>3. SlotSound(S.cells, [S.slot EXCEPT ![s] = x], S.batch, 0, s)
    BY <1>2, <1>9, ReleasedSound
  <2>4. x \in Slot
    BY <1>2, FreedSlot
  <2> HIDE DEF x, R
  <2>5. Sound(S.cells, [S.slot EXCEPT ![s] = x], S.saved, S.batch, 0)
    BY <1>1, <1>2, <1>6, <1>7, <1>9, <2>3, <2>4, OneSlotNoRows
  <2>6. /\ R \in FillState /\ R.cells = S.cells /\ R.slot = [S.slot EXCEPT ![s] = x] /\ R.saved = S.saved
        /\ R.batch = S.batch
    BY <1>1, <2>2 DEF Changes
  <2>7. \A j \in 1 .. Len(S.batch) : S.batch[j].slot <= s \/ R.slot[S.batch[j].slot].st = "GENERATING"
    BY <1>2, <1>3, <1>5, <2>6
  <2>8. FillGood(R, s)
    BY <2>5, <2>6, <2>7 DEF FillGood
  <2> QED
    BY <2>1, <2>8
<1>10. CASE ~skip /\ ~refused /\ prompting
  <2> DEFINE B == Began(S, s)
  <2>1. PICK x : BeganOK(S, B, s, x)
    BY <1>1, <1>2, <1>10, BeganLemma
  <2>2. \A j \in 1 .. Len(S.batch) : S.batch[j].slot # s
    BY <1>6, <1>10
  <2>3. CASE noRoom
    <3>1. FillSlot(S, s) = {B}
      BY <1>10, <2>3 DEF FillSlot
    <3> HIDE DEF B
    <3>2. /\ x \in Slot /\ x.st = "PROCESSING_PROMPT" /\ Busy(x)
          /\ x.task = S.slot[s].task /\ x.task \in Task
          /\ Len(x.toks) <= Len(S.slot[s].toks)
          /\ \A k \in 1 .. Len(x.toks) : x.toks[k] = S.slot[s].toks[k]
          /\ B \in FillState /\ B.cells = S.cells /\ B.slot = [S.slot EXCEPT ![s] = x] /\ B.saved = S.saved
          /\ B.batch = S.batch
      BY <1>1, <2>1 DEF BeganOK, Changes
    <3>3. x.task.kind = "embedding"
      <4>1. S.slot[s].task.kind = "embedding"
        BY <2>3 DEF CanSplit
      <4> QED
        BY <3>2, <4>1
    <3>4. Believes(S.cells, x.toks, s, S.batch, 0)
      <4>1. /\ DOMAIN x.toks = 1 .. Len(x.toks) /\ Len(x.toks) \in Nat
            /\ DOMAIN S.slot[s].toks = 1 .. Len(S.slot[s].toks) /\ Len(S.slot[s].toks) \in Nat
        BY <1>2, <3>2, LenProperties DEF Slot
      <4>2. \A k \in DOMAIN x.toks : k \in DOMAIN S.slot[s].toks /\ x.toks[k] = S.slot[s].toks[k]
        BY <3>2, <4>1
      <4>3. Believes(S.cells, S.slot[s].toks, s, S.batch, 0)
        BY <1>2 DEF SlotSound
      <4> QED
        BY <4>2, <4>3 DEF Believes
    <3> DEFINE sl2 == [S.slot EXCEPT ![s] = x]
    <3>5. SlotSound(S.cells, sl2, S.batch, 0, s)
      <4>1. sl2[s] = x
        BY <1>2
      <4> HIDE DEF sl2
      <4>2. Ends(S.cells, x, s)
        BY <3>2, <3>3 DEF Ends
      <4> QED
        BY <3>2, <3>4, <4>1, <4>2 DEF SlotSound
    <3>6. Sound(S.cells, sl2, S.saved, S.batch, 0)
      BY <1>1, <1>2, <1>7, <2>2, <3>2, <3>5, OneSlotNoRows
    <3>7. \A j \in 1 .. Len(S.batch) : S.batch[j].slot <= s \/ B.slot[S.batch[j].slot].st = "GENERATING"
      BY <1>2, <1>3, <1>5, <2>2, <3>2
    <3> HIDE DEF sl2
    <3>8. FillGood(B, s)
      BY <3>2, <3>6, <3>7 DEF FillGood, sl2
    <3> QED
      BY <3>1, <3>8
  <2>4. CASE ~noRoom
    <3> DEFINE F == FillPrompt(B, s)
    <3>1. FillSlot(S, s) = {end(F)}
      <4>1. FillSlot(S, s) = {end(G) : G \in {FillPrompt(C, s) : C \in {B}}}
        BY <1>10, <2>4 DEF FillSlot
      <4>2. {FillPrompt(C, s) : C \in {B}} = {F}
        <5> HIDE DEF B
        <5> QED
          OBVIOUS
      <4> HIDE DEF F, end
      <4>3. {end(G) : G \in {F}} = {end(F)}
        OBVIOUS
      <4> QED
        BY <4>1, <4>2, <4>3
    <3>2. /\ F \in FillState /\ F.batched = S.batched
          /\ Extends(S.batch, F.batch, s) /\ Sound(F.cells, F.slot, F.saved, F.batch, 0)
          /\ \A t \in Slots \ {s} : F.slot[t] = S.slot[t]
      <4> HIDE DEF B
      <4> QED
        BY <1>1, <2>1, <2>2, FillPromptLemma
    <3> HIDE DEF F
    <3>3. \A j \in 1 .. Len(F.batch) : F.batch[j].slot <= s \/ F.slot[F.batch[j].slot].st = "GENERATING"
      <4> SUFFICES ASSUME NEW j \in 1 .. Len(F.batch)
                   PROVE  F.batch[j].slot <= s \/ F.slot[F.batch[j].slot].st = "GENERATING"
        OBVIOUS
      <4>0. Len(F.batch) \in Nat
        BY <3>2, LenProperties DEF Extends
      <4>1. CASE j \in 1 .. Len(S.batch)
        <5>1. F.batch[j] = S.batch[j]
          BY <3>2, <4>1 DEF Extends
        <5>2. F.slot[S.batch[j].slot] = S.slot[S.batch[j].slot]
          BY <1>3, <2>2, <3>2, <4>1
        <5> QED
          BY <1>5, <4>1, <5>1, <5>2
      <4>2. CASE j \notin 1 .. Len(S.batch)
        <5>1. j \in Len(S.batch) + 1 .. Len(F.batch)
          BY <1>3, <4>0, <4>2
        <5>2. F.batch[j].slot = s
          BY <3>2, <5>1 DEF Extends
        <5> QED
          BY <1>3, <5>2
      <4> QED
        BY <4>1, <4>2
    <3> DEFINE T == end(F)
    <3>4. /\ T \in FillState /\ T.cells = F.cells /\ T.slot = F.slot /\ T.saved = F.saved /\ T.batch = F.batch
      <4> DEFINE b == IF F.batched = NoSlot THEN s ELSE F.batched
                 full == Len(F.batch) >= params.n_batch
      <4>1. b \in Slots \cup {NoSlot}
        BY <3>2 DEF FillState
      <4>2. full \in BOOLEAN
        OBVIOUS
      <4> HIDE DEF b, full
      <4>3. T = [F EXCEPT !.batched = b, !.full = full]
        BY DEF b, full
      <4> QED
        BY <3>2, <4>1, <4>2, <4>3 DEF FillState
    <3> HIDE DEF T
    <3>5. FillGood(T, s)
      BY <3>2, <3>3, <3>4 DEF FillGood
    <3> QED
      BY <3>1, <3>5 DEF T
  <2> QED
    BY <2>3, <2>4
<1>11. CASE ~skip /\ ~refused /\ ~prompting
  <2> DEFINE T == end(S)
  <2>1. FillSlot(S, s) = {T}
    BY <1>11 DEF FillSlot
  <2>2. /\ T \in FillState /\ T.cells = S.cells /\ T.slot = S.slot /\ T.saved = S.saved /\ T.batch = S.batch
    <3> DEFINE b == IF S.batched = NoSlot THEN s ELSE S.batched
               full == Len(S.batch) >= params.n_batch
    <3>1. b \in Slots \cup {NoSlot}
      BY <1>1 DEF FillState
    <3>2. full \in BOOLEAN
      OBVIOUS
    <3> HIDE DEF b, full
    <3>3. T = [S EXCEPT !.batched = b, !.full = full]
      BY DEF b, full
    <3> QED
      BY <1>1, <3>1, <3>2, <3>3 DEF FillState
  <2> HIDE DEF T
  <2>3. FillGood(T, s)
    BY <1>1, <1>5, <2>2 DEF FillGood
  <2> QED
    BY <2>1, <2>3
<1> QED
  BY <1>8, <1>9, <1>10, <1>11
LEMMA UpdateSlotsStep ==
    ASSUME CacheInv, UpdateSlots
    PROVE  CacheInv'
<1> DEFINE X0 == {Filling(State)}
           X1 == Each(ShiftSlot, X0)
           X2 == Each(AddSampled, X1)
           X3 == Each(FillSlot, X2)
<1>1. /\ SaveGood(State, 0) /\ params.n_ctx \in Nat /\ params.n_ctx >= 4 /\ params.n_batch \in Nat
      /\ State.cells = cells /\ State.slot = slot /\ State.saved = saved /\ phase = "tasks"
  BY AtTasks DEF UpdateSlots
<1>2. Sound(cells, slot, saved, <<>>, 0)
  BY <1>1 DEF SaveGood
<1>3. \A S \in X0 : ShiftGood(S, 0)
  <2> DEFINE S == Filling(State)
  <2>1. /\ S \in FillState /\ S.cells = cells /\ S.slot = slot /\ S.saved = saved /\ S.batch = <<>>
    <3>1. cells \in [Cells -> Cell] /\ slot \in [Slots -> Slot] /\ saved \in Seq(Entry)
      BY <1>2, SavedOK
    <3> DEFINE none == <<>>
    <3>2. none \in Seq(BatchRow)
      BY EmptySeq
    <3>3. S = [cells |-> cells, slot |-> slot, saved |-> saved, batch |-> none, batched |-> NoSlot, full |-> FALSE]
      BY <1>1 DEF Filling
    <3> HIDE DEF none, S
    <3>4. S \in FillState /\ S.cells = cells /\ S.slot = slot /\ S.saved = saved /\ S.batch = none
      BY <3>1, <3>2, <3>3 DEF FillState
    <3> QED
      BY <3>4 DEF none
  <2> HIDE DEF S
  <2>2. ShiftGood(S, 0)
    BY <1>2, <2>1 DEF ShiftGood
  <2> QED
    BY <2>2 DEF S
<1>4. \A S \in X1 : ShiftGood(S, NSlots)
  <2>1. X1 = ShiftLoop!After(0, X0)
    BY DEF Each, ShiftLoop!After
  <2>2. \A s \in 1 .. NSlots : \A R : ShiftGood(R, s - 1) => \A T \in ShiftSlot(R, s) : ShiftGood(T, s)
    BY <1>1, ShiftTurn DEF Slots
  <2> HIDE DEF X0, X1
  <2> QED
    BY <1>3, <2>1, <2>2, NSlotsAssumption, ShiftLoop!LoopRule
<1> HIDE DEF X0, X1
<1>5. \A S \in X1 : AddGood(S, 0)
  <2> SUFFICES ASSUME NEW S \in X1 PROVE AddGood(S, 0)
    OBVIOUS
  <2>1. S \in FillState /\ S.batch = <<>> /\ Sound(S.cells, S.slot, S.saved, <<>>, 0)
    BY <1>4 DEF ShiftGood
  <2>2. Len(S.batch) = 0
    BY <2>1, EmptySeq
  <2>3. Sound(S.cells, S.slot, S.saved, S.batch, 0)
    BY <2>1
  <2> QED
    BY <2>1, <2>2, <2>3 DEF AddGood
<1>6. \A S \in X2 : AddGood(S, NSlots)
  <2>1. X2 = AddLoop!After(0, X1)
    BY DEF Each, AddLoop!After
  <2>2. \A s \in 1 .. NSlots : \A R : AddGood(R, s - 1) => \A T \in AddSampled(R, s) : AddGood(T, s)
    BY AddTurn DEF Slots
  <2> HIDE DEF X2
  <2> QED
    BY <1>5, <2>1, <2>2, NSlotsAssumption, AddLoop!LoopRule
<1> HIDE DEF X2
<1>7. \A S \in X2 : FillGood(S, 0)
  BY <1>6 DEF AddGood, FillGood
<1>8. \A S \in X3 : FillGood(S, NSlots)
  <2>1. X3 = FillLoop!After(0, X2)
    BY DEF Each, FillLoop!After
  <2>2. \A s \in 1 .. NSlots : \A R : FillGood(R, s - 1) => \A T \in FillSlot(R, s) : FillGood(T, s)
    BY <1>1, FillTurn DEF Slots
  <2> HIDE DEF X3
  <2> QED
    BY <1>7, <2>1, <2>2, NSlotsAssumption, FillLoop!LoopRule
<1>9. PICK F \in X3 : Take(F) /\ batch' = F.batch /\ phase' = IF F.batch = <<>> THEN "tasks" ELSE "decode"
  BY DEF UpdateSlots, X2, X1, X0
<1> HIDE DEF X3
<1>10. F \in FillState /\ Sound(F.cells, F.slot, F.saved, F.batch, 0)
  BY <1>8, <1>9 DEF FillGood
<1>11. params' = params /\ at' = 0 /\ n_batch' = params.n_batch /\ file' = file
  BY DEF UpdateSlots
<1>12. Sound(cells, slot, saved, batch, at)'
  BY <1>9, <1>10, <1>11, SoundPrime DEF Take
<1>13. (file # NoFile => file \in Entry /\ EntryOK(file))'
  BY <1>11 DEF CacheInv, EntryOK
<1>14. /\ params' \in Configs /\ batch' \in Seq(BatchRow) /\ at' \in Nat /\ n_batch' \in Nat
       /\ phase' = "tasks" => batch' = <<>> /\ at' = 0 /\ n_batch' = params'.n_batch
  BY <1>1, <1>9, <1>10, <1>11 DEF CacheInv, FillState
<1> QED
  BY <1>12, <1>13, <1>14 DEF CacheInv

-----------------------------------------------------------------------------
(***************************************************************************)
(* The decode                                                              *)
(***************************************************************************)

\* What the decode of a view finds.
LEMMA AtDecode ==
    ASSUME CacheInv
    PROVE  /\ State \in BaseState /\ State.cells = cells /\ State.slot = slot /\ State.saved = saved
           /\ Sound(cells, slot, saved, batch, at)
           /\ params.n_ctx \in Nat /\ params.n_batch \in Nat \ {0} /\ n_batch \in Nat /\ at \in Nat
           /\ batch \in Seq(BatchRow) /\ Len(batch) \in Nat
<1>1. Sound(cells, slot, saved, batch, at)
  BY DEF CacheInv
<1>2. State \in BaseState /\ State.cells = cells /\ State.slot = slot /\ State.saved = saved
  BY <1>1, SavedOK DEF State, BaseState
<1>3. params.n_ctx \in Nat /\ params.n_batch \in Nat \ {0}
  BY ConfigsAssumption DEF CacheInv, Config
<1> QED
  BY <1>1, <1>2, <1>3, LenProperties DEF CacheInv

LEMMA ViewLemma ==
    ASSUME CacheInv
    PROVE  /\ View \in Seq(BatchRow) /\ Len(View) \in Nat
           /\ Len(View) <= n_batch
           /\ at <= Len(batch) => at + Len(View) <= Len(batch)
           /\ \A k \in 1 .. Len(View) : at + k \in at + 1 .. Len(batch) /\ View[k] = batch[at + k]
<1> DEFINE m == at + 1
           e == Min({at + n_batch, Len(batch)})
           v == SubSeq(batch, m, e)
<1>1. at \in Nat /\ n_batch \in Nat /\ Len(batch) \in Nat /\ batch \in Seq(BatchRow)
  BY AtDecode
<1>2. e \in Nat /\ e <= at + n_batch /\ e <= Len(batch) /\ m \in Nat /\ m = at + 1
      /\ (e = at + n_batch \/ e = Len(batch))
  <2> DEFINE p == at + n_batch
             l == Len(batch)
  <2>1. p \in Int /\ l \in Int /\ p \in Nat
    BY <1>1
  <2>2. Min({p, l}) = IF p <= l THEN p ELSE l
    <3> HIDE DEF p, l
    <3> QED
      BY <2>1, MinOfTwo
  <2> QED
    BY <1>1, <2>2
<1>3. View = v
  BY DEF View
<1> HIDE DEF m, e
<1>4. /\ v \in Seq(BatchRow) /\ Len(v) = IF m <= e THEN e - m + 1 ELSE 0
      /\ \A i \in 1 .. e - m + 1 : v[i] = batch[m + i - 1]
  <2>1. \A i \in m .. e : batch[i] \in BatchRow
    <3>1. \A i \in m .. e : i \in 1 .. Len(batch)
      BY <1>1, <1>2
    <3> QED
      BY <1>1, <3>1, ElementOfSeq
  <2> QED
    BY <1>2, <2>1, SubSeqProperties
<1> HIDE DEF v
<1>5. \A k \in 1 .. Len(v) : at + k \in at + 1 .. Len(batch) /\ v[k] = batch[at + k]
  <2> SUFFICES ASSUME NEW k \in 1 .. Len(v) PROVE at + k \in at + 1 .. Len(batch) /\ v[k] = batch[at + k]
    OBVIOUS
  <2>1. k \in 1 .. e - m + 1 /\ m + k - 1 = at + k /\ at + k \in at + 1 .. Len(batch)
    BY <1>1, <1>2, <1>4
  <2>2. v[k] = batch[m + k - 1]
    BY <1>4, <2>1
  <2> QED
    BY <2>1, <2>2
<1>6. Len(v) \in Nat /\ Len(v) <= n_batch /\ (at <= Len(batch) => at + Len(v) <= Len(batch))
  BY <1>1, <1>2, <1>4
<1> QED
  BY <1>3, <1>4, <1>5, <1>6
\* A view that has room: its rows get cells, and no longer wait.
LEMMA PlacedSound ==
    ASSUME CacheInv, RoomForView
    PROVE  /\ Place(cells, View) \in [Cells -> Cell]
           /\ Sound(Place(cells, View), slot, saved, batch, at + Len(View))
<1> DEFINE new == Place(cells, View)
           n == Len(View)
           h == at + n
<1>1. /\ cells \in [Cells -> Cell] /\ slot \in [Slots -> Slot]
      /\ params.n_ctx \in Nat /\ at \in Nat /\ Len(batch) \in Nat /\ batch \in Seq(BatchRow)
      /\ Typed(cells, slot, saved)
  BY AtDecode, SavedOK DEF Sound
<1>2. /\ View \in Seq(BatchRow) /\ n \in Nat
      /\ \A k \in 1 .. n : at + k \in at + 1 .. Len(batch) /\ View[k] = batch[at + k]
  BY ViewLemma
<1>3. n <= Cardinality(Free(cells))
  BY DEF RoomForView
<1>4. /\ new \in [Cells -> Cell]
      /\ \E f \in [1 .. n -> Cells] :
            /\ \A j, k \in 1 .. n : f[j] = f[k] => j = k
            /\ \A k \in 1 .. n : cells[f[k]] = Empty /\ new[f[k]] = NewCell(View[k])
            /\ \A i \in Cells : (\A k \in 1 .. n : f[k] # i) => new[i] = cells[i]
  BY <1>1, <1>2, <1>3, PlaceLemma
<1> HIDE DEF new, n
<1>5. PICK f \in [1 .. n -> Cells] :
            /\ \A j, k \in 1 .. n : f[j] = f[k] => j = k
            /\ \A k \in 1 .. n : cells[f[k]] = Empty /\ new[f[k]] = NewCell(View[k])
            /\ \A i \in Cells : (\A k \in 1 .. n : f[k] # i) => new[i] = cells[i]
  BY <1>4
<1>6. ASSUME NEW k \in at + 1 .. Len(batch)
      PROVE  RowOK(cells, slot, batch, at, k)
  BY AtDecode DEF Sound, RowsSound
<1>7. ASSUME NEW i \in Cells, NEW s, s \in new[i].seqs
      PROVE  \/ new[i] = cells[i]
             \/ \E k \in 1 .. n : f[k] = i /\ batch[at + k].slot = s /\ new[i].pos = batch[at + k].pos
  <2>1. CASE \A k \in 1 .. n : f[k] # i
    BY <1>5, <2>1
  <2>2. CASE \E k \in 1 .. n : f[k] = i
    <3>1. PICK k \in 1 .. n : f[k] = i
      BY <2>2
    <3>2. new[i] = NewCell(batch[at + k])
      BY <1>2, <1>5, <3>1
    <3>3. batch[at + k].slot = s /\ new[i].pos = batch[at + k].pos
      BY <1>7, <3>2 DEF NewCell
    <3> QED
      BY <3>1, <3>3
  <2> QED
    BY <2>1, <2>2
<1>8. ASSUME NEW i \in Cells, cells[i].seqs # {}
      PROVE  new[i] = cells[i]
  <2>1. \A k \in 1 .. n : f[k] # i
    BY <1>5, <1>8 DEF Empty
  <2> QED
    BY <1>5, <2>1
<1>9. h \in Nat /\ \A k \in 1 .. n : at + k \in at + 1 .. Len(batch) /\ at + k <= h
  BY <1>1, <1>2
<1>10. ASSUME NEW s \in Slots
       PROVE  SlotSound(new, slot, batch, h, s)
  <2> DEFINE x == slot[s]
             toks == x.toks
  <2>1. SlotSound(cells, slot, batch, at, s) /\ toks \in Seq(Tok)
    BY <1>1, AtDecode DEF Sound, Slot
  <2>2. Busy(x)
    BY <2>1 DEF SlotSound
  <2>3. \A k \in 1 .. n : batch[at + k].slot = s => batch[at + k].pos + 1 \in DOMAIN toks
    BY <1>6, <1>9 DEF RowOK
  <2>4. Believes(new, toks, s, batch, h)
    <3> SUFFICES ASSUME NEW k \in DOMAIN toks
                 PROVE  Waits(batch, h, s, k - 1) \/ Has(new, s, k - 1, toks[k])
      BY DEF Believes
    <3>0. k \in Nat
      BY <2>1, LenProperties
    <3>1. CASE Waits(batch, at, s, k - 1)
      <4>1. PICK j \in at + 1 .. Len(batch) : batch[j].slot = s /\ batch[j].pos = k - 1
        BY <3>1 DEF Waits
      <4>2. CASE j > h
        <5>1. j \in h + 1 .. Len(batch)
          BY <1>1, <1>9, <4>1, <4>2
        <5> QED
          BY <4>1, <5>1 DEF Waits
      <4>3. CASE ~(j > h)
        <5> DEFINE l == j - at
        <5>1. l \in 1 .. n /\ at + l = j
          BY <1>1, <1>2, <1>9, <4>1, <4>3
        <5> HIDE DEF l
        <5>2. new[f[l]] = NewCell(batch[j]) /\ f[l] \in Cells
          BY <1>2, <1>5, <5>1
        <5>3. RowOK(cells, slot, batch, at, j)
          BY <1>6, <4>1
        <5>4. batch[j].tok = toks[k]
          <6>1. batch[j].pos + 1 = k
            BY <3>0, <4>1
          <6> QED
            BY <4>1, <5>3, <6>1 DEF RowOK
        <5>5. s \in new[f[l]].seqs /\ new[f[l]].pos = k - 1 /\ new[f[l]].tok = toks[k]
          BY <4>1, <5>2, <5>4 DEF NewCell
        <5>6. ASSUME NEW i \in Cells, s \in new[i].seqs, new[i].pos = k - 1
              PROVE  i = f[l]
          <6>1. new[i] # cells[i]
            <7>1. \A c \in Cells : s \in cells[c].seqs => cells[c].pos # k - 1
              BY <1>1, <4>1, <5>3 DEF RowOK
            <7> QED
              BY <5>6, <7>1
          <6>2. PICK m \in 1 .. n : f[m] = i /\ batch[at + m].slot = s /\ new[i].pos = batch[at + m].pos
            BY <1>7, <5>6, <6>1
          <6>3. at + m = j
            <7>1. at + m \in at + 1 .. Len(batch) /\ batch[at + m].slot = s /\ batch[at + m].pos = k - 1
              BY <1>9, <5>6, <6>2
            <7> QED
              BY <4>1, <5>3, <7>1 DEF RowOK
          <6>4. m = l
            BY <1>1, <1>2, <5>1, <6>3
          <6> QED
            BY <6>2, <6>4
        <5> QED
          BY <1>4, <5>2, <5>5, <5>6 DEF Has, Lone
      <4> QED
        BY <4>2, <4>3
    <3>2. CASE Has(cells, s, k - 1, toks[k])
      <4>1. PICK i \in Cells : Lone(cells, i, s, k - 1, toks[k])
        BY <1>1, <3>2 DEF Has
      <4>2. new[i] = cells[i]
        BY <1>8, <4>1 DEF Lone
      <4>3. ASSUME NEW j \in Cells, s \in new[j].seqs, new[j].pos = k - 1
            PROVE  j = i
        <5>1. new[j] = cells[j]
          <6> SUFFICES ASSUME new[j] # cells[j] PROVE FALSE
            OBVIOUS
          <6>1. PICK m \in 1 .. n : f[m] = j /\ batch[at + m].slot = s /\ new[j].pos = batch[at + m].pos
            BY <1>7, <4>3
          <6>2. RowOK(cells, slot, batch, at, at + m)
            BY <1>6, <1>9
          <6>3. batch[at + m].pos = k - 1
            BY <4>3, <6>1
          <6> QED
            BY <1>1, <4>1, <6>1, <6>2, <6>3 DEF RowOK, Lone
        <5> QED
          BY <1>1, <4>1, <4>3, <5>1 DEF Lone
      <4> QED
        BY <1>4, <4>1, <4>2, <4>3 DEF Has, Lone
    <3> QED
      BY <2>1, <3>1, <3>2 DEF SlotSound, Believes
  <2>5. Ends(new, x, s)
    <3> SUFFICES ASSUME x.st \in {"DONE_PROMPT", "GENERATING"}, NEW i \in Cells, s \in new[i].seqs
                 PROVE  new[i].pos < Len(toks)
      BY <1>4 DEF Ends
    <3>1. CASE new[i] = cells[i]
      BY <1>1, <2>1, <3>1 DEF SlotSound, Ends
    <3>2. CASE \E k \in 1 .. n : f[k] = i /\ batch[at + k].slot = s /\ new[i].pos = batch[at + k].pos
      <4>1. PICK k \in 1 .. n : batch[at + k].slot = s /\ new[i].pos = batch[at + k].pos
        BY <3>2
      <4>2. new[i].pos + 1 \in DOMAIN toks
        BY <2>3, <4>1
      <4>3. new[i] \in Owned
        BY <1>4, CellLemma
      <4>4. new[i].pos \in Nat /\ Len(toks) \in Nat /\ DOMAIN toks = 1 .. Len(toks)
        BY <2>1, <4>3, LenProperties DEF Owned
      <4> HIDE DEF toks
      <4> QED
        BY <4>2, <4>4
    <3> QED
      BY <1>7, <3>1, <3>2
  <2> HIDE DEF x
  <2> QED
    BY <2>2, <2>4, <2>5 DEF SlotSound, x
<1>11. ASSUME NEW k \in h + 1 .. Len(batch)
       PROVE  RowOK(new, slot, batch, h, k)
  <2>1. k \in at + 1 .. Len(batch) /\ k > h
    BY <1>1, <1>2, <1>9
  <2>2. RowOK(cells, slot, batch, at, k)
    BY <1>6, <2>1
  <2>3. \A j \in h + 1 .. Len(batch) : j \in at + 1 .. Len(batch)
    BY <1>1, <1>2, <1>9
  <2> DEFINE s == batch[k].slot
             p == batch[k].pos
  <2>4. \A i \in DOMAIN new : s \in new[i].seqs => new[i].pos # p
    <3> SUFFICES ASSUME NEW i \in Cells, s \in new[i].seqs, new[i].pos = p PROVE FALSE
      BY <1>4
    <3>1. new[i] # cells[i]
      BY <1>1, <2>2 DEF RowOK
    <3>2. PICK m \in 1 .. n : f[m] = i /\ batch[at + m].slot = s /\ new[i].pos = batch[at + m].pos
      BY <1>7, <3>1
    <3>3. at + m = k
      BY <1>9, <2>2, <3>2 DEF RowOK
    <3>4. at + m <= h
      BY <1>9
    <3> QED
      BY <1>9, <2>1, <3>3, <3>4
  <2>5. \A j \in h + 1 .. Len(batch) : batch[j].slot = s /\ batch[j].pos = p => j = k
    BY <2>2, <2>3 DEF RowOK
  <2>6. /\ p + 1 \in DOMAIN slot[s].toks /\ slot[s].toks[p + 1] = batch[k].tok
        /\ slot[s].st \in {"PROCESSING_PROMPT", "DONE_PROMPT", "GENERATING"}
        /\ slot[s].st # "PROCESSING_PROMPT" => k <= slot[s].i_batch + 1
    BY <2>2 DEF RowOK
  <2> HIDE DEF h
  <2> QED
    BY <2>4, <2>5, <2>6 DEF RowOK
<1>12. Sound(new, slot, saved, batch, h)
  <2> HIDE DEF h
  <2>1. Typed(new, slot, saved)
    BY <1>1, <1>4 DEF Typed
  <2> QED
    BY <1>10, <1>11, <2>1 DEF Sound, RowsSound
<1> QED
  BY <1>4, <1>12 DEF new, n

\* Nothing waits after the last view.
LEMMA BatchDone ==
    ASSUME NEW kv, NEW sl, NEW sv, NEW q, Len(q) \in Nat, Sound(kv, sl, sv, q, Len(q))
    PROVE  Sound(kv, sl, sv, <<>>, 0)
<1>1. \A s, p : ~Waits(q, Len(q), s, p)
  BY DEF Waits
<1>2. ASSUME NEW s \in Slots
      PROVE  SlotSound(kv, sl, <<>>, 0, s)
  <2>1. SlotSound(kv, sl, q, Len(q), s)
    BY DEF Sound
  <2> QED
    BY <1>1, <2>1, AloneSound DEF SlotSound, Believes
<1>3. RowsSound(kv, sl, <<>>, 0)
  <2>1. Len(<<>>) = 0
    BY EmptySeq
  <2> QED
    BY <2>1 DEF RowsSound
<1> QED
  BY <1>2, <1>3 DEF Sound
\* There are no children to activate.
LEMMA ActivateTurn ==
    ASSUME NEW s \in Slots, NEW S, NEW j, NEW k, ViewGood(S, j)
    PROVE  \A T \in ActivateChildren(S, s) : ViewGood(T, k)
<1>1. Busy(S.slot[s])
  BY SavedOK DEF ViewGood
<1>2. S.slot[s].st = "DONE_PROMPT" => ~IsParent(S, s)
  <2> SUFFICES ASSUME S.slot[s].st = "DONE_PROMPT" PROVE ~IsParent(S, s)
    OBVIOUS
  <2>1. S.slot[s].task \in Task
    BY <1>1 DEF Busy
  <2>2. S.slot[s].task.children = 0
    BY <2>1 DEF Task
  <2> QED
    BY <2>2 DEF IsParent
<1>3. ActivateChildren(S, s) = {S}
  BY <1>2 DEF ActivateChildren
<1> QED
  BY <1>3 DEF ViewGood

\* SampleSlot(S, s): the next token of the slot, or its end.
LEMMA SampleTurn ==
    ASSUME CacheInv, NEW s \in Slots, NEW S, NEW j, NEW k, ViewGood(S, j)
    PROVE  \A T \in SampleSlot(S, s) : ViewGood(T, k)
<1> DEFINE h == at + Len(View)
           x == S.slot[s]
<1>1. S \in BaseState /\ Sound(S.cells, S.slot, S.saved, batch, h)
  BY DEF ViewGood
<1>2. /\ S.cells \in [Cells -> Cell] /\ S.slot \in [Slots -> Slot]
      /\ \A t \in Slots : Busy(S.slot[t])
      /\ SlotSound(S.cells, S.slot, batch, h, s)
  BY <1>1, SavedOK
<1>3. h \in Nat /\ Len(batch) \in Nat /\ batch \in Seq(BatchRow)
  BY AtDecode, ViewLemma
<1>4. CASE ~InView(S, s) \/ x.st \notin {"DONE_PROMPT", "GENERATING"}
  <2>1. SampleSlot(S, s) = {S}
    BY <1>4 DEF SampleSlot
  <2> QED
    BY <2>1 DEF ViewGood
<1>5. CASE InView(S, s) /\ x.st \in {"DONE_PROMPT", "GENERATING"}
  <2> HIDE DEF h
  <2>1. \A i \in h + 1 .. Len(batch) : batch[i].slot # s
    <3> SUFFICES ASSUME NEW i \in h + 1 .. Len(batch), batch[i].slot = s PROVE FALSE
      OBVIOUS
    <3>1. RowOK(S.cells, S.slot, batch, h, i)
      BY <1>1 DEF Sound, RowsSound
    <3>2. i <= x.i_batch + 1
      BY <1>5, <3>1 DEF RowOK
    <3>3. x.i_batch \in Int /\ x.i_batch < h
      BY <1>2, <1>5 DEF Slot, InView, h
    <3> QED
      BY <1>3, <3>2, <3>3
  <2>2. \A t \in Slots \ {s} : Same(S.cells, S.cells, t)
    BY DEF Same
  <2>3. ASSUME NEW y \in Slot, SlotSound(S.cells, [S.slot EXCEPT ![s] = y], batch, h, s),
               NEW T, Changes(S, T, s, S.cells, y)
        PROVE  ViewGood(T, k)
    <3>1. Sound(S.cells, [S.slot EXCEPT ![s] = y], S.saved, batch, h)
      BY <1>1, <1>2, <1>3, <2>1, <2>2, <2>3, OneSlotNoRows
    <3>2. T \in BaseState /\ T.cells = S.cells /\ T.slot = [S.slot EXCEPT ![s] = y] /\ T.saved = S.saved
      BY <1>1, <2>3 DEF Changes
    <3> QED
      BY <3>1, <3>2 DEF ViewGood, h
  <2>4. ViewGood(Release(S, s), k)
    <3> DEFINE y == Freed(x)
               R == Release(S, s)
    <3>1. Changes(S, R, s, S.cells, y)
      BY <1>1, <1>2, <1>5, ReleaseLemma
    <3>2. SlotSound(S.cells, [S.slot EXCEPT ![s] = y], batch, h, s)
      BY <1>2, <1>5, ReleasedSound
    <3>3. y \in Slot
      BY <1>2, FreedSlot
    <3> HIDE DEF y, R
    <3>4. ViewGood(R, k)
      BY <2>3, <3>1, <3>2, <3>3
    <3> QED
      BY <3>4 DEF R
  <2>5. ASSUME NEW tok \in params.samples
        PROVE  LET left == IF S.slot[s].task.left = Unlimited THEN Unlimited ELSE S.slot[s].task.left - 1
               IN  ViewGood([S EXCEPT !.slot[s] = [@ EXCEPT !.st = "GENERATING", !.sampled = tok, !.i_batch = -1,
                                                            !.task.left = left]], k)
    <3> DEFINE left == IF S.slot[s].task.left = Unlimited THEN Unlimited ELSE S.slot[s].task.left - 1
               task == [x.task EXCEPT !.left = left]
               y1 == [x EXCEPT !.st = "GENERATING"]
               y2 == [y1 EXCEPT !.sampled = tok]
               y3 == [y2 EXCEPT !.i_batch = -1]
               y == [y3 EXCEPT !.task = task]
               T == [S EXCEPT !.cells = S.cells, !.slot = [S.slot EXCEPT ![s] = y]]
               U == [S EXCEPT !.slot[s] = [@ EXCEPT !.st = "GENERATING", !.sampled = tok, !.i_batch = -1,
                                                    !.task.left = left]]
    <3>1. x \in Slot /\ x.task \in Task /\ \E r \in params.requests : r.kind = x.task.kind
      BY <1>2, <1>5 DEF Busy
    <3>2. tok \in Tok
      BY ConfigsAssumption DEF CacheInv, Config
    <3>3. left \in Int
      <4>1. x.task.left \in Int
        BY <3>1 DEF Task
      <4> QED
        BY <4>1 DEF Unlimited
    <3> HIDE DEF left
    <3>4. task \in Task /\ task.kind = x.task.kind
      BY <3>1, <3>3 DEF Task
    <3>5. y1 \in Slot /\ y1.st = "GENERATING" /\ y1.toks = x.toks
      BY <3>1 DEF Slot, States
    <3>6. [x EXCEPT !.st = "GENERATING", !.sampled = tok, !.i_batch = -1, !.task.left = left] = y
      <4>1. y3.task = x.task
        BY <3>1 DEF Slot
      <4> QED
        BY <3>1, <4>1 DEF Slot
    <3> HIDE DEF y1, task
    <3>7. y2 \in Slot /\ y2.st = "GENERATING" /\ y2.sampled = tok /\ y2.toks = x.toks
      BY <3>2, <3>5 DEF Slot
    <3> HIDE DEF y2
    <3>8. y3 \in Slot /\ y3.st = "GENERATING" /\ y3.sampled = tok /\ y3.toks = x.toks
      BY <3>7 DEF Slot
    <3> HIDE DEF y3
    <3>9. y \in Slot /\ y.st = "GENERATING" /\ y.sampled = tok /\ y.toks = x.toks /\ y.task = task
      BY <3>4, <3>8 DEF Slot
    <3> HIDE DEF y
    <3>10. Busy(y)
      BY <3>1, <3>2, <3>4, <3>9 DEF Busy
    <3>11. Believes(S.cells, y.toks, s, batch, h)
      BY <1>2, <3>9 DEF SlotSound
    <3>12. Ends(S.cells, y, s)
      BY <1>2, <1>5, <3>9 DEF SlotSound, Ends
    <3> DEFINE sl2 == [S.slot EXCEPT ![s] = y]
    <3>13. SlotSound(S.cells, sl2, batch, h, s)
      <4>1. sl2[s] = y
        BY <1>2
      <4> HIDE DEF sl2
      <4> QED
        BY <3>10, <3>11, <3>12, <4>1 DEF SlotSound
    <3>14. Changes(S, T, s, S.cells, y)
      BY <1>1, <1>2, <3>9, ChangedLemma
    <3>15. U = T
      <4> DEFINE z == [x EXCEPT !.st = "GENERATING", !.sampled = tok, !.i_batch = -1, !.task.left = left]
      <4>1. U = [S EXCEPT !.slot = [S.slot EXCEPT ![s] = z]]
        OBVIOUS
      <4>2. z = y
        BY <3>6
      <4>3. U = [S EXCEPT !.slot = sl2]
        BY <4>1, <4>2
      <4> HIDE DEF z, U, sl2
      <4>4. [S EXCEPT !.slot = sl2] = [S EXCEPT !.cells = S.cells, !.slot = sl2]
        BY <1>1 DEF BaseState
      <4> QED
        BY <4>3, <4>4 DEF sl2
    <3> HIDE DEF T
    <3>16. ViewGood(T, k)
      BY <2>3, <3>9, <3>13, <3>14
    <3> HIDE DEF U
    <3>17. ViewGood(U, k)
      BY <3>15, <3>16
    <3> QED
      BY <3>17 DEF U, left
  <2>6. ASSUME NEW T \in SampleSlot(S, s)
        PROVE  ViewGood(T, k)
    <3>1. CASE T = Release(S, s)
      BY <2>4, <3>1
    <3>2. CASE T # Release(S, s)
      <4>1. \E tok \in params.samples :
              T = LET left == IF S.slot[s].task.left = Unlimited THEN Unlimited ELSE S.slot[s].task.left - 1
                  IN  [S EXCEPT !.slot[s] = [@ EXCEPT !.st = "GENERATING", !.sampled = tok, !.i_batch = -1,
                                                      !.task.left = left]]
        BY <1>5, <2>6, <3>2 DEF SampleSlot
      <4> QED
        BY <2>5, <4>1
    <3> QED
      BY <3>1, <3>2
  <2> QED
    BY <2>6
<1> QED
  BY <1>4, <1>5

LEMMA DecodeOkStep ==
    ASSUME CacheInv, DecodeOk
    PROVE  CacheInv'
<1> DEFINE h == at + Len(View)
           P == [State EXCEPT !.cells = Place(@, View)]
           X0 == {P}
           X1 == Each(ActivateChildren, X0)
           X2 == Each(SampleSlot, X1)
<1>1. /\ State \in BaseState /\ State.cells = cells /\ State.slot = slot /\ State.saved = saved
      /\ params.n_batch \in Nat \ {0} /\ batch \in Seq(BatchRow) /\ Len(batch) \in Nat /\ at \in Nat
  BY AtDecode
<1>2. Len(View) \in Nat /\ h \in Nat
  BY <1>1, ViewLemma
<1>3. ViewGood(P, 0)
  <2> DEFINE new == Place(cells, View)
  <2>1. new \in [Cells -> Cell] /\ Sound(new, slot, saved, batch, at + Len(View))
    BY PlacedSound DEF DecodeOk
  <2>2. P = [State EXCEPT !.cells = new]
    BY <1>1
  <2> HIDE DEF new, P
  <2>3. P \in BaseState /\ P.cells = new /\ P.slot = slot /\ P.saved = saved
    BY <1>1, <2>1, <2>2 DEF BaseState
  <2> QED
    BY <2>1, <2>3 DEF ViewGood
<1>4. \A S \in X0 : ViewGood(S, 0)
  BY <1>3
<1>5. \A S \in X1 : ViewGood(S, NSlots)
  <2>1. X1 = ActivateLoop!After(0, X0)
    BY DEF Each, ActivateLoop!After
  <2>2. \A s \in 1 .. NSlots : \A R : ViewGood(R, s - 1) => \A T \in ActivateChildren(R, s) : ViewGood(T, s)
    BY ActivateTurn DEF Slots
  <2> HIDE DEF X0, X1
  <2> QED
    BY <1>4, <2>1, <2>2, NSlotsAssumption, ActivateLoop!LoopRule
<1> HIDE DEF X0, X1
<1>6. \A S \in X1 : ViewGood(S, 0)
  BY <1>5 DEF ViewGood
<1>7. \A S \in X2 : ViewGood(S, NSlots)
  <2>1. X2 = SampleLoop!After(0, X1)
    BY DEF Each, SampleLoop!After
  <2>2. \A s \in 1 .. NSlots : \A R : ViewGood(R, s - 1) => \A T \in SampleSlot(R, s) : ViewGood(T, s)
    BY SampleTurn DEF Slots
  <2> HIDE DEF X2
  <2> QED
    BY <1>6, <2>1, <2>2, NSlotsAssumption, SampleLoop!LoopRule
<1>8. PICK F \in X2 : Take(F)
  BY DEF DecodeOk, X1, X0
<1> HIDE DEF X2, P
<1>9. Sound(F.cells, F.slot, F.saved, batch, h)
  BY <1>7, <1>8 DEF ViewGood
<1> HIDE DEF h
<1>10. params' = params /\ file' = file
  BY DEF DecodeOk
<1>11. (file # NoFile => file \in Entry /\ EntryOK(file))'
  BY <1>10 DEF CacheInv, EntryOK
<1>12. CASE h = Len(batch)
  <2>1. batch' = <<>> /\ at' = 0 /\ n_batch' = params.n_batch
    BY <1>12 DEF DecodeOk, BatchEnds, h
  <2>2. Sound(F.cells, F.slot, F.saved, <<>>, 0)
    BY <1>1, <1>9, <1>12, BatchDone
  <2>3. Sound(cells, slot, saved, batch, at)'
    BY <1>8, <1>10, <2>1, <2>2, SoundPrime DEF Take
  <2>4. batch' \in Seq(BatchRow)
    BY <2>1, EmptySeq
  <2> QED
    BY <1>1, <1>10, <1>11, <2>1, <2>3, <2>4 DEF CacheInv
<1>13. CASE h # Len(batch)
  <2>1. batch' = batch /\ at' = h /\ n_batch' = params.n_batch /\ phase' = phase /\ phase = "decode"
    BY <1>13 DEF DecodeOk, Decoding, h
  <2>2. Sound(cells, slot, saved, batch, at)'
    BY <1>8, <1>9, <1>10, <2>1, SoundPrime DEF Take
  <2> QED
    BY <1>1, <1>2, <1>10, <1>11, <2>1, <2>2 DEF CacheInv
<1> QED
  BY <1>12, <1>13

\* FailSlot(S, s): the slot gets the error and loses its prompt.
LEMMA FailTurn ==
    ASSUME NEW s \in Slots, NEW S, FailGood(S, s - 1)
    PROVE  \A T \in FailSlot(S, s) : FailGood(T, s)
<1>1. /\ S \in BaseState /\ S.cells \in [Cells -> Cell] /\ S.slot \in [Slots -> Slot]
      /\ \A i \in DOMAIN S.saved : EntryOK(S.saved[i])
      /\ \A t \in Slots : Busy(S.slot[t])
  BY SlotFields DEF FailGood
<1>2. \A t \in Slots : /\ t <= s - 1 => S.slot[t].st = "IDLE"
                       /\ S.slot[t].st = "IDLE" => SlotSound(S.cells, S.slot, <<>>, 0, t)
  BY DEF FailGood
<1>3. \A t \in Slots : t <= s => t <= s - 1 \/ t = s
  BY NSlotsAssumption DEF Slots
<1>4. CASE ~Processing(S, s)
  <2>1. FailSlot(S, s) = {S}
    BY <1>4 DEF FailSlot
  <2>2. \A t \in Slots : t <= s => S.slot[t].st = "IDLE"
    BY <1>2, <1>3, <1>4 DEF Processing
  <2>3. FailGood(S, s)
    BY <1>1, <1>2, <2>2 DEF FailGood
  <2> QED
    BY <2>1, <2>3
<1>5. CASE Processing(S, s)
  <2> DEFINE R == Release(S, s)
             x == Freed(S.slot[s])
             sl == [S.slot EXCEPT ![s] = x]
             T == PromptClear(R, s)
             kv2 == SeqRm(S.cells, s, 0, End)
             sl2 == [S.slot EXCEPT ![s] = Cleared(x)]
  <2>1. FailSlot(S, s) = {T}
    BY <1>5 DEF FailSlot
  <2>2. Changes(S, R, s, S.cells, x)
    BY <1>1, <1>5, ReleaseLemma DEF Processing
  <2>3. x \in Slot /\ Busy(x) /\ x.st = "IDLE" /\ Cleared(x) \in Slot /\ Cleared(x).st = "IDLE" /\ Busy(Cleared(x))
    <3>1. x \in Slot /\ Cleared(x) \in Slot
      BY <1>1, FreedSlot
    <3>2. x.st = "IDLE" /\ x.task = NoTask
      BY <1>1 DEF Freed, Slot
    <3> HIDE DEF x
    <3>3. Cleared(x).st = "IDLE" /\ Cleared(x).task = NoTask
      BY <3>1, <3>2 DEF Cleared, Slot
    <3> QED
      BY <3>1, <3>2, <3>3 DEF Busy
  <2> HIDE DEF x
  <2>4. R \in BaseState /\ R.cells = S.cells /\ R.slot = sl /\ R.saved = S.saved
    BY <1>1, <2>2 DEF Changes
  <2> HIDE DEF R
  <2>5. /\ T \in BaseState /\ T.cells = kv2 /\ T.slot = [sl EXCEPT ![s] = Cleared(sl[s])] /\ T.saved = S.saved
    BY <2>4, ClearLemma DEF Changes
  <2>6. sl[s] = x /\ sl \in [Slots -> Slot] /\ [sl EXCEPT ![s] = Cleared(sl[s])] = sl2
    BY <1>1, <2>3
  <2> HIDE DEF T
  <2>7. SlotSound(kv2, sl2, <<>>, 0, s)
    <3> HIDE DEF sl, sl2, kv2
    <3>1. SlotSound(SeqRm(S.cells, s, 0, End), [sl EXCEPT ![s] = Cleared(sl[s])], <<>>, 0, s)
      BY <1>1, <2>3, <2>6, ClearedSound
    <3> QED
      BY <2>6, <3>1 DEF kv2
  <2>8. /\ kv2 \in [Cells -> Cell]
        /\ \A t \in Slots \ {s} : Same(S.cells, kv2, t)
    BY <1>1, SeqRmLemma
  <2>9. sl2[s] = Cleared(x) /\ \A t \in Slots \ {s} : sl2[t] = S.slot[t]
    BY <1>1
  <2> HIDE DEF sl, sl2, kv2
  <2>10. ASSUME NEW t \in Slots
         PROVE  /\ Busy(sl2[t])
                /\ t <= s => sl2[t].st = "IDLE"
                /\ sl2[t].st = "IDLE" => SlotSound(kv2, sl2, <<>>, 0, t)
    <3>1. CASE t = s
      BY <2>3, <2>7, <2>9, <3>1
    <3>2. CASE t # s
      <4>1. sl2[t] = S.slot[t] /\ Same(S.cells, kv2, t)
        BY <2>8, <2>9, <3>2
      <4>2. ASSUME sl2[t].st = "IDLE" PROVE SlotSound(kv2, sl2, <<>>, 0, t)
        BY <1>1, <1>2, <2>8, <4>1, <4>2, OtherSlot
      <4> QED
        BY <1>1, <1>2, <1>3, <3>2, <4>1, <4>2
    <3> QED
      BY <3>1, <3>2
  <2>11. FailGood(T, s)
    BY <1>1, <2>5, <2>6, <2>10 DEF FailGood
  <2> QED
    BY <2>1, <2>11
<1> QED
  BY <1>4, <1>5

LEMMA FailAllStep ==
    ASSUME CacheInv, FailAll
    PROVE  CacheInv'
<1> DEFINE X0 == {State}
           X1 == Each(FailSlot, X0)
<1>1. /\ State \in BaseState /\ State.cells = cells /\ State.slot = slot /\ State.saved = saved
      /\ Sound(cells, slot, saved, batch, at)
      /\ params.n_batch \in Nat \ {0}
  BY AtDecode
<1>2. FailGood(State, 0)
  <2>1. cells \in [Cells -> Cell] /\ \A t \in Slots : SlotSound(cells, slot, batch, at, t) /\ Busy(slot[t])
    BY <1>1, SavedOK
  <2>2. ASSUME NEW t \in Slots, slot[t].st = "IDLE"
        PROVE  SlotSound(cells, slot, <<>>, 0, t)
    <3>1. \A p : ~Waits(batch, at, t, p)
      BY <1>1, <2>2, NoRowsOf
    <3>2. Same(cells, cells, t)
      BY DEF Same
    <3> QED
      BY <2>1, <3>1, <3>2, OtherSlot
  <2>3. \A t \in Slots : ~(t <= 0)
    BY NSlotsAssumption DEF Slots
  <2>4. \A i \in DOMAIN saved : EntryOK(saved[i])
    BY <1>1 DEF Sound, Typed
  <2> QED
    BY <1>1, <2>1, <2>2, <2>3, <2>4 DEF FailGood
<1>3. \A S \in X0 : FailGood(S, 0)
  BY <1>2
<1>4. \A S \in X1 : FailGood(S, NSlots)
  <2>1. X1 = FailLoop!After(0, X0)
    BY DEF Each, FailLoop!After
  <2>2. \A s \in 1 .. NSlots : \A R : FailGood(R, s - 1) => \A T \in FailSlot(R, s) : FailGood(T, s)
    BY FailTurn DEF Slots
  <2> HIDE DEF X0, X1
  <2> QED
    BY <1>3, <2>1, <2>2, NSlotsAssumption, FailLoop!LoopRule
<1>5. PICK F \in X1 : Take(F)
  BY DEF FailAll
<1> HIDE DEF X0, X1
<1>6. Sound(F.cells, F.slot, F.saved, <<>>, 0)
  <2>1. FailGood(F, NSlots)
    BY <1>4
  <2>2. \A t \in Slots : t <= NSlots
    BY NSlotsAssumption DEF Slots
  <2>3. \A t \in Slots : SlotSound(F.cells, F.slot, <<>>, 0, t)
    BY <2>1, <2>2 DEF FailGood
  <2>4. Typed(F.cells, F.slot, F.saved)
    BY <2>1, SlotFields DEF FailGood, Typed
  <2>5. RowsSound(F.cells, F.slot, <<>>, 0)
    <3>1. Len(<<>>) = 0
      BY EmptySeq
    <3> QED
      BY <3>1 DEF RowsSound
  <2> QED
    BY <2>3, <2>4, <2>5 DEF Sound
<1>7. params' = params /\ file' = file /\ batch' = <<>> /\ at' = 0 /\ n_batch' = params.n_batch
  BY DEF FailAll, BatchEnds
<1>8. Sound(cells, slot, saved, batch, at)'
  BY <1>5, <1>6, <1>7, SoundPrime DEF Take
<1>9. (file # NoFile => file \in Entry /\ EntryOK(file))'
  BY <1>7 DEF CacheInv, EntryOK
<1>10. batch' \in Seq(BatchRow)
  BY <1>7, EmptySeq
<1> QED
  BY <1>1, <1>7, <1>8, <1>9, <1>10 DEF CacheInv

LEMMA DecodeRetryStep ==
    ASSUME CacheInv, DecodeRetry
    PROVE  CacheInv'
<1>1. /\ State \in BaseState /\ State.cells = cells /\ State.slot = slot /\ State.saved = saved
      /\ Sound(cells, slot, saved, batch, at)
      /\ batch \in Seq(BatchRow) /\ at \in Nat /\ n_batch \in Nat
  BY AtDecode
<1>2. params' = params /\ file' = file /\ batch' = batch /\ at' = at /\ phase' = phase /\ phase = "decode"
  BY DEF DecodeRetry, Decoding
<1>3. (file # NoFile => file \in Entry /\ EntryOK(file))'
  BY <1>2 DEF CacheInv, EntryOK
<1>4. ASSUME NEW S, Take(S), Sound(S.cells, S.slot, S.saved, batch, at), n_batch' \in Nat
      PROVE  CacheInv'
  <2>1. Sound(cells, slot, saved, batch, at)'
    BY <1>2, <1>4, SoundPrime DEF Take
  <2> QED
    BY <1>1, <1>2, <1>3, <1>4, <2>1 DEF CacheInv
<1>5. CASE Purgeable = {}
  <2>1. Take(State) /\ n_batch' = n_batch \div 2
    BY <1>5 DEF DecodeRetry
  <2>2. n_batch' \in Nat
    BY <1>1, <2>1
  <2> QED
    BY <1>1, <1>4, <2>1, <2>2
<1>6. CASE Purgeable # {}
  <2> DEFINE s == Min(Purgeable)
             T == PromptClear(State, s)
             kv2 == SeqRm(cells, s, 0, End)
             x == Cleared(slot[s])
  <2>1. Take(T) /\ n_batch' = n_batch
    BY <1>6 DEF DecodeRetry
  <2>2. s \in Purgeable /\ s \in Slots /\ slot[s].st = "IDLE"
    <3>1. Purgeable \in SUBSET Slots
      BY DEF Purgeable, Idle
    <3>2. s \in Purgeable
      BY <1>6, <3>1, MinIn
    <3> QED
      BY <1>1, <3>2 DEF Purgeable, Idle, Processing
  <2> HIDE DEF s
  <2>3. /\ cells \in [Cells -> Cell] /\ slot \in [Slots -> Slot]
        /\ \A t \in Slots : Busy(slot[t])
    BY <1>1, SavedOK
  <2>4. x \in Slot
    BY <2>2, <2>3, FreedSlot
  <2>5. T.cells = kv2 /\ T.slot = [slot EXCEPT ![s] = x] /\ T.saved = saved
    BY <1>1, <2>2, ClearLemma DEF Changes
  <2>6. SlotSound(kv2, [slot EXCEPT ![s] = x], batch, at, s)
    BY <2>2, <2>3, ClearedSound
  <2>7. kv2 \in [Cells -> Cell] /\ \A t \in Slots \ {s} : Same(cells, kv2, t)
    BY <2>2, <2>3, SeqRmLemma
  <2>8. \A k \in at + 1 .. Len(batch) : batch[k].slot # s
    <3>1. slot[s].st \notin {"PROCESSING_PROMPT", "DONE_PROMPT", "GENERATING"}
      BY <2>2
    <3> QED
      BY <1>1, <3>1, NoRowsOf
  <2> HIDE DEF x, kv2, T
  <2>9. Sound(kv2, [slot EXCEPT ![s] = x], saved, batch, at)
    BY <1>1, <2>2, <2>4, <2>6, <2>7, <2>8, OneSlotNoRows
  <2> QED
    BY <1>1, <1>4, <2>1, <2>5, <2>9
<1> QED
  BY <1>5, <1>6

-----------------------------------------------------------------------------
(***************************************************************************)
(* The theorems                                                            *)
(***************************************************************************)

LEMMA CacheInit ==
    ASSUME Init
    PROVE  CacheInv
<1>1. /\ params \in Configs /\ params.n_batch \in Nat \ {0} /\ params.n_ctx \in Nat
  BY ConfigsAssumption DEF Init, Config
<1>2. cells \in [Cells -> Cell] /\ \A i \in Cells : cells[i] = Empty
  BY DEF Init, Cell
<1>3. \A s \in Slots : NoCells(cells, s)
  BY <1>2 DEF NoCells, Empty
<1>4. InitSlot \in Slot /\ InitSlot.st = "IDLE" /\ InitSlot.task = NoTask /\ InitSlot.toks = <<>>
  <2> DEFINE none == <<>>
  <2>1. none \in Seq(Tok)
    BY EmptySeq
  <2>2. InitSlot = [st |-> "IDLE", toks |-> none, task |-> NoTask, sampled |-> NoTok, i_batch |-> -1]
    BY DEF InitSlot
  <2> HIDE DEF none
  <2>3. InitSlot \in Slot /\ InitSlot.st = "IDLE" /\ InitSlot.task = NoTask /\ InitSlot.toks = none
    BY <2>1, <2>2 DEF Slot, States
  <2> QED
    BY <2>3 DEF none
<1>5. slot \in [Slots -> Slot] /\ \A s \in Slots : slot[s] = InitSlot
  BY <1>4 DEF Init
<1>6. saved \in Seq(Entry) /\ Len(saved) = 0 /\ DOMAIN saved = {}
  BY EmptySeq DEF Init
<1>7. Typed(cells, slot, saved)
  BY <1>2, <1>5, <1>6 DEF Typed
<1>8. ASSUME NEW s \in Slots PROVE SlotSound(cells, slot, <<>>, 0, s)
  <2>1. DOMAIN slot[s].toks = {}
    BY <1>4, <1>5, EmptySeq
  <2>2. Busy(slot[s]) /\ Ends(cells, slot[s], s)
    BY <1>3, <1>4, <1>5 DEF Busy, Ends
  <2> QED
    BY <2>1, <2>2, AloneSound
<1>9. RowsSound(cells, slot, <<>>, 0)
  <2>1. Len(<<>>) = 0
    BY EmptySeq
  <2> QED
    BY <2>1 DEF RowsSound
<1>10. Sound(cells, slot, saved, batch, at)
  BY <1>7, <1>8, <1>9 DEF Init, Sound
<1>11. batch \in Seq(BatchRow)
  BY EmptySeq DEF Init
<1> QED
  BY <1>1, <1>10, <1>11 DEF Init, CacheInv

LEMMA CacheNext ==
    ASSUME Childless, CacheInv, [Next]_vars
    PROVE  CacheInv'
<1>1. CASE \E r \in params.requests, s \in Slots : Launch(r, s)
  BY <1>1, LaunchStep
<1>2. CASE \E s \in Slots : Cancel(s)
  BY <1>2, CancelStep
<1>3. CASE \E s \in Slots : SlotSave(s)
  BY <1>3, SlotSaveStep
<1>4. CASE \E s \in Slots : SlotErase(s)
  BY <1>4, SlotEraseStep
<1>5. CASE \E s \in Slots : SlotRestore(s)
  BY <1>5, SlotRestoreStep
<1>6. CASE \E s \in Slots : SlotRestoreFails(s)
  BY <1>6, SlotRestoreFailsStep
<1>7. CASE UpdateSlots
  BY <1>7, UpdateSlotsStep
<1>8. CASE DecodeError
  BY <1>8, FailAllStep DEF DecodeError
<1>9. CASE DecodeExceeded
  BY <1>9, FailAllStep DEF DecodeExceeded
<1>10. CASE DecodeRetry
  BY <1>10, DecodeRetryStep
<1>11. CASE DecodeOk
  BY <1>11, DecodeOkStep
<1>12. CASE UNCHANGED vars
  <2>1. /\ params' = params /\ cells' = cells /\ slot' = slot /\ saved' = saved /\ file' = file
        /\ batch' = batch /\ at' = at /\ n_batch' = n_batch /\ phase' = phase
    BY <1>12 DEF vars
  <2>2. Sound(State.cells, State.slot, State.saved, batch, at)
    BY AtDecode
  <2>3. cells' = State.cells /\ slot' = State.slot /\ saved' = State.saved
    BY <2>1, AtDecode
  <2>4. Sound(cells, slot, saved, batch, at)'
    BY <2>1, <2>2, <2>3, SoundPrime
  <2>5. (file # NoFile => file \in Entry /\ EntryOK(file))'
    BY <2>1 DEF CacheInv, EntryOK
  <2> QED
    BY <2>1, <2>4, <2>5 DEF CacheInv
<1> QED
  BY <1>1, <1>2, <1>3, <1>4, <1>5, <1>6, <1>7, <1>8, <1>9, <1>10, <1>11, <1>12 DEF Next

\* What the invariant says of each slot: every token of prompt.tokens has its cell or waits in the batch.
LEMMA CacheMatches ==
    ASSUME CacheInv
    PROVE  KvMatchesPrompt
<1>1. cells \in [Cells -> Cell] /\ slot \in [Slots -> Slot] /\ \A s \in Slots : SlotSound(cells, slot, batch, at, s)
  BY AtDecode, SavedOK
<1>2. DOMAIN cells = Cells
  BY <1>1
<1> SUFFICES ASSUME NEW s \in Slots
             PROVE  /\ \A k \in DOMAIN slot[s].toks :
                          k - 1 \in Pending(s) \/ (/\ Cardinality(CellsAt(s, k - 1)) = 1
                                                 /\ \A i \in CellsAt(s, k - 1) : cells[i].tok = slot[s].toks[k])
                    /\ slot[s].st \in {"DONE_PROMPT", "GENERATING"} =>
                          Positions(cells, s) \subseteq 0 .. Len(slot[s].toks) - 1
  BY DEF KvMatchesPrompt
<1>3. ASSUME NEW k \in DOMAIN slot[s].toks
      PROVE  k - 1 \in Pending(s) \/ (/\ Cardinality(CellsAt(s, k - 1)) = 1
                                    /\ \A i \in CellsAt(s, k - 1) : cells[i].tok = slot[s].toks[k])
  <2> DEFINE p == k - 1
             tok == slot[s].toks[k]
  <2>1. Waits(batch, at, s, p) \/ Has(cells, s, p, tok)
    BY <1>1 DEF SlotSound, Believes
  <2> HIDE DEF p, tok
  <2>2. CASE Waits(batch, at, s, p)
    <3>1. p \in Pending(s)
      BY <2>2 DEF Waits, Pending
    <3> QED
      BY <3>1 DEF p
  <2>3. CASE Has(cells, s, p, tok)
    <3>1. PICK i \in Cells : Lone(cells, i, s, p, tok)
      BY <1>2, <2>3 DEF Has
    <3>2. CellsAt(s, p) = {i}
      BY <1>2, <3>1 DEF Lone, CellsAt
    <3>3. Cardinality(CellsAt(s, p)) = 1
      BY <3>2, FS_Singleton
    <3>4. \A j \in CellsAt(s, p) : cells[j].tok = tok
      BY <3>1, <3>2 DEF Lone
    <3> QED
      BY <3>3, <3>4 DEF p, tok
  <2> QED
    BY <2>1, <2>2, <2>3
<1>4. ASSUME slot[s].st \in {"DONE_PROMPT", "GENERATING"}, NEW p \in Positions(cells, s)
      PROVE  p \in 0 .. Len(slot[s].toks) - 1
  <2>1. PICK i \in Cells : s \in cells[i].seqs /\ cells[i].pos = p
    BY <1>2 DEF Positions
  <2>2. p \in Nat
    BY <1>1, <2>1, CellLemma DEF Owned
  <2>3. p < Len(slot[s].toks)
    BY <1>1, <1>2, <1>4, <2>1 DEF SlotSound, Ends
  <2>4. Len(slot[s].toks) \in Nat
    BY <1>1, LenProperties DEF Slot
  <2> QED
    BY <2>2, <2>3, <2>4
<1> QED
  BY <1>3, <1>4

LEMMA CacheInvHolds ==
    ASSUME Childless
    PROVE  Spec => []CacheInv
<1>1. Init => CacheInv
  BY CacheInit
<1>2. CacheInv /\ [Next]_vars => CacheInv'
  BY CacheNext
<1> QED
  BY <1>1, <1>2, PTL DEF Spec

\* While no request has children, what a slot believes to be in the cache is there, whatever faults occur.
THEOREM KvMatchesPromptHolds ==
    ASSUME Childless
    PROVE  Spec => []KvMatchesPrompt
<1>1. CacheInv => KvMatchesPrompt
  BY CacheMatches
<1> QED
  BY <1>1, CacheInvHolds, PTL

-----------------------------------------------------------------------------
(***************************************************************************)
(* NoNeedlessExhaustion, with any children: the invariant.  Cells may have *)
(* several owners, and nothing is said of the tokens in them.              *)
(***************************************************************************)

AnyTok == Tok \cup {NoTok}
RoomSlot == [st : States \cup {"WAIT_OTHER"}, toks : Seq(AnyTok), task : ServerTask \cup {NoTask},
             sampled : AnyTok, i_batch : Int]
Shared == [pos : Nat, tok : AnyTok, seqs : (SUBSET Slots) \ {{}}]
RoomCell == Shared \cup {Empty}
RoomRow == [slot : Slots, pos : Nat, tok : AnyTok]
RoomSaved == [pos : Nat, tok : AnyTok]
RoomEntry == {e \in [toks : Seq(AnyTok), rows : Seq(RoomSaved)] : e.toks = <<>> => e.rows = <<>>}

\* neither a parent nor a child: its context may be shifted
Plain(x) == x.task # NoTask => x.task.children = 0 /\ ~x.task.child

\* an embedding that waits for a batch has forgotten its tokens and not yet its cells
Waiting(x) == x.st = "PROCESSING_PROMPT" /\ x.task.kind = "embedding"
Roomy(kv, x, s) ==
    /\ x.st # "IDLE" => x.task \in ServerTask /\ \E r \in params.requests : r.kind = x.task.kind
    /\ x.st = "WAIT_OTHER" => ~Plain(x)
    /\ x.st = "PROCESSING_PROMPT" => Len(x.toks) <= Len(x.task.prompt)
    /\ x.toks = <<>> /\ ~Waiting(x) => NoCells(kv, s)
    /\ x.st \in {"DONE_PROMPT", "GENERATING"} /\ Plain(x) =>
          \A i \in Cells : s \in kv[i].seqs => kv[i].pos < Len(x.toks)

\* the rows that wait are those of tokens of busy slots
RoomyRow(x, p, k) ==
    /\ p < Len(x.toks)
    /\ x.st \in {"PROCESSING_PROMPT", "DONE_PROMPT", "GENERATING"}
    /\ x.st # "PROCESSING_PROMPT" => k <= x.i_batch + 1

RoomTyped(kv, sl, sv) == kv \in [Cells -> RoomCell] /\ sl \in [Slots -> RoomSlot] /\ sv \in Seq(RoomEntry)
Room(kv, sl, sv, q, h) ==
    /\ RoomTyped(kv, sl, sv)
    /\ \A s \in Slots : Roomy(kv, sl[s], s)
    /\ \A k \in h + 1 .. Len(q) : RoomyRow(sl[q[k].slot], q[k].pos, k)

RoomInv ==
    /\ params \in Configs
    /\ file # NoFile => file \in RoomEntry
    /\ batch \in Seq(RoomRow) /\ at \in Nat /\ n_batch \in Nat
    /\ phase = "tasks" => batch = <<>> /\ at = 0 /\ n_batch = params.n_batch
    /\ Room(cells, slot, saved, batch, at)

-----------------------------------------------------------------------------
\* The operations on shared cells

\* sequence t gains no cell, and none of its cells moves up
Fewer(kv, kv2, t) == \A i \in Cells : t \in kv2[i].seqs => t \in kv[i].seqs /\ kv2[i].pos <= kv[i].pos

LEMMA RoomCellLemma ==
    \A c \in RoomCell : /\ c.seqs = {} <=> c = Empty
                        /\ c.seqs \subseteq Slots
                        /\ \A s \in c.seqs : c \in Shared /\ c.pos \in Nat
<1> SUFFICES ASSUME NEW c \in RoomCell
             PROVE  /\ c.seqs = {} <=> c = Empty
                    /\ c.seqs \subseteq Slots
                    /\ \A s \in c.seqs : c \in Shared /\ c.pos \in Nat
  OBVIOUS
<1>1. CASE c = Empty
  BY <1>1 DEF Empty
<1>2. CASE c \in Shared
  <2>1. c.seqs # {} /\ c.seqs \subseteq Slots /\ c.pos \in Nat
    BY <1>2 DEF Shared
  <2> QED
    BY <1>2, <2>1 DEF Empty
<1> QED
  BY <1>1, <1>2 DEF RoomCell

\* seq_rm() takes the sequence from its cells in a range, and leaves their other owners.
LEMMA RoomRm ==
    ASSUME NEW kv \in [Cells -> RoomCell], NEW s \in Slots, NEW p0, NEW p1
    PROVE  LET kv2 == SeqRm(kv, s, p0, p1)
           IN  /\ kv2 \in [Cells -> RoomCell]
               /\ \A t : Fewer(kv, kv2, t)
               /\ \A i \in Cells : s \in kv2[i].seqs => kv2[i] = kv[i] /\ ~OfSeq(kv[i], s, p0, p1)
<1> DEFINE kv2 == SeqRm(kv, s, p0, p1)
<1>1. \A i \in Cells : kv2[i] = IF OfSeq(kv[i], s, p0, p1) THEN Without(kv[i], s) ELSE kv[i]
  BY DEF SeqRm
<1>2. DOMAIN kv2 = Cells /\ kv2 = [i \in DOMAIN kv2 |-> kv2[i]]
  BY DEF SeqRm
<1> HIDE DEF kv2
<1>3. ASSUME NEW i \in Cells
      PROVE  /\ kv2[i] \in RoomCell
             /\ \A t : t \in kv2[i].seqs => t \in kv[i].seqs /\ kv2[i].pos = kv[i].pos /\ kv[i].pos \in Nat
             /\ s \in kv2[i].seqs => kv2[i] = kv[i] /\ ~OfSeq(kv[i], s, p0, p1)
  <2>1. CASE ~OfSeq(kv[i], s, p0, p1)
    BY <1>1, <2>1, RoomCellLemma
  <2>2. CASE OfSeq(kv[i], s, p0, p1) /\ kv[i].seqs = {s}
    <3>1. kv2[i] = Empty
      BY <1>1, <2>2 DEF Without
    <3> QED
      BY <3>1 DEF Empty, RoomCell
  <2>3. CASE OfSeq(kv[i], s, p0, p1) /\ kv[i].seqs # {s}
    <3>1. kv[i] \in Shared /\ kv[i].pos \in Nat
      BY <2>3, RoomCellLemma DEF OfSeq
    <3>2. kv2[i] = [kv[i] EXCEPT !.seqs = kv[i].seqs \ {s}]
      BY <1>1, <2>3 DEF Without
    <3>3. kv[i].seqs \ {s} \in (SUBSET Slots) \ {{}}
      BY <2>3, <3>1 DEF OfSeq, Shared
    <3>4. kv2[i] \in Shared /\ kv2[i].pos = kv[i].pos /\ kv2[i].seqs = kv[i].seqs \ {s}
      BY <3>1, <3>2, <3>3 DEF Shared
    <3> QED
      BY <3>1, <3>4 DEF RoomCell
  <2> QED
    BY <2>1, <2>2, <2>3
<1>4. kv2 \in [Cells -> RoomCell]
  BY <1>2, <1>3
<1>5. \A t : Fewer(kv, kv2, t)
  BY <1>3 DEF Fewer
<1> QED
  BY <1>3, <1>4, <1>5 DEF kv2

LEMMA RoomGone ==
    ASSUME NEW kv \in [Cells -> RoomCell], NEW s \in Slots
    PROVE  NoCells(SeqRm(kv, s, 0, End), s)
<1> DEFINE kv2 == SeqRm(kv, s, 0, End)
<1>1. kv2 \in [Cells -> RoomCell] /\ \A i \in Cells : s \in kv2[i].seqs => kv2[i] = kv[i] /\ ~OfSeq(kv[i], s, 0, End)
  BY RoomRm
<1> SUFFICES ASSUME NEW i \in Cells, s \in kv2[i].seqs PROVE FALSE
  BY <1>1 DEF NoCells
<1>2. s \in kv[i].seqs /\ kv[i].pos \in Nat
  BY <1>1, RoomCellLemma
<1>3. OfSeq(kv[i], s, 0, End)
  BY <1>2 DEF OfSeq
<1> QED
  BY <1>1, <1>3

\* seq_add() with a negative delta moves no cell up.
LEMMA RoomAdd ==
    ASSUME NEW kv \in [Cells -> RoomCell], NEW s \in Slots, NEW p0 \in Nat, NEW p1, NEW d \in Nat, d <= p0
    PROVE  LET kv2 == SeqAdd(kv, s, p0, p1, -d)
           IN  /\ kv2 \in [Cells -> RoomCell]
               /\ \A t : Fewer(kv, kv2, t)
               /\ \A i \in Cells : s \in kv2[i].seqs =>
                     s \in kv[i].seqs /\ kv2[i].pos = IF OfSeq(kv[i], s, p0, p1) THEN kv[i].pos - d ELSE kv[i].pos
<1> DEFINE kv2 == SeqAdd(kv, s, p0, p1, -d)
<1>1. \A i \in Cells : kv2[i] = IF OfSeq(kv[i], s, p0, p1) THEN [kv[i] EXCEPT !.pos = @ + (-d)] ELSE kv[i]
  BY DEF SeqAdd
<1>2. DOMAIN kv2 = Cells /\ kv2 = [i \in DOMAIN kv2 |-> kv2[i]]
  BY DEF SeqAdd
<1> HIDE DEF kv2
<1>3. ASSUME NEW i \in Cells
      PROVE  /\ kv2[i] \in RoomCell /\ kv2[i].seqs = kv[i].seqs
             /\ \A t : t \in kv2[i].seqs => kv2[i].pos <= kv[i].pos
             /\ s \in kv2[i].seqs => kv2[i].pos = IF OfSeq(kv[i], s, p0, p1) THEN kv[i].pos - d ELSE kv[i].pos
  <2>1. CASE ~OfSeq(kv[i], s, p0, p1)
    <3>1. kv2[i] = kv[i]
      BY <1>1, <2>1
    <3>2. \A t : t \in kv[i].seqs => kv[i].pos \in Nat
      BY RoomCellLemma
    <3> QED
      BY <2>1, <3>1, <3>2
  <2>2. CASE OfSeq(kv[i], s, p0, p1)
    <3>1. kv[i] \in Shared /\ kv[i].pos \in Nat /\ p0 <= kv[i].pos
      BY <2>2, RoomCellLemma DEF OfSeq
    <3>2. kv[i].pos + (-d) = kv[i].pos - d /\ kv[i].pos - d \in Nat /\ kv[i].pos - d <= kv[i].pos
      BY <3>1
    <3>3. kv2[i] = [kv[i] EXCEPT !.pos = kv[i].pos + (-d)]
      BY <1>1, <2>2
    <3>4. kv2[i] \in Shared /\ kv2[i].seqs = kv[i].seqs /\ kv2[i].pos = kv[i].pos - d
      BY <3>1, <3>2, <3>3 DEF Shared
    <3> QED
      BY <2>2, <3>2, <3>4 DEF RoomCell
  <2> QED
    BY <2>1, <2>2
<1>4. kv2 \in [Cells -> RoomCell]
  BY <1>2, <1>3
<1>5. \A t : Fewer(kv, kv2, t)
  BY <1>3 DEF Fewer
<1> QED
  BY <1>3, <1>4, <1>5 DEF kv2

\* seq_cp() gives the cells of s to t.
LEMMA RoomCp ==
    ASSUME NEW kv \in [Cells -> RoomCell], NEW s \in Slots, NEW t \in Slots
    PROVE  LET kv2 == SeqCp(kv, s, t)
           IN  /\ kv2 \in [Cells -> RoomCell]
               /\ \A u \in Slots \ {t} : Fewer(kv, kv2, u)
               /\ NoCells(kv, s) /\ NoCells(kv, t) => NoCells(kv2, t)
<1> DEFINE kv2 == SeqCp(kv, s, t)
<1>1. \A i \in Cells : kv2[i] = IF s \in kv[i].seqs THEN [kv[i] EXCEPT !.seqs = kv[i].seqs \cup {t}] ELSE kv[i]
  BY DEF SeqCp
<1>2. DOMAIN kv2 = Cells /\ kv2 = [i \in DOMAIN kv2 |-> kv2[i]]
  BY DEF SeqCp
<1> HIDE DEF kv2
<1>3. ASSUME NEW i \in Cells
      PROVE  /\ kv2[i] \in RoomCell
             /\ \A u \in Slots \ {t} : u \in kv2[i].seqs => u \in kv[i].seqs /\ kv2[i].pos <= kv[i].pos
             /\ s \notin kv[i].seqs => kv2[i] = kv[i]
  <2>1. CASE s \notin kv[i].seqs
    <3>1. kv2[i] = kv[i] /\ \A u \in kv[i].seqs : kv[i].pos \in Nat
      BY <1>1, <2>1, RoomCellLemma
    <3> QED
      BY <3>1
  <2>2. CASE s \in kv[i].seqs
    <3>1. kv[i] \in Shared /\ kv[i].pos \in Nat
      BY <2>2, RoomCellLemma
    <3>2. kv[i].seqs \cup {t} \in (SUBSET Slots) \ {{}}
      BY <3>1 DEF Shared
    <3>3. kv2[i] = [kv[i] EXCEPT !.seqs = kv[i].seqs \cup {t}]
      BY <1>1, <2>2
    <3>4. kv2[i] \in Shared /\ kv2[i].pos = kv[i].pos /\ kv2[i].seqs = kv[i].seqs \cup {t}
      BY <3>1, <3>2, <3>3 DEF Shared
    <3> QED
      BY <2>2, <3>1, <3>4 DEF RoomCell
  <2> QED
    BY <2>1, <2>2
<1>4. kv2 \in [Cells -> RoomCell]
  BY <1>2, <1>3
<1>5. \A u \in Slots \ {t} : Fewer(kv, kv2, u)
  BY <1>3 DEF Fewer
<1>6. NoCells(kv, s) /\ NoCells(kv, t) => NoCells(kv2, t)
  BY <1>3, <1>4 DEF NoCells
<1> QED
  BY <1>4, <1>5, <1>6 DEF kv2

\* apply() changes empty cells only, each to the cell of a row.
LEMMA RoomPlace ==
    ASSUME NEW kv \in [Cells -> RoomCell], NEW rows \in Seq(RoomRow), params.n_ctx \in Nat
    PROVE  LET kv2 == Place(kv, rows)
           IN  /\ kv2 \in [Cells -> RoomCell]
               /\ \A i \in Cells : kv2[i] = kv[i] \/ \E k \in 1 .. Len(rows) : kv2[i] = NewCell(rows[k])
<1> DEFINE kv2 == Place(kv, rows)
           K == Free(kv)
<1>1. K \in SUBSET Nat /\ IsFiniteSet(K)
  <2>1. IsFiniteSet(Cells) /\ Cells \in SUBSET Nat
    BY FS_Interval DEF Cells
  <2>2. K \in SUBSET Cells
    BY DEF Free
  <2> QED
    BY <2>1, <2>2, FS_Subset
<1>2. \A i \in K : RankIn(K, i) \in 1 .. Cardinality(K) /\ Cardinality(K) \in Nat
  <2> HIDE DEF K
  <2> QED
    BY <1>1, RankLemma
<1>3. Len(rows) \in Nat /\ \A k \in 1 .. Len(rows) : rows[k] \in RoomRow
  BY ElementOfSeq, LenProperties
<1>4. ASSUME NEW i \in Cells
      PROVE  kv2[i] = kv[i] \/ \E k \in 1 .. Len(rows) : kv2[i] = NewCell(rows[k])
  <2>1. CASE kv[i] = Empty /\ RankIn(K, i) <= Len(rows)
    <3>1. i \in K
      BY <2>1 DEF Free
    <3>2. RankIn(K, i) \in 1 .. Len(rows)
      BY <1>2, <1>3, <2>1, <3>1
    <3>3. kv2[i] = NewCell(rows[RankIn(K, i)])
      BY <2>1 DEF Place, NewCell
    <3> QED
      BY <3>2, <3>3
  <2>2. CASE ~(kv[i] = Empty /\ RankIn(K, i) <= Len(rows))
    BY <2>2 DEF Place
  <2> QED
    BY <2>1, <2>2
<1>5. ASSUME NEW k \in 1 .. Len(rows) PROVE NewCell(rows[k]) \in RoomCell
  <2>1. rows[k] \in RoomRow
    BY <1>3
  <2>2. {rows[k].slot} \in (SUBSET Slots) \ {{}}
    BY <2>1 DEF RoomRow
  <2> QED
    BY <2>1, <2>2 DEF NewCell, RoomRow, RoomCell, Shared
<1>6. DOMAIN kv2 = Cells /\ kv2 = [i \in DOMAIN kv2 |-> kv2[i]]
  BY DEF Place
<1> HIDE DEF kv2
<1>7. kv2 \in [Cells -> RoomCell]
  BY <1>4, <1>5, <1>6
<1> QED
  BY <1>4, <1>7 DEF kv2
LEMMA FewerTrans ==
    ASSUME NEW kv \in [Cells -> RoomCell], NEW kv1 \in [Cells -> RoomCell], NEW kv2 \in [Cells -> RoomCell], NEW t,
           Fewer(kv, kv1, t), Fewer(kv1, kv2, t)
    PROVE  Fewer(kv, kv2, t)
<1> SUFFICES ASSUME NEW i \in Cells, t \in kv2[i].seqs PROVE t \in kv[i].seqs /\ kv2[i].pos <= kv[i].pos
  BY DEF Fewer
<1>1. t \in kv1[i].seqs /\ kv2[i].pos <= kv1[i].pos /\ t \in kv[i].seqs /\ kv1[i].pos <= kv[i].pos
  BY DEF Fewer
<1>2. kv2[i].pos \in Nat /\ kv1[i].pos \in Nat /\ kv[i].pos \in Nat
  BY <1>1, RoomCellLemma
<1> QED
  BY <1>1, <1>2

LEMMA FewerNone ==
    ASSUME NEW kv \in [Cells -> RoomCell], NEW kv2 \in [Cells -> RoomCell], NEW t, Fewer(kv, kv2, t), NoCells(kv, t)
    PROVE  NoCells(kv2, t)
BY DEF Fewer, NoCells

LEMMA FewerSame ==
    ASSUME NEW kv \in [Cells -> RoomCell], NEW t
    PROVE  Fewer(kv, kv, t)
<1>1. ASSUME NEW i \in Cells, t \in kv[i].seqs PROVE kv[i].pos <= kv[i].pos
  <2>1. kv[i].pos \in Nat
    BY <1>1, RoomCellLemma
  <2> QED
    BY <2>1
<1> QED
  BY <1>1 DEF Fewer

-----------------------------------------------------------------------------
(***************************************************************************)
(* The change of one slot, and of nothing else that matters in the others  *)
(***************************************************************************)

\* what a slot keeps when its parent leaves
Alike(x, y) ==
    /\ y.st = x.st /\ y.toks = x.toks /\ y.i_batch = x.i_batch
    /\ IF x.task \in ServerTask
          THEN /\ y.task \in ServerTask /\ y.task.kind = x.task.kind /\ y.task.prompt = x.task.prompt
               /\ (Plain(y) <=> Plain(x))
       ELSE y.task = x.task

LEMMA AlikeSelf == \A x : Alike(x, x)
BY DEF Alike

LEMMA RoomyOther ==
    ASSUME NEW kv \in [Cells -> RoomCell], NEW kv2 \in [Cells -> RoomCell], NEW x, NEW y, NEW t,
           x.toks \in Seq(AnyTok), Fewer(kv, kv2, t), Alike(x, y), Roomy(kv, x, t)
    PROVE  Roomy(kv2, y, t)
<1>1. y.st # "IDLE" => y.task \in ServerTask /\ \E r \in params.requests : r.kind = y.task.kind
  BY DEF Roomy, Alike
<1>2. y.st = "WAIT_OTHER" => ~Plain(y)
  BY DEF Roomy, Alike
<1>2a. y.st = "PROCESSING_PROMPT" => Len(y.toks) <= Len(y.task.prompt)
  BY DEF Roomy, Alike
<1>3. y.toks = <<>> /\ ~Waiting(y) => NoCells(kv2, t)
  <2>1. Waiting(x) => Waiting(y)
    BY DEF Roomy, Alike, Waiting
  <2> QED
    BY <2>1, FewerNone DEF Roomy, Alike
<1>4. ASSUME y.st \in {"DONE_PROMPT", "GENERATING"}, Plain(y), NEW i \in Cells, t \in kv2[i].seqs
      PROVE  kv2[i].pos < Len(y.toks)
  <2>1. x.st \in {"DONE_PROMPT", "GENERATING"} /\ Plain(x) /\ y.toks = x.toks
    BY <1>4 DEF Roomy, Alike
  <2>2. t \in kv[i].seqs /\ kv2[i].pos <= kv[i].pos
    BY <1>4 DEF Fewer
  <2>3. kv[i].pos < Len(x.toks)
    BY <2>1, <2>2 DEF Roomy
  <2>4. kv[i].pos \in Nat /\ kv2[i].pos \in Nat /\ Len(x.toks) \in Nat
    BY <1>4, <2>2, RoomCellLemma, LenProperties
  <2> QED
    BY <2>1, <2>2, <2>3, <2>4
<1> QED
  BY <1>1, <1>2, <1>2a, <1>3, <1>4 DEF Roomy

\* what a change leaves of the slots other than s
Spares(kv, sl, kv2, sl2, s) ==
    /\ kv2 \in [Cells -> RoomCell] /\ sl2 \in [Slots -> RoomSlot]
    /\ \A t \in Slots \ {s} : Fewer(kv, kv2, t) /\ Alike(sl[t], sl2[t])

LEMMA OneRoom ==
    ASSUME NEW kv, NEW sl, NEW sv, NEW kv2, NEW sl2, NEW s \in Slots, NEW q \in Seq(RoomRow), NEW h \in Nat,
           Room(kv, sl, sv, q, h), Spares(kv, sl, kv2, sl2, s), Roomy(kv2, sl2[s], s),
           \A k \in h + 1 .. Len(q) : q[k].slot = s => RoomyRow(sl2[s], q[k].pos, k)
    PROVE  Room(kv2, sl2, sv, q, h)
<1>1. /\ kv \in [Cells -> RoomCell] /\ sl \in [Slots -> RoomSlot] /\ sv \in Seq(RoomEntry)
      /\ kv2 \in [Cells -> RoomCell] /\ sl2 \in [Slots -> RoomSlot]
  BY DEF Room, RoomTyped, Spares
<1>2. ASSUME NEW t \in Slots PROVE Roomy(kv2, sl2[t], t)
  <2>1. CASE t = s
    BY <2>1
  <2>2. CASE t # s
    <3>1. sl[t].toks \in Seq(AnyTok)
      BY <1>1 DEF RoomSlot
    <3>2. Roomy(kv, sl[t], t) /\ Fewer(kv, kv2, t) /\ Alike(sl[t], sl2[t])
      BY <2>2 DEF Room, Spares
    <3> QED
      BY <1>1, <3>1, <3>2, RoomyOther
  <2> QED
    BY <2>1, <2>2
<1>3. ASSUME NEW k \in h + 1 .. Len(q) PROVE RoomyRow(sl2[q[k].slot], q[k].pos, k)
  <2>1. q[k].slot \in Slots
    <3>1. k \in 1 .. Len(q)
      BY LenProperties
    <3>2. q[k] \in RoomRow
      BY <3>1, ElementOfSeq
    <3> QED
      BY <3>2 DEF RoomRow
  <2>2. RoomyRow(sl[q[k].slot], q[k].pos, k)
    BY DEF Room
  <2>3. q[k].slot # s => Alike(sl[q[k].slot], sl2[q[k].slot])
    BY <2>1 DEF Spares
  <2> QED
    BY <2>2, <2>3 DEF RoomyRow, Alike
<1> QED
  BY <1>1, <1>2, <1>3 DEF Room, RoomTyped

LEMMA RoomNothing ==
    ASSUME NEW kv, NEW sl, NEW sv, NEW q, NEW h, Room(kv, sl, sv, q, h)
    PROVE  Room(kv, sl, sv, <<>>, 0)
<1>1. Len(<<>>) = 0
  BY EmptySeq
<1> QED
  BY <1>1 DEF Room

\* idle slots have no rows in the batch, nor do slots that start or wait for their parent
LEMMA RoomNoRows ==
    ASSUME NEW kv, NEW sl, NEW sv, NEW q, NEW h, Room(kv, sl, sv, q, h), NEW s,
           sl[s].st \notin {"PROCESSING_PROMPT", "DONE_PROMPT", "GENERATING"}
    PROVE  \A k \in h + 1 .. Len(q) : q[k].slot # s
BY DEF Room, RoomyRow

-----------------------------------------------------------------------------
(***************************************************************************)
(* The states of the loops                                                 *)
(***************************************************************************)

RoomBase == [cells : [Cells -> RoomCell], slot : [Slots -> RoomSlot], saved : Seq(RoomEntry)]
RoomFill == [cells : [Cells -> RoomCell], slot : [Slots -> RoomSlot], saved : Seq(RoomEntry), batch : Seq(RoomRow),
             batched : Slots \cup {NoSlot}, full : BOOLEAN]

\* R is S with other cells and slots
Becomes(S, R, kv, sl) ==
    /\ R.cells = kv /\ R.slot = sl /\ R.saved = S.saved
    /\ S \in RoomBase => R \in RoomBase
    /\ S \in RoomFill => R \in RoomFill /\ R.batch = S.batch

LEMMA RoomFields ==
    ASSUME NEW S, S \in RoomBase \/ S \in RoomFill
    PROVE  S.cells \in [Cells -> RoomCell] /\ S.slot \in [Slots -> RoomSlot] /\ S.saved \in Seq(RoomEntry)
BY DEF RoomBase, RoomFill

LEMMA BecomesLemma ==
    ASSUME NEW S, S \in RoomBase \/ S \in RoomFill, NEW kv \in [Cells -> RoomCell], NEW sl \in [Slots -> RoomSlot]
    PROVE  Becomes(S, [S EXCEPT !.cells = kv, !.slot = sl], kv, sl)
<1> DEFINE R == [S EXCEPT !.cells = kv, !.slot = sl]
<1>1. R.cells = kv /\ R.slot = sl /\ R.saved = S.saved
  BY DEF RoomBase, RoomFill
<1>2. /\ S \in RoomBase => R \in RoomBase
      /\ S \in RoomFill => R \in RoomFill /\ R.batch = S.batch
  BY DEF RoomBase, RoomFill
<1> HIDE DEF R
<1> QED
  BY <1>1, <1>2 DEF Becomes, R

LEMMA FreedRoom == \A x \in RoomSlot : Freed(x) \in RoomSlot /\ Cleared(x) \in RoomSlot
<1> SUFFICES ASSUME NEW x \in RoomSlot PROVE Freed(x) \in RoomSlot /\ Cleared(x) \in RoomSlot
  OBVIOUS
<1>1. Freed(x) \in RoomSlot
  <2> DEFINE y1 == [x EXCEPT !.st = "IDLE"]
             y2 == [y1 EXCEPT !.task = NoTask]
             y3 == [y2 EXCEPT !.sampled = NoTok]
             y4 == [y3 EXCEPT !.i_batch = -1]
  <2>1. y1 \in RoomSlot
    BY DEF RoomSlot, States
  <2> HIDE DEF y1
  <2>2. y2 \in RoomSlot
    BY <2>1 DEF RoomSlot
  <2> HIDE DEF y2
  <2>3. y3 \in RoomSlot
    BY <2>2 DEF RoomSlot, AnyTok
  <2> HIDE DEF y3
  <2>4. y4 \in RoomSlot
    BY <2>3, SMTT(30) DEF RoomSlot
  <2>5. Freed(x) = y4
    BY SMT DEF Freed, y1, y2, y3
  <2> HIDE DEF y4
  <2> QED
    BY <2>4, <2>5
<1>2. Cleared(x) \in RoomSlot
  <2>1. <<>> \in Seq(AnyTok)
    BY EmptySeq
  <2> QED
    BY <2>1 DEF RoomSlot, Cleared
<1> QED
  BY <1>1, <1>2

Keeps(S, R) == /\ R.saved = S.saved
               /\ S \in RoomBase => R \in RoomBase
               /\ S \in RoomFill => R \in RoomFill /\ R.batch = S.batch

LEMMA ClearBecomes ==
    ASSUME NEW S, S \in RoomBase \/ S \in RoomFill, NEW s \in Slots
    PROVE  /\ Becomes(S, PromptClear(S, s), SeqRm(S.cells, s, 0, End), [S.slot EXCEPT ![s] = Cleared(S.slot[s])])
           /\ SeqRm(S.cells, s, 0, End) \in [Cells -> RoomCell]
           /\ [S.slot EXCEPT ![s] = Cleared(S.slot[s])] \in [Slots -> RoomSlot]
<1> DEFINE kv == SeqRm(S.cells, s, 0, End)
           sl == [S.slot EXCEPT ![s] = Cleared(S.slot[s])]
<1>1. S.slot \in [Slots -> RoomSlot] /\ S.cells \in [Cells -> RoomCell]
  BY RoomFields
<1>2. kv \in [Cells -> RoomCell]
  BY <1>1, RoomRm
<1>3. sl \in [Slots -> RoomSlot]
  <2>1. Cleared(S.slot[s]) \in RoomSlot
    BY <1>1, FreedRoom
  <2> QED
    BY <1>1, <2>1
<1>4. PromptClear(S, s) = [S EXCEPT !.cells = kv, !.slot = sl]
  BY <1>1 DEF PromptClear, Cleared, RoomBase, RoomFill
<1> HIDE DEF kv, sl
<1>5. Becomes(S, PromptClear(S, s), kv, sl)
  <2>1. Becomes(S, [S EXCEPT !.cells = kv, !.slot = sl], kv, sl)
    BY <1>2, <1>3, BecomesLemma
  <2> QED
    BY <1>4, <2>1, Zenon
<1> QED
  BY <1>2, <1>3, <1>5 DEF kv, sl

LEMMA ClearedRoomy ==
    ASSUME NEW kv, NEW kv2 \in [Cells -> RoomCell], NEW x \in RoomSlot, NEW s, Roomy(kv, x, s), NoCells(kv2, s)
    PROVE  Roomy(kv2, Cleared(x), s)
<1>1. Cleared(x).st = x.st /\ Cleared(x).task = x.task
  BY DEF RoomSlot, Cleared
<1>2. DOMAIN kv2 = Cells
  OBVIOUS
<1>3. x.st = "PROCESSING_PROMPT" => Len(Cleared(x).toks) <= Len(x.task.prompt)
  <2> SUFFICES ASSUME x.st = "PROCESSING_PROMPT" PROVE Len(Cleared(x).toks) <= Len(x.task.prompt)
    OBVIOUS
  <2>1. x.task.prompt \in Seq(Tok)
    BY DEF Roomy, ServerTask
  <2>2. Len(x.task.prompt) \in Nat /\ Cleared(x).toks = <<>> /\ Len(<<>>) = 0
    BY <2>1, LenProperties, EmptySeq DEF RoomSlot, Cleared
  <2> QED
    BY <2>2
<1> QED
  BY <1>1, <1>2, <1>3 DEF Roomy, NoCells, Plain

\* prompt_clear() of a slot without rows in the batch.
LEMMA RoomClear ==
    ASSUME NEW S, S \in RoomBase \/ S \in RoomFill, NEW s \in Slots, NEW q \in Seq(RoomRow), NEW h \in Nat,
           Room(S.cells, S.slot, S.saved, q, h), \A k \in h + 1 .. Len(q) : q[k].slot # s
    PROVE  LET R == PromptClear(S, s)
           IN  /\ Keeps(S, R) /\ Room(R.cells, R.slot, R.saved, q, h)
               /\ R.slot = [S.slot EXCEPT ![s] = Cleared(S.slot[s])]
<1> DEFINE R == PromptClear(S, s)
           kv == SeqRm(S.cells, s, 0, End)
           x == Cleared(S.slot[s])
           sl == [S.slot EXCEPT ![s] = x]
<1>1. S.slot \in [Slots -> RoomSlot] /\ S.cells \in [Cells -> RoomCell]
  BY RoomFields
<1>2. Becomes(S, R, kv, sl) /\ kv \in [Cells -> RoomCell] /\ sl \in [Slots -> RoomSlot]
  BY ClearBecomes
<1>3. \A t : Fewer(S.cells, kv, t)
  BY <1>1, RoomRm
<1>4. NoCells(kv, s)
  BY <1>1, RoomGone
<1> HIDE DEF R, kv
<1>5. Roomy(kv, x, s)
  <2>1. Roomy(S.cells, S.slot[s], s) /\ S.slot[s] \in RoomSlot
    BY <1>1 DEF Room
  <2> QED
    BY <1>2, <1>4, <2>1, ClearedRoomy
<1> HIDE DEF x
<1>6. sl[s] = x /\ \A t \in Slots \ {s} : sl[t] = S.slot[t]
  BY <1>1
<1>7. Spares(S.cells, S.slot, kv, sl, s)
  BY <1>2, <1>3, <1>6, AlikeSelf DEF Spares
<1> HIDE DEF sl
<1>8. Room(kv, sl, S.saved, q, h)
  BY <1>5, <1>6, <1>7, OneRoom
<1>9. R.cells = kv /\ R.slot = sl /\ R.saved = S.saved /\ Keeps(S, R)
  BY <1>2 DEF Becomes, Keeps
<1> QED
  BY <1>8, <1>9 DEF R, sl, x

\* R is S after release(): a child also loses its tokens and its cells
Freeing(S, R, s) ==
    /\ Keeps(S, R) /\ Spares(S.cells, S.slot, R.cells, R.slot, s)
    /\ R.slot[s].st = "IDLE"
    /\ (R.slot[s].toks = S.slot[s].toks /\ Fewer(S.cells, R.cells, s)) \/ NoCells(R.cells, s)

LEMMA ReleaseFrees ==
    ASSUME NEW S, S \in RoomBase \/ S \in RoomFill, NEW s \in Slots
    PROVE  Freeing(S, Release(S, s), s)
<1> DEFINE orphans == {t \in Slots : S.slot[t].task # NoTask /\ S.slot[t].task.parent = s}
           orphan(t) == [S.slot[t] EXCEPT !.task.parent = NoSlot]
           sl == [t \in Slots |->
                    IF t = s THEN [S.slot[t] EXCEPT !.st = "IDLE", !.task = NoTask, !.sampled = NoTok, !.i_batch = -1]
                    ELSE IF t \in orphans THEN orphan(t) ELSE S.slot[t]]
           I == [S EXCEPT !.slot = sl]
           kv2 == SeqRm(I.cells, s, 0, End)
           sl2 == [I.slot EXCEPT ![s] = Cleared(I.slot[s])]
           P == PromptClear(I, s)
<1>1. S.slot \in [Slots -> RoomSlot] /\ S.cells \in [Cells -> RoomCell]
  BY RoomFields
<1>2. Release(S, s) = IF IsChild(S, s) THEN P ELSE I
  BY DEF Release
<1>3. ASSUME NEW t \in orphans
      PROVE  orphan(t) \in RoomSlot /\ Alike(S.slot[t], orphan(t))
  <2> DEFINE x == S.slot[t]
             task == [x.task EXCEPT !.parent = NoSlot]
             y == [x EXCEPT !.task = task]
  <2>1. x \in RoomSlot /\ x.task \in ServerTask /\ x.task # NoTask
    BY <1>1, <1>3 DEF RoomSlot
  <2> HIDE DEF x
  <2>2. task \in ServerTask /\ task.kind = x.task.kind /\ task.prompt = x.task.prompt
          /\ task.children = x.task.children /\ task.child = x.task.child
    BY <2>1 DEF ServerTask
  <2>3. task # NoTask
    BY <2>2, NoTaskAssumption
  <2> HIDE DEF task
  <2>4. y \in RoomSlot /\ y.st = x.st /\ y.toks = x.toks /\ y.i_batch = x.i_batch /\ y.task = task
    BY <2>1, <2>2 DEF RoomSlot
  <2>5. orphan(t) = y
    BY <2>1 DEF RoomSlot, x, task
  <2> HIDE DEF y, orphan
  <2>6. Plain(y) <=> Plain(x)
    BY <2>1, <2>2, <2>3, <2>4 DEF Plain
  <2>7. Alike(x, y)
    BY <2>1, <2>2, <2>4, <2>6 DEF Alike
  <2> QED
    BY <2>4, <2>5, <2>7 DEF x
<1>4. sl[s] = Freed(S.slot[s]) /\ \A t \in Slots \ {s} : sl[t] = IF t \in orphans THEN orphan(t) ELSE S.slot[t]
  BY DEF Freed
<1>5. sl = [t \in Slots |-> sl[t]]
  OBVIOUS
<1> HIDE DEF sl, orphan, orphans
<1>6. /\ sl \in [Slots -> RoomSlot]
      /\ \A t \in Slots \ {s} : Alike(S.slot[t], sl[t])
  <2>1. \A t \in Slots \ {s} : sl[t] \in RoomSlot /\ Alike(S.slot[t], sl[t])
    BY <1>1, <1>3, <1>4, AlikeSelf
  <2>2. sl[s] \in RoomSlot
    BY <1>1, <1>4, FreedRoom
  <2> QED
    BY <1>5, <2>1, <2>2
<1>7. sl[s].st = "IDLE" /\ sl[s].toks = S.slot[s].toks
  <2>1. Freed(S.slot[s]).st = "IDLE" /\ Freed(S.slot[s]).toks = S.slot[s].toks
    BY <1>1 DEF Freed, RoomSlot
  <2> QED
    BY <1>4, <2>1
<1>8. Becomes(S, I, S.cells, sl)
  <2>1. I = [S EXCEPT !.cells = S.cells, !.slot = sl]
    BY DEF RoomBase, RoomFill
  <2> HIDE DEF I
  <2> QED
    BY <1>1, <1>6, <2>1, BecomesLemma
<1> HIDE DEF I
<1>9. I.cells = S.cells /\ I.slot = sl /\ Keeps(S, I) /\ (I \in RoomBase \/ I \in RoomFill)
  BY <1>8 DEF Becomes, Keeps
<1>10. Freeing(S, I, s)
  <2>1. \A t : Fewer(S.cells, S.cells, t)
    BY <1>1, FewerSame
  <2>2. Spares(S.cells, S.slot, I.cells, I.slot, s)
    BY <1>1, <1>6, <1>9, <2>1 DEF Spares
  <2> QED
    BY <1>7, <1>9, <2>1, <2>2 DEF Freeing
<1>11. Freeing(S, P, s)
  <2>1. Becomes(I, P, kv2, sl2) /\ kv2 \in [Cells -> RoomCell] /\ sl2 \in [Slots -> RoomSlot]
    BY <1>9, ClearBecomes
  <2>2. NoCells(kv2, s) /\ \A t : Fewer(S.cells, kv2, t)
    BY <1>1, <1>9, RoomRm, RoomGone
  <2>3. sl2[s].st = "IDLE" /\ \A t \in Slots \ {s} : sl2[t] = sl[t]
    <3>1. Cleared(sl[s]).st = "IDLE"
      BY <1>6, <1>7 DEF RoomSlot, Cleared
    <3>2. sl2[s] = Cleared(sl[s]) /\ \A t \in Slots \ {s} : sl2[t] = sl[t]
      BY <1>6, <1>9
    <3> QED
      BY <3>1, <3>2
  <2> HIDE DEF P, kv2, sl2
  <2>4. P.cells = kv2 /\ P.slot = sl2 /\ Keeps(S, P)
    BY <1>9, <2>1 DEF Becomes, Keeps
  <2>5. Spares(S.cells, S.slot, kv2, sl2, s)
    BY <1>6, <2>1, <2>2, <2>3 DEF Spares
  <2> QED
    BY <2>2, <2>3, <2>4, <2>5 DEF Freeing
<1> QED
  BY <1>2, <1>10, <1>11

\* release() of a slot that has no rows in the batch and does not wait for one.
LEMMA RoomRelease ==
    ASSUME NEW S, S \in RoomBase \/ S \in RoomFill, NEW s \in Slots, NEW q \in Seq(RoomRow), NEW h \in Nat,
           Room(S.cells, S.slot, S.saved, q, h), \A k \in h + 1 .. Len(q) : q[k].slot # s, ~Waiting(S.slot[s])
    PROVE  LET R == Release(S, s)
           IN  Keeps(S, R) /\ Room(R.cells, R.slot, R.saved, q, h)
<1> DEFINE R == Release(S, s)
<1>1. Freeing(S, R, s)
  BY ReleaseFrees
<1> HIDE DEF R
<1>2. S.slot \in [Slots -> RoomSlot] /\ S.cells \in [Cells -> RoomCell] /\ R.cells \in [Cells -> RoomCell]
  BY <1>1, RoomFields DEF Freeing, Spares
<1>3. R.slot[s].toks = <<>> => NoCells(R.cells, s)
  <2>1. S.slot[s].toks = <<>> => NoCells(S.cells, s)
    BY DEF Room, Roomy
  <2> QED
    BY <1>1, <1>2, <2>1, FewerNone DEF Freeing
<1>4. Roomy(R.cells, R.slot[s], s)
  BY <1>1, <1>3 DEF Roomy, Freeing
<1>5. Room(R.cells, R.slot, S.saved, q, h)
  BY <1>1, <1>4, OneRoom DEF Freeing
<1>6. Keeps(S, R) /\ R.saved = S.saved
  BY <1>1 DEF Freeing, Keeps
<1> QED
  BY <1>5, <1>6 DEF R


-----------------------------------------------------------------------------
(***************************************************************************)
(* What is saved and restored                                              *)
(***************************************************************************)

\* What is saved of a sequence without cells is nothing.
LEMMA RoomRows ==
    ASSUME NEW kv \in [Cells -> RoomCell], NEW s \in Slots, params.n_ctx \in Nat
    PROVE  Rows(kv, s) \in Seq(RoomSaved) /\ (NoCells(kv, s) => Rows(kv, s) = <<>>)
<1> DEFINE K == {i \in DOMAIN kv : s \in kv[i].seqs}
           n == Cardinality(K)
           rows == Rows(kv, s)
<1>1. K \in SUBSET Nat /\ IsFiniteSet(K) /\ K \in SUBSET Cells
  <2>1. IsFiniteSet(Cells) /\ Cells \in SUBSET Nat
    BY FS_Interval DEF Cells
  <2>2. K \in SUBSET Cells
    OBVIOUS
  <2> QED
    BY <2>1, <2>2, FS_Subset
<1>2. n \in Nat /\ (K = {} => n = 0)
  <2> HIDE DEF K
  <2> QED
    BY <1>1, FS_CardinalityType, FS_EmptySet
<1>3. \A k \in 1 .. n : Nth(K, k) \in K
  <2> HIDE DEF K
  <2> QED
    BY <1>1, NthLemma
<1>4. DOMAIN rows = 1 .. n /\ \A k \in 1 .. n : rows[k] = [pos |-> kv[Nth(K, k)].pos, tok |-> kv[Nth(K, k)].tok]
  BY DEF Rows, Kept
<1>5. rows = [k \in DOMAIN rows |-> rows[k]]
  BY DEF Rows
<1>6. \A i \in K : i \in Cells /\ kv[i] \in Shared
  BY <1>1, RoomCellLemma
<1>7. NoCells(kv, s) => K = {}
  BY DEF NoCells
<1> HIDE DEF K, n, rows
<1>8. ASSUME NEW k \in 1 .. n PROVE rows[k] \in RoomSaved
  <2>1. kv[Nth(K, k)] \in Shared
    BY <1>3, <1>6
  <2>2. rows[k] = [pos |-> kv[Nth(K, k)].pos, tok |-> kv[Nth(K, k)].tok]
    BY <1>4
  <2> QED
    BY <2>1, <2>2 DEF Shared, RoomSaved
<1>9. rows \in Seq(RoomSaved)
  <2>1. rows \in [1 .. n -> RoomSaved]
    BY <1>4, <1>5, <1>8
  <2> QED
    BY <1>2, <2>1
<1>10. K = {} => rows = <<>>
  <2> SUFFICES ASSUME K = {} PROVE rows = <<>>
    OBVIOUS
  <2>1. Len(rows) = 0
    BY <1>2, <1>4, <1>9, LenProperties
  <2> QED
    BY <1>9, <2>1, EmptySeq
<1> QED
  BY <1>7, <1>9, <1>10 DEF rows

\* A restored sequence has the cells of its rows, and nothing else changes.
LEMMA RoomRestored ==
    ASSUME NEW kv \in [Cells -> RoomCell], NEW s \in Slots, NEW e \in RoomEntry, params.n_ctx \in Nat
    PROVE  LET kv2 == Restored(kv, s, e.rows)
           IN  /\ kv2 \in [Cells -> RoomCell]
               /\ \A t \in Slots \ {s} : Fewer(kv, kv2, t)
               /\ e.toks = <<>> => NoCells(kv2, s)
<1> DEFINE gone == SeqRm(kv, s, 0, End)
           n == Len(e.rows)
           rows == [k \in DOMAIN e.rows |-> [slot |-> s, pos |-> e.rows[k].pos, tok |-> e.rows[k].tok]]
           kv2 == Restored(kv, s, e.rows)
<1>1. gone \in [Cells -> RoomCell] /\ (\A t : Fewer(kv, gone, t)) /\ NoCells(gone, s)
  BY RoomRm, RoomGone
<1>2. e.rows \in Seq(RoomSaved) /\ n \in Nat /\ DOMAIN e.rows = 1 .. n /\ \A k \in 1 .. n : e.rows[k] \in RoomSaved
  <2>1. e.rows \in Seq(RoomSaved)
    BY DEF RoomEntry
  <2> QED
    BY <2>1, LenProperties, ElementOfSeq
<1>3. rows \in Seq(RoomRow) /\ Len(rows) = n /\ \A k \in 1 .. n : rows[k].slot = s
  <2>1. \A k \in 1 .. n : [slot |-> s, pos |-> e.rows[k].pos, tok |-> e.rows[k].tok] \in RoomRow
    BY <1>2 DEF RoomSaved, RoomRow
  <2>2. rows \in [1 .. n -> RoomRow] /\ \A k \in 1 .. n : rows[k].slot = s
    BY <1>2, <2>1
  <2> HIDE DEF rows, n
  <2> QED
    BY <1>2, <2>2
<1>4. kv2 = Place(gone, rows)
  BY DEF Restored
<1>5. e.toks = <<>> => n = 0
  BY EmptySeq DEF RoomEntry
<1> HIDE DEF gone, rows, kv2
<1>6. kv2 \in [Cells -> RoomCell] /\ \A i \in Cells : kv2[i] = gone[i] \/ \E k \in 1 .. n : kv2[i] = NewCell(rows[k])
  BY <1>1, <1>3, <1>4, RoomPlace
<1> HIDE DEF n
<1>7. \A i \in Cells : kv2[i] = gone[i] \/ (n # 0 /\ kv2[i].seqs = {s})
  BY <1>2, <1>3, <1>6 DEF NewCell
<1>8. ASSUME NEW t \in Slots \ {s} PROVE Fewer(kv, kv2, t)
  BY <1>1, <1>7 DEF Fewer
<1>9. e.toks = <<>> => NoCells(kv2, s)
  BY <1>1, <1>5, <1>6, <1>7 DEF NoCells
<1> QED
  BY <1>6, <1>8, <1>9 DEF kv2

-----------------------------------------------------------------------------
(***************************************************************************)
(* The prompt cache                                                        *)
(***************************************************************************)

\* between two handlers, when nothing waits in a batch
Alone(S, k) == S \in RoomBase /\ Room(S.cells, S.slot, S.saved, <<>>, 0)

LEMMA AloneFields ==
    ASSUME NEW S, NEW k, Alone(S, k)
    PROVE  /\ S.cells \in [Cells -> RoomCell] /\ S.slot \in [Slots -> RoomSlot] /\ S.saved \in Seq(RoomEntry)
           /\ \A s \in Slots : Roomy(S.cells, S.slot[s], s)
           /\ Len(S.saved) \in Nat /\ \A j \in 1 .. Len(S.saved) : S.saved[j] \in RoomEntry
<1>1. S.cells \in [Cells -> RoomCell] /\ S.slot \in [Slots -> RoomSlot] /\ S.saved \in Seq(RoomEntry)
  BY DEF Alone, RoomBase
<1>2. Len(S.saved) \in Nat /\ \A j \in 1 .. Len(S.saved) : S.saved[j] \in RoomEntry
  BY <1>1, LenProperties, ElementOfSeq
<1> QED
  BY <1>1, <1>2 DEF Alone, Room

LEMMA AloneSaved ==
    ASSUME NEW S, Alone(S, 0), NEW sv \in Seq(RoomEntry)
    PROVE  LET R == [S EXCEPT !.saved = sv]
           IN  Alone(R, 0) /\ R.cells = S.cells /\ R.slot = S.slot /\ R.saved = sv
<1> DEFINE R == [S EXCEPT !.saved = sv]
<1>1. R.cells = S.cells /\ R.slot = S.slot /\ R.saved = sv /\ R \in RoomBase
  BY DEF Alone, RoomBase
<1> HIDE DEF R
<1>2. Room(S.cells, S.slot, sv, <<>>, 0)
  BY DEF Alone, Room, RoomTyped
<1> QED
  BY <1>1, <1>2 DEF Alone, R

\* the cells and tokens of slot s change
Changed(S, s, kv, x, sv) == [S EXCEPT !.cells = kv, !.slot = [S.slot EXCEPT ![s] = x], !.saved = sv]
LEMMA AloneChanged ==
    ASSUME NEW S, Alone(S, 0), NEW s \in Slots, NEW kv, NEW x \in RoomSlot, NEW sv \in Seq(RoomEntry),
           kv \in [Cells -> RoomCell], Roomy(kv, x, s), \A t \in Slots \ {s} : Fewer(S.cells, kv, t)
    PROVE  LET R == Changed(S, s, kv, x, sv)
           IN  Alone(R, 0) /\ R.slot[s] = x
<1> DEFINE sl == [S.slot EXCEPT ![s] = x]
           R == Changed(S, s, kv, x, sv)
<1>1. S.slot \in [Slots -> RoomSlot]
  BY AloneFields
<1>2. sl \in [Slots -> RoomSlot] /\ sl[s] = x /\ \A t \in Slots \ {s} : sl[t] = S.slot[t]
  BY <1>1
<1> HIDE DEF sl
<1>3. R.cells = kv /\ R.slot = sl /\ R.saved = sv /\ R \in RoomBase
  BY <1>2 DEF Alone, RoomBase, Changed, sl
<1> HIDE DEF R
<1>4. Spares(S.cells, S.slot, kv, sl, s)
  BY <1>2, AlikeSelf DEF Spares
<1> DEFINE q == <<>>
<1>5. q \in Seq(RoomRow) /\ Len(q) = 0
  BY EmptySeq
<1>6. Room(S.cells, S.slot, S.saved, q, 0)
  BY DEF Alone
<1>7. \A k \in 0 + 1 .. Len(q) : q[k].slot = s => RoomyRow(sl[s], q[k].pos, k)
  BY <1>5
<1>8. Roomy(kv, sl[s], s)
  BY <1>2
<1>9. Room(kv, sl, S.saved, q, 0)
  <2> HIDE DEF q
  <2>1. 0 \in Nat
    OBVIOUS
  <2> QED
    BY <1>4, <1>5, <1>6, <1>7, <1>8, <2>1, OneRoom
<1>10. Room(kv, sl, sv, q, 0)
  BY <1>9 DEF Room, RoomTyped
<1> QED
  BY <1>2, <1>3, <1>10 DEF Alone, R, sl

\* What is saved of an idle slot.
LEMMA AloneEntry ==
    ASSUME NEW S, Alone(S, 0), NEW s \in Slots, S.slot[s].st = "IDLE", params.n_ctx \in Nat
    PROVE  [toks |-> S.slot[s].toks, rows |-> Rows(S.cells, s)] \in RoomEntry
<1> DEFINE toks == S.slot[s].toks
           rows == Rows(S.cells, s)
           e == [toks |-> toks, rows |-> rows]
<1>1. S.cells \in [Cells -> RoomCell] /\ S.slot \in [Slots -> RoomSlot] /\ Roomy(S.cells, S.slot[s], s)
  BY AloneFields
<1>2. toks \in Seq(AnyTok)
  BY <1>1 DEF RoomSlot
<1>3. rows \in Seq(RoomSaved) /\ (NoCells(S.cells, s) => rows = <<>>)
  BY <1>1, RoomRows
<1>4. toks = <<>> => NoCells(S.cells, s)
  BY <1>1 DEF Roomy, Waiting
<1> HIDE DEF toks, rows
<1>5. e \in [toks : Seq(AnyTok), rows : Seq(RoomSaved)] /\ e.toks = toks /\ e.rows = rows
  BY <1>2, <1>3
<1> HIDE DEF e
<1>6. e \in RoomEntry
  BY <1>3, <1>4, <1>5 DEF RoomEntry
<1> QED
  BY <1>6 DEF e, toks, rows

LEMMA RoomPromptSave ==
    ASSUME NEW S, Alone(S, 0), NEW s \in Slots, S.slot[s].st = "IDLE", params.n_ctx \in Nat
    PROVE  LET R == PromptSave(S, s)
           IN  Alone(R, 0) /\ R.cells = S.cells /\ R.slot = S.slot
<1> DEFINE K == {k \in DOMAIN S.saved : ~IsPrefix(S.saved[k].toks, S.slot[s].toks)}
           kept == Kept(S.saved, K)
           e == [toks |-> S.slot[s].toks, rows |-> Rows(S.cells, s)]
           new == Append(kept, e)
           R == [S EXCEPT !.saved = new]
<1>1. e \in RoomEntry
  BY AloneEntry
<1>2. kept \in Seq(RoomEntry)
  <2>1. S.saved \in Seq(RoomEntry) /\ K \in SUBSET DOMAIN S.saved
    BY AloneFields
  <2> HIDE DEF K
  <2> QED
    BY <2>1, KeptLemma
<1>3. PromptSave(S, s) = S \/ PromptSave(S, s) = R
  BY DEF PromptSave
<1> HIDE DEF kept, e
<1>4. new \in Seq(RoomEntry)
  BY <1>1, <1>2, AppendProperties
<1> HIDE DEF new
<1>5. Alone(R, 0) /\ R.cells = S.cells /\ R.slot = S.slot
  BY <1>4, AloneSaved
<1> QED
  BY <1>3, <1>5

LEMMA RoomCacheUpdate ==
    ASSUME NEW S, Alone(S, 0)
    PROVE  LET R == CacheUpdate(S)
           IN  Alone(R, 0) /\ R.cells = S.cells /\ R.slot = S.slot
<1> DEFINE over == {k \in DOMAIN S.saved : \A j \in 1 .. k :
                      /\ j < Len(S.saved) /\ params.limit > 0
                      /\ TokensIn(SubSeq(S.saved, j, Len(S.saved))) > params.limit}
           m == Cardinality(over) + 1
           new == SubSeq(S.saved, m, Len(S.saved))
           R == [S EXCEPT !.saved = new]
<1>1. /\ S.saved \in Seq(RoomEntry) /\ Len(S.saved) \in Nat /\ DOMAIN S.saved = 1 .. Len(S.saved)
      /\ \A k \in 1 .. Len(S.saved) : S.saved[k] \in RoomEntry
  BY AloneFields, LenProperties
<1>2. m \in Nat /\ m >= 1
  <2>1. IsFiniteSet(over)
    <3>1. IsFiniteSet(1 .. Len(S.saved)) /\ over \in SUBSET (1 .. Len(S.saved))
      BY <1>1, FS_Interval
    <3> HIDE DEF over
    <3> QED
      BY <3>1, FS_Subset
  <2> HIDE DEF over
  <2> QED
    BY <2>1, FS_CardinalityType
<1>3. CacheUpdate(S) = R
  BY DEF CacheUpdate
<1> HIDE DEF m
<1>4. \A i \in m .. Len(S.saved) : S.saved[i] \in RoomEntry
  BY <1>1, <1>2
<1>5. new \in Seq(RoomEntry)
  BY <1>1, <1>2, <1>4, SubSeqProperties
<1> HIDE DEF new
<1>6. Alone(R, 0) /\ R.cells = S.cells /\ R.slot = S.slot
  BY <1>5, AloneSaved
<1> QED
  BY <1>3, <1>6

LEMMA AloneCleared ==
    ASSUME NEW S, Alone(S, 0), NEW s \in Slots
    PROVE  LET R == PromptClear(S, s)
           IN  Alone(R, 0) /\ R.slot = [S.slot EXCEPT ![s] = Cleared(S.slot[s])]
<1> DEFINE q == <<>>
           R == PromptClear(S, s)
<1>1. q \in Seq(RoomRow) /\ \A k \in 0 + 1 .. Len(q) : q[k].slot # s
  BY EmptySeq
<1>2. S \in RoomBase /\ Room(S.cells, S.slot, S.saved, q, 0)
  BY DEF Alone
<1> HIDE DEF q, R
<1>3. Keeps(S, R) /\ Room(R.cells, R.slot, R.saved, q, 0) /\ R.slot = [S.slot EXCEPT ![s] = Cleared(S.slot[s])]
  BY <1>1, <1>2, RoomClear DEF R
<1> QED
  BY <1>2, <1>3 DEF Alone, Keeps, q, R

LEMMA Removed ==
    ASSUME NEW E, NEW q \in Seq(E), NEW k \in 1 .. Len(q)
    PROVE  RemoveAt(q, k) \in Seq(E)
<1> DEFINE n == Len(q)
           m == k + 1
           p1 == SubSeq(q, 1, k - 1)
           p2 == SubSeq(q, m, n)
<1>1. n \in Nat /\ m \in Int /\ k - 1 \in Int /\ \A i \in 1 .. n : q[i] \in E
  BY LenProperties, ElementOfSeq
<1>2. p1 \in Seq(E)
  <2>1. \A i \in 1 .. k - 1 : q[i] \in E
    BY <1>1
  <2> QED
    BY <1>1, <2>1, SubSeqProperties
<1>3. p2 \in Seq(E)
  <2>1. \A i \in m .. n : q[i] \in E
    BY <1>1
  <2> HIDE DEF m, n
  <2> QED
    BY <1>1, <2>1, SubSeqProperties
<1>4. RemoveAt(q, k) = p1 \o p2
  BY DEF RemoveAt
<1> HIDE DEF p1, p2
<1> QED
  BY <1>2, <1>3, <1>4, ConcatProperties

\* an idle slot gets tokens
Given(x, toks) == [x EXCEPT !.toks = toks]
LEMMA GivenRoomy ==
    ASSUME NEW kv2 \in [Cells -> RoomCell], NEW x \in RoomSlot, NEW s, x.st = "IDLE",
           NEW toks \in Seq(AnyTok), toks = <<>> => NoCells(kv2, s)
    PROVE  LET y == Given(x, toks) IN y \in RoomSlot /\ Roomy(kv2, y, s) /\ y.st = "IDLE"
<1> DEFINE y == Given(x, toks)
<1>1. y \in RoomSlot /\ y.toks = toks /\ y.st = "IDLE"
  BY DEF RoomSlot, Given
<1> HIDE DEF y
<1> QED
  BY <1>1 DEF Roomy, y

LEMMA RoomPromptLoad ==
    ASSUME NEW S, Alone(S, 0), NEW s \in Slots, NEW prompt, S.slot[s].st = "IDLE", params.n_ctx \in Nat
    PROVE  LET R == PromptLoad(S, s, prompt)
           IN  Alone(R, 0) /\ R.slot[s].st = "IDLE"
<1> DEFINE k == BestSaved(S, s, prompt)
           R == PromptLoad(S, s, prompt)
<1>1. /\ S.cells \in [Cells -> RoomCell] /\ S.slot \in [Slots -> RoomSlot] /\ S.saved \in Seq(RoomEntry)
      /\ Len(S.saved) \in Nat /\ \A j \in 1 .. Len(S.saved) : S.saved[j] \in RoomEntry
  BY AloneFields
<1>2. k \in 0 .. Len(S.saved)
  BY <1>1, BestSavedLemma
<1>3. CASE k = 0
  BY <1>3 DEF PromptLoad
<1>4. CASE k # 0 /\ ~Fits(S.cells, s, S.saved[k].rows)
  <2> DEFINE P == PromptClear(S, s)
  <2>1. R = P
    BY <1>4 DEF PromptLoad
  <2>2. Alone(P, 0) /\ P.slot = [S.slot EXCEPT ![s] = Cleared(S.slot[s])]
    BY AloneCleared
  <2>3. Cleared(S.slot[s]).st = "IDLE"
    BY <1>1 DEF Cleared, RoomSlot
  <2> HIDE DEF P, R
  <2> QED
    BY <1>1, <2>1, <2>2, <2>3 DEF R
<1>5. CASE k # 0 /\ Fits(S.cells, s, S.saved[k].rows)
  <2> DEFINE e == S.saved[k]
             kv == Restored(S.cells, s, e.rows)
             x == Given(S.slot[s], e.toks)
             new == RemoveAt(S.saved, k)
             P == Changed(S, s, kv, x, new)
  <2>1. k \in 1 .. Len(S.saved)
    BY <1>1, <1>2, <1>5
  <2>2. R = P
    BY <1>5 DEF PromptLoad, Alone, RoomBase, Changed, Given
  <2> HIDE DEF k, R
  <2>3. e \in RoomEntry /\ e.toks \in Seq(AnyTok)
    BY <1>1, <2>1 DEF RoomEntry
  <2>4. new \in Seq(RoomEntry)
    BY <1>1, <2>1, Removed
  <2> HIDE DEF e, new
  <2>5. /\ kv \in [Cells -> RoomCell] /\ \A t \in Slots \ {s} : Fewer(S.cells, kv, t)
        /\ e.toks = <<>> => NoCells(kv, s)
    BY <1>1, <2>3, RoomRestored
  <2> HIDE DEF kv
  <2>6. x \in RoomSlot /\ Roomy(kv, x, s) /\ x.st = "IDLE"
    <3>1. S.slot[s] \in RoomSlot
      BY <1>1
    <3> QED
      BY <2>3, <2>5, <3>1, GivenRoomy
  <2> HIDE DEF x
  <2>7. Alone(P, 0) /\ P.slot[s] = x
    BY <2>4, <2>5, <2>6, AloneChanged
  <2> HIDE DEF P
  <2> QED
    BY <2>2, <2>6, <2>7 DEF R
<1> QED
  BY <1>3, <1>4, <1>5

-----------------------------------------------------------------------------
(***************************************************************************)
(* The tasks                                                               *)
(***************************************************************************)

RoomSaveLoop == INSTANCE Loop WITH
    N <- NSlots, Turn <- LAMBDA c, S, s : SaveAndClear(S, s), Good <- LAMBDA c, S, k : Alone(S, k)

LEMMA RoomSaveTurn ==
    ASSUME params.n_ctx \in Nat, NEW s \in Slots, NEW S, NEW j, NEW k, Alone(S, j)
    PROVE  \A T \in SaveAndClear(S, s) : Alone(T, k)
<1>1. Alone(S, 0)
  BY DEF Alone
<1>2. CASE Processing(S, s) \/ S.slot[s].toks = <<>>
  BY <1>1, <1>2 DEF SaveAndClear, Alone
<1>3. CASE ~(Processing(S, s) \/ S.slot[s].toks = <<>>)
  <2> DEFINE P == PromptSave(S, s)
             Q == PromptClear(P, s)
             R == CacheUpdate(Q)
  <2>1. SaveAndClear(S, s) = {R}
    BY <1>3 DEF SaveAndClear
  <2>2. Alone(P, 0)
    BY <1>1, <1>3, RoomPromptSave DEF Processing
  <2> HIDE DEF P
  <2>3. Alone(Q, 0)
    BY <2>2, AloneCleared
  <2> HIDE DEF Q
  <2>4. Alone(R, 0)
    BY <2>3, RoomCacheUpdate
  <2> HIDE DEF R
  <2> QED
    BY <2>1, <2>4 DEF Alone
<1> QED
  BY <1>2, <1>3

LEMMA RoomSaveAll ==
    ASSUME params.n_ctx \in Nat, NEW S, Alone(S, 0)
    PROVE  \A T \in Each(SaveAndClear, {S}) : Alone(T, NSlots)
<1>1. Each(SaveAndClear, {S}) = RoomSaveLoop!After(0, {S})
  BY DEF Each, RoomSaveLoop!After
<1>2. \A T \in {S} : Alone(T, 0)
  OBVIOUS
<1>3. \A s \in 1 .. NSlots : \A R : Alone(R, s - 1) => \A T \in SaveAndClear(R, s) : Alone(T, s)
  BY RoomSaveTurn DEF Slots
<1> QED
  BY <1>1, <1>2, <1>3, NSlotsAssumption, RoomSaveLoop!LoopRule

LEMMA RoomChosen ==
    ASSUME params.n_ctx \in Nat, NEW s \in Slots, NEW S, Alone(S, 0), S.slot[s].st = "IDLE", NEW r
    PROVE  \A T \in Chosen(S, r, s) : Alone(T, 0) /\ T.slot[s].st = "IDLE"
<1>1. CASE ~UpdatesCache(S, r, s)
  BY <1>1 DEF Chosen
<1>2. CASE UpdatesCache(S, r, s)
  <2> DEFINE K == IF S.slot[s].toks = <<>> THEN S ELSE PromptSave(S, s)
             L == PromptLoad(K, s, r.prompt)
             R == CacheUpdate(L)
  <2>1. Chosen(S, r, s) = {R}
    BY <1>2 DEF Chosen
  <2>2. Alone(K, 0) /\ K.slot[s].st = "IDLE"
    BY RoomPromptSave
  <2> HIDE DEF K
  <2>3. Alone(L, 0) /\ L.slot[s].st = "IDLE"
    BY <2>2, RoomPromptLoad
  <2> HIDE DEF L
  <2>4. Alone(R, 0) /\ R.slot[s].st = "IDLE"
    BY <2>3, RoomCacheUpdate
  <2> HIDE DEF R
  <2> QED
    BY <2>1, <2>4
<1> QED
  BY <1>1, <1>2

\* an idle slot gets a task
LEMMA TaskedRoomy ==
    ASSUME NEW kv, NEW x \in RoomSlot, NEW s, x.st = "IDLE", Roomy(kv, x, s), NEW r \in params.requests, r \in Request,
           NEW child \in BOOLEAN, NEW p \in Slots \cup {NoSlot}, NEW st,
           st = IF child THEN "WAIT_OTHER" ELSE "STARTED"
    PROVE  LET y == [x EXCEPT !.st = st, !.task = TaskOf(r, child, p)] IN y \in RoomSlot /\ Roomy(kv, y, s)
<1> DEFINE task == TaskOf(r, child, p)
           x1 == [x EXCEPT !.st = st]
           y == [x1 EXCEPT !.task = task]
<1>1. task \in ServerTask /\ task.kind = r.kind /\ task.child = child
  BY DEF TaskOf, ServerTask, Request
<1> HIDE DEF task
<1>2. x1 \in RoomSlot /\ x1.st = st /\ x1.toks = x.toks
  BY DEF RoomSlot, States
<1> HIDE DEF x1
<1>3. y \in RoomSlot /\ y.st = st /\ y.toks = x.toks /\ y.task = task
  BY <1>1, <1>2 DEF RoomSlot
<1>4. y = [x EXCEPT !.st = st, !.task = TaskOf(r, child, p)]
  BY Zenon DEF x1, task
<1> HIDE DEF y
<1>5. y.st = "WAIT_OTHER" => ~Plain(y)
  BY <1>1, <1>3, NoTaskAssumption DEF Plain
<1>6. y.toks = <<>> => NoCells(kv, s)
  BY <1>3 DEF Roomy, Waiting
<1>7. Roomy(kv, y, s)
  BY <1>1, <1>3, <1>5, <1>6 DEF Roomy
<1> QED
  BY <1>3, <1>4, <1>7

\* launch_slot_with_task(), for a parent and its children.
LEMMA RoomStarted ==
    ASSUME NEW s \in Slots, NEW S, Alone(S, 0), S.slot[s].st = "IDLE", NEW r \in params.requests, r \in Request
    PROVE  Alone(Started(S, r, s), 0)
<1> DEFINE kids == ChildSlots(S, r, s)
           own == [S.slot[s] EXCEPT !.st = "STARTED", !.task = TaskOf(r, FALSE, NoSlot)]
           kid(t) == [S.slot[t] EXCEPT !.st = "WAIT_OTHER", !.task = TaskOf(r, TRUE, s)]
           sl == [t \in Slots |->
                    IF t = s THEN [S.slot[t] EXCEPT !.st = "STARTED", !.task = TaskOf(r, FALSE, NoSlot)]
                    ELSE IF t \in kids THEN [S.slot[t] EXCEPT !.st = "WAIT_OTHER", !.task = TaskOf(r, TRUE, s)]
                    ELSE S.slot[t]]
           R == [S EXCEPT !.slot = sl]
<1>1. S.slot \in [Slots -> RoomSlot] /\ \A t \in Slots : Roomy(S.cells, S.slot[t], t)
  BY AloneFields
<1>2. Started(S, r, s) = R
  BY DEF Started
<1>3. \A t \in kids : t \in Slots /\ S.slot[t].st = "IDLE"
  BY DEF ChildSlots, Idle, Processing
<1>4. own \in RoomSlot /\ Roomy(S.cells, own, s)
  <2>1. NoSlot \in Slots \cup {NoSlot} /\ FALSE \in BOOLEAN
    OBVIOUS
  <2> QED
    BY <1>1, <2>1, TaskedRoomy
<1>5. ASSUME NEW t \in kids PROVE kid(t) \in RoomSlot /\ Roomy(S.cells, kid(t), t)
  <2>1. t \in Slots /\ S.slot[t].st = "IDLE" /\ S.slot[t] \in RoomSlot /\ Roomy(S.cells, S.slot[t], t)
    BY <1>1, <1>3
  <2>2. s \in Slots \cup {NoSlot} /\ TRUE \in BOOLEAN
    OBVIOUS
  <2> QED
    BY <2>1, <2>2, TaskedRoomy
<1>6. /\ sl = [t \in Slots |-> sl[t]]
      /\ \A t \in Slots : sl[t] = IF t = s THEN own ELSE IF t \in kids THEN kid(t) ELSE S.slot[t]
  OBVIOUS
<1> HIDE DEF sl, own, kid, kids
<1>7. sl \in [Slots -> RoomSlot] /\ \A t \in Slots : Roomy(S.cells, sl[t], t)
  <2>1. \A t \in Slots : sl[t] \in RoomSlot /\ Roomy(S.cells, sl[t], t)
    BY <1>1, <1>4, <1>5, <1>6
  <2> QED
    BY <1>6, <2>1
<1>8. R.cells = S.cells /\ R.slot = sl /\ R.saved = S.saved /\ R \in RoomBase
  BY <1>7 DEF Alone, RoomBase
<1> HIDE DEF R
<1>9. Room(S.cells, sl, S.saved, <<>>, 0)
  <2>1. Len(<<>>) = 0
    BY EmptySeq
  <2> QED
    BY <1>7, <2>1 DEF Alone, Room, RoomTyped
<1>10. Alone(R, 0)
  BY <1>8, <1>9 DEF Alone
<1> QED
  BY <1>2, <1>10

\* The parameters do not change.
LEMMA RoomPrime ==
    ASSUME NEW S, NEW q, NEW h, Room(S.cells, S.slot, S.saved, q, h), params' = params,
           cells' = S.cells, slot' = S.slot, saved' = S.saved, batch' = q, at' = h
    PROVE  Room(cells, slot, saved, batch, at)'
<1>1. RoomTyped(cells, slot, saved)'
  BY DEF Room, RoomTyped, Cells
<1>2. ASSUME NEW s \in Slots PROVE Roomy(cells, slot[s], s)'
  <2>1. Roomy(S.cells, S.slot[s], s)
    BY DEF Room
  <2> QED
    BY <2>1 DEF Roomy, Cells, NoCells
<1>3. ASSUME NEW k \in h + 1 .. Len(q) PROVE RoomyRow(S.slot[q[k].slot], q[k].pos, k)
  BY DEF Room
<1>4. (\A k \in at + 1 .. Len(batch) : RoomyRow(slot[batch[k].slot], batch[k].pos, k))'
  BY <1>3 DEF RoomyRow
<1> QED
  BY <1>1, <1>2, <1>4 DEF Room

LEMMA RoomAtTasks ==
    ASSUME RoomInv, phase = "tasks"
    PROVE  /\ Alone(State, 0) /\ params.n_ctx \in Nat /\ params \in Configs
           /\ State.cells = cells /\ State.slot = slot /\ State.saved = saved
<1>1. Room(cells, slot, saved, <<>>, 0)
  BY DEF RoomInv
<1>2. State \in RoomBase /\ State.cells = cells /\ State.slot = slot /\ State.saved = saved
  BY <1>1 DEF State, RoomBase, Room, RoomTyped
<1>3. params.n_ctx \in Nat /\ params \in Configs
  BY ConfigsAssumption DEF RoomInv, Config
<1> QED
  BY <1>1, <1>2, <1>3 DEF Alone

LEMMA RoomTaskStep ==
    ASSUME RoomInv, phase = "tasks", NEW S, Alone(S, 0), Take(S), SameBatch, file' = file
    PROVE  RoomInv'
<1>1. /\ params' = params /\ batch' = <<>> /\ at' = 0 /\ n_batch' = n_batch /\ phase' = phase
      /\ n_batch = params.n_batch
  BY DEF SameBatch, RoomInv
<1>2. Room(cells, slot, saved, batch, at)'
  <2> DEFINE q == <<>>
  <2>1. Room(S.cells, S.slot, S.saved, q, 0) /\ batch' = q
    BY <1>1 DEF Alone
  <2> HIDE DEF q
  <2> QED
    BY <1>1, <2>1, RoomPrime DEF Take
<1>3. (file # NoFile => file \in RoomEntry)'
  BY <1>1 DEF RoomInv
<1>4. /\ params' \in Configs
      /\ batch' \in Seq(RoomRow) /\ at' \in Nat /\ n_batch' \in Nat
      /\ phase' = "tasks" => batch' = <<>> /\ at' = 0 /\ n_batch' = params'.n_batch
  BY <1>1, EmptySeq DEF RoomInv
<1> QED
  BY <1>2, <1>3, <1>4 DEF RoomInv

LEMMA RoomLaunch ==
    ASSUME RoomInv, NEW r \in params.requests, NEW s \in Slots, Launch(r, s)
    PROVE  RoomInv'
<1>1. Alone(State, 0) /\ params.n_ctx \in Nat /\ phase = "tasks"
  BY RoomAtTasks DEF Launch
<1>2. r \in Request
  BY ConfigsAssumption DEF RoomInv, Config
<1>3. State.slot[s].st = "IDLE"
  BY DEF Launch, Idle, Processing
<1>4. PICK S \in IF r.id_slot = NoSlot THEN Chosen(State, r, s) ELSE {State} :
        \E L \in IF Cardinality(ChildSlots(S, r, s)) < r.children THEN {S}
                 ELSE IF params.cache_idle THEN Each(SaveAndClear, {Started(S, r, s)})
                 ELSE {Started(S, r, s)} : Take(L)
  BY DEF Launch
<1>5. Alone(S, 0) /\ S.slot[s].st = "IDLE"
  <2>1. \A T \in Chosen(State, r, s) : Alone(T, 0) /\ T.slot[s].st = "IDLE"
    BY <1>1, <1>3, RoomChosen
  <2> QED
    BY <1>1, <1>3, <1>4, <2>1
<1>6. PICK L \in IF Cardinality(ChildSlots(S, r, s)) < r.children THEN {S}
                 ELSE IF params.cache_idle THEN Each(SaveAndClear, {Started(S, r, s)})
                 ELSE {Started(S, r, s)} : Take(L)
  BY <1>4
<1> DEFINE X == Started(S, r, s)
<1>7. Alone(X, 0)
  BY <1>2, <1>5, RoomStarted
<1> HIDE DEF X
<1>8. \A T \in Each(SaveAndClear, {X}) : Alone(T, 0)
  BY <1>1, <1>7, RoomSaveAll DEF Alone
<1>9. Alone(L, 0)
  <2>1. L = S \/ L \in Each(SaveAndClear, {X}) \/ L = X
    BY <1>6 DEF X
  <2> QED
    BY <1>5, <1>7, <1>8, <2>1
<1> QED
  BY <1>1, <1>6, <1>9, RoomTaskStep DEF Launch

\* Without embeddings, or without cancellations, a released slot without tokens has no cells.
LEMMA RoomCancel ==
    ASSUME Tidy(params), RoomInv, NEW s \in Slots, Cancel(s)
    PROVE  RoomInv'
<1> DEFINE q == <<>>
           R == Release(State, s)
<1>1. /\ Alone(State, 0) /\ phase = "tasks" /\ slot[s].st # "IDLE" /\ "cancel" \in params.faults
      /\ State.slot = slot
  BY RoomAtTasks DEF Cancel, Processing
<1>2. ~Waiting(State.slot[s])
  <2>1. Roomy(State.cells, State.slot[s], s)
    BY <1>1, AloneFields
  <2> QED
    BY <1>1, <2>1 DEF Roomy, Waiting, Tidy
<1>3. q \in Seq(RoomRow) /\ 0 \in Nat /\ (\A k \in 0 + 1 .. Len(q) : q[k].slot # s)
  BY EmptySeq
<1>4. State \in RoomBase /\ Room(State.cells, State.slot, State.saved, q, 0)
  BY <1>1 DEF Alone
<1> HIDE DEF q, R
<1>5. Keeps(State, R) /\ Room(R.cells, R.slot, R.saved, q, 0)
  BY <1>2, <1>3, <1>4, RoomRelease DEF R
<1>6. Alone(R, 0)
  BY <1>4, <1>5 DEF Alone, Keeps, q
<1> QED
  BY <1>1, <1>6, RoomTaskStep DEF Cancel, R

LEMMA RoomSlotSave ==
    ASSUME RoomInv, NEW s \in Slots, SlotSave(s)
    PROVE  RoomInv'
<1> DEFINE e == [toks |-> slot[s].toks, rows |-> Rows(cells, s)]
<1>1. /\ Alone(State, 0) /\ params.n_ctx \in Nat /\ slot[s].st = "IDLE"
      /\ State.cells = cells /\ State.slot = slot /\ State.saved = saved
  BY RoomAtTasks DEF SlotSave, Processing
<1>2. e \in RoomEntry
  BY <1>1, AloneEntry
<1> HIDE DEF e
<1>3. /\ file' = e /\ params' = params /\ batch' = batch /\ at' = at /\ n_batch' = n_batch /\ phase' = phase
      /\ cells' = cells /\ slot' = slot /\ saved' = saved
  BY DEF SlotSave, SameBatch, e
<1>4. Room(cells, slot, saved, batch, at)'
  <2>1. Room(State.cells, State.slot, State.saved, batch, at)
    BY <1>1 DEF RoomInv
  <2> QED
    BY <1>1, <1>3, <2>1, RoomPrime
<1> QED
  BY <1>2, <1>3, <1>4 DEF RoomInv

LEMMA RoomErase ==
    ASSUME RoomInv, NEW s \in Slots, SlotErase(s)
    PROVE  RoomInv'
<1>1. Alone(State, 0) /\ phase = "tasks"
  BY RoomAtTasks DEF SlotErase
<1>2. Alone(PromptClear(State, s), 0)
  BY <1>1, AloneCleared
<1> QED
  BY <1>1, <1>2, RoomTaskStep DEF SlotErase

LEMMA RoomRestore ==
    ASSUME RoomInv, NEW s \in Slots, SlotRestore(s)
    PROVE  RoomInv'
<1> DEFINE kv == Restored(cells, s, file.rows)
           x == Given(slot[s], file.toks)
           R == Changed(State, s, kv, x, saved)
<1>1. /\ Alone(State, 0) /\ params.n_ctx \in Nat /\ phase = "tasks" /\ slot[s].st = "IDLE"
      /\ State.cells = cells /\ State.slot = slot /\ State.saved = saved
  BY RoomAtTasks DEF SlotRestore, Processing
<1>2. cells \in [Cells -> RoomCell] /\ slot \in [Slots -> RoomSlot] /\ saved \in Seq(RoomEntry)
  BY <1>1, AloneFields
<1>3. file \in RoomEntry /\ file.toks \in Seq(AnyTok)
  BY DEF SlotRestore, RoomInv, RoomEntry
<1>4. CASE Fits(cells, s, file.rows)
  <2>1. /\ kv \in [Cells -> RoomCell] /\ \A t \in Slots \ {s} : Fewer(cells, kv, t)
        /\ file.toks = <<>> => NoCells(kv, s)
    BY <1>1, <1>2, <1>3, RoomRestored
  <2>2. Take(R)
    <3>1. [State EXCEPT !.cells = Restored(@, s, file.rows), !.slot[s].toks = file.toks] = R
      BY <1>1 DEF State, Changed, Given
    <3> QED
      BY <1>4, <3>1 DEF SlotRestore
  <2> HIDE DEF kv
  <2>3. x \in RoomSlot /\ Roomy(kv, x, s)
    <3>1. slot[s] \in RoomSlot
      BY <1>2
    <3> QED
      BY <1>1, <1>3, <2>1, <3>1, GivenRoomy
  <2> HIDE DEF x
  <2>4. Alone(R, 0)
    BY <1>1, <1>2, <2>1, <2>3, AloneChanged
  <2> HIDE DEF R
  <2> QED
    BY <1>1, <2>2, <2>4, RoomTaskStep DEF SlotRestore
<1>5. CASE ~Fits(cells, s, file.rows)
  <2>1. Alone(PromptClear(State, s), 0)
    BY <1>1, AloneCleared
  <2> QED
    BY <1>1, <1>5, <2>1, RoomTaskStep DEF SlotRestore
<1> QED
  BY <1>4, <1>5

-----------------------------------------------------------------------------
(***************************************************************************)
(* The loops of update_slots                                               *)
(***************************************************************************)

RoomShiftGood(S, k) == S \in RoomFill /\ S.batch = <<>> /\ Room(S.cells, S.slot, S.saved, <<>>, 0)
RoomBatchGood(S, k) == S \in RoomFill /\ Room(S.cells, S.slot, S.saved, S.batch, 0)

RoomShiftLoop == INSTANCE Loop WITH
    N <- NSlots, Turn <- LAMBDA c, S, s : ShiftSlot(S, s), Good <- LAMBDA c, S, k : RoomShiftGood(S, k)
RoomAddLoop == INSTANCE Loop WITH
    N <- NSlots, Turn <- LAMBDA c, S, s : AddSampled(S, s), Good <- LAMBDA c, S, k : RoomBatchGood(S, k)
RoomFillLoop == INSTANCE Loop WITH
    N <- NSlots, Turn <- LAMBDA c, S, s : FillSlot(S, s), Good <- LAMBDA c, S, k : RoomBatchGood(S, k)

\* The context shift: no cell of any sequence moves up, and those of s end before its tokens do.
LEMMA RoomShiftCells ==
    ASSUME NEW kv \in [Cells -> RoomCell], NEW s \in Slots, NEW toks \in Seq(AnyTok), NEW keep \in Nat, NEW d \in Nat,
           keep <= Len(toks), \A i \in Cells : s \in kv[i].seqs => kv[i].pos < Len(toks)
    PROVE  LET kv2 == SeqAdd(SeqRm(kv, s, keep, keep + d), s, keep + d, Len(toks), -d)
               new == SubSeq(toks, 1, keep) \o SubSeq(toks, keep + d + 1, Len(toks))
           IN  /\ kv2 \in [Cells -> RoomCell] /\ new \in Seq(AnyTok)
               /\ \A t : Fewer(kv, kv2, t)
               /\ \A i \in Cells : s \in kv2[i].seqs => kv2[i].pos < Len(new)
<1> DEFINE n == Len(toks)
           kv1 == SeqRm(kv, s, keep, keep + d)
           kv2 == SeqAdd(kv1, s, keep + d, n, -d)
           m == keep + d + 1
           p1 == SubSeq(toks, 1, keep)
           p2 == SubSeq(toks, m, n)
           new == p1 \o p2
<1>1. n \in Nat /\ \A i \in 1 .. n : toks[i] \in AnyTok
  BY LenProperties, ElementOfSeq
<1>2. /\ kv1 \in [Cells -> RoomCell] /\ \A t : Fewer(kv, kv1, t)
      /\ \A i \in Cells : s \in kv1[i].seqs => kv1[i] = kv[i] /\ ~OfSeq(kv[i], s, keep, keep + d)
  BY RoomRm
<1> HIDE DEF kv1
<1>3. keep + d \in Nat /\ d <= keep + d
  OBVIOUS
<1>4. /\ kv2 \in [Cells -> RoomCell] /\ \A t : Fewer(kv1, kv2, t)
      /\ \A i \in Cells : s \in kv2[i].seqs =>
            s \in kv1[i].seqs /\ kv2[i].pos = IF OfSeq(kv1[i], s, keep + d, n) THEN kv1[i].pos - d ELSE kv1[i].pos
  BY <1>2, <1>3, RoomAdd
<1> HIDE DEF kv2
<1>5. \A t : Fewer(kv, kv2, t)
  BY <1>2, <1>4, FewerTrans
<1>6. m \in Int /\ m = keep + d + 1
  OBVIOUS
<1>7. p1 \in Seq(AnyTok) /\ Len(p1) = keep
  <2>1. \A i \in 1 .. keep : toks[i] \in AnyTok
    BY <1>1
  <2>2. p1 \in Seq(AnyTok) /\ Len(p1) = IF 1 <= keep THEN keep - 1 + 1 ELSE 0
    BY <2>1, SubSeqProperties
  <2> HIDE DEF p1
  <2> QED
    BY <2>2
<1>8. p2 \in Seq(AnyTok) /\ Len(p2) = IF m <= n THEN n - m + 1 ELSE 0
  <2>1. \A i \in m .. n : toks[i] \in AnyTok
    BY <1>1
  <2> HIDE DEF m, n
  <2> QED
    BY <1>1, <1>6, <2>1, SubSeqProperties
<1> HIDE DEF p1, p2, m, n
<1>9. new \in Seq(AnyTok) /\ Len(new) = Len(p1) + Len(p2)
  BY <1>7, <1>8, ConcatProperties
<1> HIDE DEF new
<1>10. ASSUME NEW i \in Cells, s \in kv2[i].seqs
       PROVE  kv2[i].pos < Len(new)
  <2>1. s \in kv1[i].seqs /\ kv2[i].pos = IF OfSeq(kv1[i], s, keep + d, n) THEN kv1[i].pos - d ELSE kv1[i].pos
    BY <1>4, <1>10
  <2>2. kv1[i] = kv[i] /\ ~OfSeq(kv[i], s, keep, keep + d) /\ s \in kv[i].seqs
    BY <1>2, <2>1
  <2>3. kv[i].pos \in Nat /\ kv[i].pos < n
    BY <2>2, RoomCellLemma DEF n
  <2> DEFINE p == kv[i].pos
  <2>4. p < keep \/ (p >= keep + d /\ OfSeq(kv1[i], s, keep + d, n))
    <3>1. ~(keep <= p /\ (keep + d = -1 \/ p < keep + d))
      BY <2>2 DEF OfSeq, End
    <3>2. p \in Nat /\ p < n
      BY <2>3
    <3>3. p < keep \/ p >= keep + d
      <4> HIDE DEF p
      <4> QED
        BY <3>1, <3>2
    <3>4. p >= keep + d => OfSeq(kv1[i], s, keep + d, n)
      BY <1>3, <2>1, <2>2, <3>2 DEF OfSeq
    <3> QED
      BY <3>3, <3>4
  <2>5. kv2[i].pos = p \/ kv2[i].pos = p - d
    BY <2>1, <2>2
  <2>6. OfSeq(kv1[i], s, keep + d, n) => kv2[i].pos = p - d
    BY <2>1, <2>2
  <2>7. p \in Nat /\ p < n
    BY <2>3
  <2>8. Len(new) = keep + (IF keep + d + 1 <= n THEN n - keep - d ELSE 0)
    BY <1>1, <1>6, <1>7, <1>8, <1>9
  <2> HIDE DEF p
  <2> QED
    BY <1>1, <2>4, <2>5, <2>6, <2>7, <2>8
<1> QED
  BY <1>4, <1>5, <1>9, <1>10 DEF kv2, kv1, new, p1, p2, m, n

\* Release() of a slot when the batch is empty.
LEMMA ReleasedEarly ==
    ASSUME NEW S, RoomShiftGood(S, 0), NEW s \in Slots, ~Waiting(S.slot[s])
    PROVE  RoomShiftGood(Release(S, s), 0)
<1> DEFINE q == <<>>
           R == Release(S, s)
<1>1. q \in Seq(RoomRow) /\ 0 \in Nat /\ (\A k \in 0 + 1 .. Len(q) : q[k].slot # s)
  BY EmptySeq
<1>2. S \in RoomFill /\ Room(S.cells, S.slot, S.saved, q, 0) /\ S.batch = q
  BY DEF RoomShiftGood
<1> HIDE DEF q, R
<1>3. Keeps(S, R) /\ Room(R.cells, R.slot, R.saved, q, 0)
  BY <1>1, <1>2, RoomRelease DEF R
<1>4. RoomShiftGood(R, 0)
  BY <1>2, <1>3 DEF RoomShiftGood, Keeps, q
<1> QED
  BY <1>4 DEF R

\* a slot of RoomFill gets other tokens and cells
Filled(S, s, kv, x) == [S EXCEPT !.cells = kv, !.slot = [S.slot EXCEPT ![s] = x]]
LEMMA FilledLemma ==
    ASSUME NEW S \in RoomFill, NEW s \in Slots, NEW kv \in [Cells -> RoomCell], NEW x \in RoomSlot,
           \A t \in Slots \ {s} : Fewer(S.cells, kv, t)
    PROVE  LET R == Filled(S, s, kv, x)
           IN  /\ R \in RoomFill /\ R.cells = kv /\ R.saved = S.saved /\ R.batch = S.batch /\ R.slot[s] = x
               /\ Spares(S.cells, S.slot, R.cells, R.slot, s)
<1> DEFINE sl == [S.slot EXCEPT ![s] = x]
           R == Filled(S, s, kv, x)
<1>1. S.slot \in [Slots -> RoomSlot]
  BY RoomFields
<1>2. sl \in [Slots -> RoomSlot] /\ sl[s] = x /\ \A t \in Slots \ {s} : sl[t] = S.slot[t]
  BY <1>1
<1> HIDE DEF sl
<1>3. R.cells = kv /\ R.slot = sl /\ R.saved = S.saved /\ R.batch = S.batch /\ R \in RoomFill
  BY <1>2 DEF RoomFill, Filled, sl
<1> HIDE DEF R
<1>4. Spares(S.cells, S.slot, kv, sl, s)
  BY <1>2, AlikeSelf DEF Spares
<1> QED
  BY <1>2, <1>3, <1>4 DEF R

LEMMA RoomShiftTurn ==
    ASSUME params.n_ctx \in Nat, params.n_ctx >= 4, NEW s \in Slots, NEW S, NEW j, NEW k, RoomShiftGood(S, j)
    PROVE  \A T \in ShiftSlot(S, s) : RoomShiftGood(T, k)
<1>1. RoomShiftGood(S, 0) /\ S \in RoomFill /\ S.batch = <<>> /\ Room(S.cells, S.slot, S.saved, <<>>, 0)
  BY DEF RoomShiftGood
<1>2. S.cells \in [Cells -> RoomCell] /\ S.slot \in [Slots -> RoomSlot] /\ Roomy(S.cells, S.slot[s], s)
  BY <1>1, RoomFields DEF Room
<1>3. CASE ShiftSlot(S, s) = {S}
  BY <1>1, <1>3 DEF RoomShiftGood
<1>4. CASE S.slot[s].st = "GENERATING" /\ ShiftSlot(S, s) = {Release(S, s)}
  BY <1>1, <1>4, ReleasedEarly DEF RoomShiftGood, Waiting
<1>5. CASE /\ S.slot[s].st = "GENERATING" /\ Len(S.slot[s].toks) + 1 >= params.n_ctx
           /\ ~IsParent(S, s) /\ ~IsChild(S, s) /\ ShiftSlot(S, s) = {Shift(S, s)}
  <2> DEFINE toks == S.slot[s].toks
             n == Len(toks)
             task == S.slot[s].task
             want == IF task.keep < 0 THEN Len(task.prompt) ELSE task.keep
             keep == Min({params.n_ctx - 4, want})
             d == IF task.discard > 0 THEN task.discard ELSE (n - keep) \div 2
             kv2 == SeqAdd(SeqRm(S.cells, s, keep, keep + d), s, keep + d, n, -d)
             new == SubSeq(toks, 1, keep) \o SubSeq(toks, keep + d + 1, n)
             x == Given(S.slot[s], new)
             R == Filled(S, s, kv2, x)
  <2>1. Shift(S, s) = R
    BY <1>1 DEF Shift, NKeep, Filled, Given, RoomFill
  <2>2. toks \in Seq(AnyTok) /\ n \in Nat /\ S.slot[s] \in RoomSlot
    BY <1>2, LenProperties DEF RoomSlot
  <2>3. task \in ServerTask /\ task # NoTask
    BY <1>2, <1>5, NoTaskAssumption DEF Roomy
  <2>4. Plain(S.slot[s])
    <3>1. ~(task.children > 0) /\ ~task.child /\ task.children \in Nat
      BY <1>5, <2>3 DEF IsParent, IsChild, ServerTask
    <3>2. task.children = 0
      <4> HIDE DEF task
      <4> QED
        BY <3>1
    <3> QED
      BY <3>1, <3>2 DEF Plain
  <2>5. want \in Nat
    <3>1. Len(task.prompt) \in Nat /\ task.keep \in Int
      BY <2>3, LenProperties DEF ServerTask
    <3> HIDE DEF task
    <3> QED
      BY <3>1
  <2>6. keep \in Nat /\ keep <= params.n_ctx - 4
    <3> HIDE DEF want
    <3>1. params.n_ctx - 4 \in Nat
      OBVIOUS
    <3> QED
      BY <2>5, <3>1, MinOfTwo
  <2>7. keep <= n
    <3>1. n + 1 >= params.n_ctx
      BY <1>5
    <3> HIDE DEF n, keep
    <3> QED
      BY <2>2, <2>6, <3>1
  <2>8. d \in Nat
    <3>1. task.discard \in Nat
      BY <2>3 DEF ServerTask
    <3>2. (n - keep) \div 2 \in Nat
      <4> HIDE DEF n, keep
      <4> QED
        BY <2>2, <2>6, <2>7
    <3> HIDE DEF n, keep, task
    <3> QED
      BY <3>1, <3>2
  <2>9. \A i \in Cells : s \in S.cells[i].seqs => S.cells[i].pos < n
    BY <1>2, <1>5, <2>4 DEF Roomy
  <2>10. /\ kv2 \in [Cells -> RoomCell] /\ new \in Seq(AnyTok)
         /\ \A t : Fewer(S.cells, kv2, t)
         /\ \A i \in Cells : s \in kv2[i].seqs => kv2[i].pos < Len(new)
    <3> HIDE DEF keep, d, toks
    <3> QED
      BY <1>2, <2>2, <2>6, <2>7, <2>8, <2>9, RoomShiftCells
  <2> HIDE DEF kv2, new, toks
  <2>11. x \in RoomSlot /\ x.toks = new /\ x.st = "GENERATING" /\ x.task = task
    BY <1>5, <2>2, <2>10 DEF RoomSlot, Given
  <2> HIDE DEF x, task
  <2>12. Roomy(kv2, x, s)
    <3>1. x.task \in ServerTask /\ \E r \in params.requests : r.kind = x.task.kind
      BY <1>2, <1>5, <2>11 DEF Roomy, task
    <3>2. x.toks = <<>> => NoCells(kv2, s)
      <4> SUFFICES ASSUME x.toks = <<>>, NEW i \in Cells, s \in kv2[i].seqs PROVE FALSE
        BY <2>10 DEF NoCells
      <4>1. kv2[i].pos \in Nat
        BY <2>10, RoomCellLemma
      <4>2. kv2[i].pos < 0
        BY <2>10, <2>11, EmptySeq
      <4> QED
        BY <4>1, <4>2
    <3> QED
      BY <2>10, <2>11, <3>1, <3>2 DEF Roomy
  <2>13. /\ R \in RoomFill /\ R.cells = kv2 /\ R.saved = S.saved /\ R.batch = S.batch /\ R.slot[s] = x
         /\ Spares(S.cells, S.slot, R.cells, R.slot, s)
    BY <1>1, <2>10, <2>11, FilledLemma
  <2> HIDE DEF R
  <2> DEFINE q == <<>>
  <2>14. q \in Seq(RoomRow) /\ 0 \in Nat /\ \A i \in 0 + 1 .. Len(q) : q[i].slot = s => RoomyRow(R.slot[s], q[i].pos, i)
    BY EmptySeq
  <2>15. Room(S.cells, S.slot, S.saved, q, 0)
    BY <1>1
  <2> HIDE DEF q
  <2>16. Room(R.cells, R.slot, S.saved, q, 0)
    BY <2>12, <2>13, <2>14, <2>15, OneRoom
  <2>17. RoomShiftGood(R, k)
    BY <1>1, <2>13, <2>16 DEF RoomShiftGood, q
  <2> QED
    BY <1>5, <2>1, <2>17
<1> QED
  <2>1. Len(S.slot[s].toks) \in Nat
    BY <1>2, LenProperties DEF RoomSlot
  <2>2. Len(S.slot[s].toks) + 1 < params.n_ctx \/ Len(S.slot[s].toks) + 1 >= params.n_ctx
    BY <2>1
  <2> QED
    BY <1>3, <1>4, <1>5, <2>2 DEF ShiftSlot

\* The batch gets rows of a busy slot.
LEMMA RoomMore ==
    ASSUME NEW kv, NEW sl, NEW sv, NEW kv2, NEW sl2, NEW s \in Slots, NEW q \in Seq(RoomRow), NEW rows \in Seq(RoomRow),
           Room(kv, sl, sv, q, 0), Spares(kv, sl, kv2, sl2, s), Roomy(kv2, sl2[s], s),
           \A k \in 1 .. Len(q) : q[k].slot = s => RoomyRow(sl2[s], q[k].pos, k),
           \A k \in 1 .. Len(rows) : rows[k].slot = s /\ RoomyRow(sl2[s], rows[k].pos, Len(q) + k)
    PROVE  q \o rows \in Seq(RoomRow) /\ Room(kv2, sl2, sv, q \o rows, 0)
<1> DEFINE q2 == q \o rows
           a == Len(q)
           n == Len(rows)
<1>1. a \in Nat /\ n \in Nat
  BY LenProperties
<1>2. q2 \in Seq(RoomRow) /\ Len(q2) = a + n /\ \A i \in 1 .. a + n : q2[i] = IF i <= a THEN q[i] ELSE rows[i - a]
  BY ConcatProperties
<1>3. Room(kv2, sl2, sv, q, 0)
  <2>1. 0 \in Nat /\ \A k \in 0 + 1 .. Len(q) : q[k].slot = s => RoomyRow(sl2[s], q[k].pos, k)
    OBVIOUS
  <2> QED
    BY <2>1, OneRoom
<1>4. \A k \in 1 .. a : RoomyRow(sl2[q[k].slot], q[k].pos, k)
  BY <1>3 DEF Room
<1>5. \A k \in 1 .. n : rows[k].slot = s /\ RoomyRow(sl2[s], rows[k].pos, a + k)
  OBVIOUS
<1> HIDE DEF q2, a, n
<1>6. ASSUME NEW k \in 1 .. a + n PROVE RoomyRow(sl2[q2[k].slot], q2[k].pos, k)
  <2>1. CASE k <= a
    BY <1>1, <1>2, <1>4, <2>1
  <2>2. CASE ~(k <= a)
    <3>1. k - a \in 1 .. n /\ a + (k - a) = k /\ q2[k] = rows[k - a]
      BY <1>1, <1>2, <2>2
    <3>2. q2[k].slot = s /\ RoomyRow(sl2[s], q2[k].pos, a + (k - a))
      BY <1>5, <3>1
    <3> QED
      BY <3>1, <3>2
  <2> QED
    BY <2>1, <2>2
<1>7. \A k \in 0 + 1 .. Len(q2) : RoomyRow(sl2[q2[k].slot], q2[k].pos, k)
  BY <1>1, <1>2, <1>6
<1>8. Room(kv2, sl2, sv, q2, 0)
  BY <1>3, <1>7 DEF Room
<1> QED
  BY <1>2, <1>8 DEF q2

LEMMA RoomBatch ==
    ASSUME NEW S, NEW k, RoomBatchGood(S, k)
    PROVE  /\ S \in RoomFill /\ Room(S.cells, S.slot, S.saved, S.batch, 0)
           /\ S.cells \in [Cells -> RoomCell] /\ S.slot \in [Slots -> RoomSlot] /\ S.batch \in Seq(RoomRow)
           /\ Len(S.batch) \in Nat
           /\ \A s \in Slots : Roomy(S.cells, S.slot[s], s) /\ S.slot[s] \in RoomSlot /\ S.slot[s].toks \in Seq(AnyTok)
                               /\ Len(S.slot[s].toks) \in Nat
           /\ \A i \in 1 .. Len(S.batch) : RoomyRow(S.slot[S.batch[i].slot], S.batch[i].pos, i)
<1>1. /\ S \in RoomFill /\ Room(S.cells, S.slot, S.saved, S.batch, 0) /\ S.batch \in Seq(RoomRow)
      /\ S.cells \in [Cells -> RoomCell] /\ S.slot \in [Slots -> RoomSlot]
  BY DEF RoomBatchGood, RoomFill
<1>2. \A s \in Slots : S.slot[s] \in RoomSlot /\ S.slot[s].toks \in Seq(AnyTok)
  BY <1>1 DEF RoomSlot
<1>3. Len(S.batch) \in Nat /\ \A s \in Slots : Len(S.slot[s].toks) \in Nat
  BY <1>1, <1>2, LenProperties
<1>4. \A s \in Slots : Roomy(S.cells, S.slot[s], s)
  BY <1>1 DEF Room
<1>5. \A i \in 0 + 1 .. Len(S.batch) : RoomyRow(S.slot[S.batch[i].slot], S.batch[i].pos, i)
  BY <1>1 DEF Room
<1> QED
  BY <1>1, <1>2, <1>3, <1>4, <1>5

\* A slot gets the fields of a batch that grew.
Grown(R, q2, b, f) == [R EXCEPT !.batch = q2, !.batched = b, !.full = f]
LEMMA GrownGood ==
    ASSUME NEW R \in RoomFill, NEW q2 \in Seq(RoomRow), NEW b \in Slots \cup {NoSlot}, NEW f \in BOOLEAN, NEW k,
           Room(R.cells, R.slot, R.saved, q2, 0)
    PROVE  RoomBatchGood(Grown(R, q2, b, f), k)
<1> DEFINE T == Grown(R, q2, b, f)
<1>1. T \in RoomFill /\ T.cells = R.cells /\ T.slot = R.slot /\ T.saved = R.saved /\ T.batch = q2
  BY DEF Grown, RoomFill
<1> HIDE DEF T
<1> QED
  BY <1>1 DEF RoomBatchGood, T

\* AddSampled(S, s): the last token of a generating slot.
LEMMA RoomAddTurn ==
    ASSUME NEW s \in Slots, NEW S, NEW j, NEW k, RoomBatchGood(S, j)
    PROVE  \A T \in AddSampled(S, s) : RoomBatchGood(T, k)
<1>1. /\ S \in RoomFill /\ Room(S.cells, S.slot, S.saved, S.batch, 0)
      /\ S.cells \in [Cells -> RoomCell] /\ S.slot \in [Slots -> RoomSlot] /\ S.batch \in Seq(RoomRow)
      /\ Len(S.batch) \in Nat
      /\ Roomy(S.cells, S.slot[s], s) /\ S.slot[s] \in RoomSlot /\ S.slot[s].toks \in Seq(AnyTok)
      /\ Len(S.slot[s].toks) \in Nat
      /\ \A i \in 1 .. Len(S.batch) : RoomyRow(S.slot[S.batch[i].slot], S.batch[i].pos, i)
  BY RoomBatch
<1>2. CASE AddSampled(S, s) = {S}
  BY <1>1, <1>2 DEF RoomBatchGood
<1>3. CASE S.slot[s].st = "GENERATING" /\ AddSampled(S, s) # {S}
  <2> DEFINE toks == S.slot[s].toks
             tok == S.slot[s].sampled
             from == Len(toks)
             row == Row(s, from, tok)
             new == Append(toks, tok)
             y == Given(S.slot[s], new)
             x == [y EXCEPT !.i_batch = Len(S.batch)]
             b == IF S.batched = NoSlot THEN s ELSE S.batched
             R == Filled(S, s, S.cells, x)
             rows == <<row>>
             T == [AddToken(S, s, tok) EXCEPT !.slot[s].i_batch = Len(S.batch), !.batched = IF @ = NoSlot THEN s ELSE @]
  <2>1. AddSampled(S, s) = {T}
    BY <1>3 DEF AddSampled
  <2>2. tok \in AnyTok /\ from \in Nat /\ toks \in Seq(AnyTok)
    BY <1>1 DEF RoomSlot
  <2>3. new \in Seq(AnyTok) /\ Len(new) = from + 1
    <3> HIDE DEF toks, tok
    <3> QED
      BY <2>2, AppendProperties
  <2>4. row \in RoomRow /\ row.slot = s /\ row.pos = from
    BY <2>2 DEF Row, RoomRow
  <2>5. rows \in Seq(RoomRow) /\ Len(rows) = 1 /\ rows[1] = row /\ S.batch \o rows = Append(S.batch, row)
    <3> HIDE DEF row
    <3> QED
      BY <1>1, <2>4, AppendIsConcat
  <2>6. T = Grown(R, Append(S.batch, row), b, S.full)
    <3> DEFINE A == AddToken(S, s, tok)
               sl1 == [S.slot EXCEPT ![s] = y]
               sl2 == [S.slot EXCEPT ![s] = x]
               q2 == Append(S.batch, row)
    <3>1. sl1[s] = y /\ [sl1 EXCEPT ![s] = x] = sl2
      <4> HIDE DEF x, y
      <4> QED
        BY <1>1
    <3>2. A = [S EXCEPT !.batch = q2, !.slot = sl1]
      BY <1>1 DEF AddToken, Given, RoomFill
    <3> HIDE DEF A, sl1, q2
    <3>3. A.slot = sl1 /\ A.batched = S.batched
      BY <1>1, <3>2 DEF RoomFill
    <3>4. T = [A EXCEPT !.slot = [sl1 EXCEPT ![s] = [sl1[s] EXCEPT !.i_batch = Len(S.batch)]], !.batched = b]
      BY <3>2, <3>3 DEF A
    <3>5. [sl1[s] EXCEPT !.i_batch = Len(S.batch)] = x
      BY <3>1
    <3> HIDE DEF x, y, b
    <3>6. T = [A EXCEPT !.slot = sl2, !.batched = b]
      BY <3>1, <3>4, <3>5
    <3> HIDE DEF sl2, T
    <3>7. T = [S EXCEPT !.batch = q2, !.slot = sl2, !.batched = b]
      BY <1>1, <3>2, <3>6 DEF RoomFill
    <3>8. R = [S EXCEPT !.slot = sl2]
      BY <1>1 DEF Filled, RoomFill, sl2
    <3> HIDE DEF R
    <3> QED
      BY <1>1, <3>7, <3>8 DEF RoomFill, Grown, q2
  <2> HIDE DEF row, new, T
  <2>7. y \in RoomSlot /\ y.toks = new /\ y.st = "GENERATING" /\ y.task = S.slot[s].task
    BY <1>1, <1>3, <2>3 DEF RoomSlot, Given
  <2> HIDE DEF y
  <2>8. x \in RoomSlot /\ x.toks = new /\ x.st = "GENERATING" /\ x.task = S.slot[s].task /\ x.i_batch = Len(S.batch)
    <3> DEFINE b0 == Len(S.batch)
    <3>1. b0 \in Int
      BY <1>1
    <3> HIDE DEF b0
    <3>2. [y EXCEPT !.i_batch = b0] \in RoomSlot
      BY <2>7, <3>1 DEF RoomSlot
    <3>3. /\ [y EXCEPT !.i_batch = b0].toks = y.toks /\ [y EXCEPT !.i_batch = b0].st = y.st
          /\ [y EXCEPT !.i_batch = b0].task = y.task /\ [y EXCEPT !.i_batch = b0].i_batch = b0
      BY <2>7 DEF RoomSlot
    <3> QED
      BY <2>7, <3>2, <3>3 DEF b0
  <2> HIDE DEF x
  <2>9. Roomy(S.cells, x, s)
    <3>1. x.task \in ServerTask /\ \E r \in params.requests : r.kind = x.task.kind
      BY <1>1, <1>3, <2>8 DEF Roomy
    <3>2. x.toks # <<>>
      BY <2>2, <2>3, <2>8, EmptySeq
    <3>3. ASSUME Plain(x), NEW i \in Cells, s \in S.cells[i].seqs PROVE S.cells[i].pos < Len(x.toks)
      <4>1. S.cells[i].pos < from
        BY <1>1, <1>3, <2>8, <3>3 DEF Roomy, Plain
      <4>2. S.cells[i].pos \in Nat
        BY <1>1, <3>3, RoomCellLemma
      <4> HIDE DEF from
      <4> QED
        BY <2>2, <2>3, <2>8, <4>1, <4>2
    <3> QED
      BY <2>8, <3>1, <3>2, <3>3 DEF Roomy
  <2>10. /\ R \in RoomFill /\ R.cells = S.cells /\ R.saved = S.saved /\ R.batch = S.batch /\ R.slot[s] = x
         /\ Spares(S.cells, S.slot, R.cells, R.slot, s)
    <3>1. \A t \in Slots \ {s} : Fewer(S.cells, S.cells, t)
      BY <1>1, FewerSame
    <3> QED
      BY <1>1, <2>8, <3>1, FilledLemma
  <2> HIDE DEF R
  <2>11. ASSUME NEW i \in 1 .. Len(S.batch), S.batch[i].slot = s PROVE RoomyRow(x, S.batch[i].pos, i)
    <3>1. RoomyRow(S.slot[s], S.batch[i].pos, i)
      BY <1>1, <2>11
    <3>2. S.batch[i].pos < from /\ S.batch[i].pos \in Nat
      <4>1. S.batch[i] \in RoomRow
        BY <1>1, ElementOfSeq
      <4> QED
        BY <3>1, <4>1 DEF RoomyRow, RoomRow
    <3> HIDE DEF from
    <3>3. S.batch[i].pos < Len(x.toks) /\ i <= x.i_batch + 1
      BY <1>1, <2>2, <2>3, <2>8, <3>2
    <3> QED
      BY <2>8, <3>3 DEF RoomyRow
  <2>12. ASSUME NEW i \in 1 .. Len(rows) PROVE rows[i].slot = s /\ RoomyRow(x, rows[i].pos, Len(S.batch) + i)
    <3>1. i = 1
      BY <2>5
    <3>2. rows[i].slot = s /\ rows[i].pos = from
      BY <2>4, <2>5, <3>1
    <3> HIDE DEF from, rows
    <3>3. from < Len(x.toks) /\ Len(S.batch) + 1 <= x.i_batch + 1
      BY <1>1, <2>2, <2>3, <2>8
    <3> QED
      BY <2>8, <3>1, <3>2, <3>3 DEF RoomyRow
  <2> HIDE DEF rows
  <2>13. S.batch \o rows \in Seq(RoomRow) /\ Room(R.cells, R.slot, S.saved, S.batch \o rows, 0)
    BY <1>1, <2>5, <2>9, <2>10, <2>11, <2>12, RoomMore
  <2>14. b \in Slots \cup {NoSlot} /\ S.full \in BOOLEAN
    BY <1>1 DEF RoomFill
  <2> HIDE DEF b
  <2>15. RoomBatchGood(Grown(R, S.batch \o rows, b, S.full), k)
    BY <2>10, <2>13, <2>14, GrownGood
  <2> QED
    BY <2>1, <2>5, <2>6, <2>15
<1> QED
  BY <1>2, <1>3 DEF AddSampled

\* What the slot holds once it works on its prompt.
BeganRoomy(S, B, s, x) ==
    /\ B = Filled(S, s, S.cells, x)
    /\ x \in RoomSlot /\ x.st = "PROCESSING_PROMPT" /\ x.task = S.slot[s].task /\ x.task \in ServerTask
    /\ Len(x.toks) <= Len(x.task.prompt)
    /\ S.slot[s].st = "PROCESSING_PROMPT" => x = S.slot[s]

LEMMA RoomBegan ==
    ASSUME NEW S \in RoomFill, NEW s \in Slots, Roomy(S.cells, S.slot[s], s),
           S.slot[s].st \in {"STARTED", "PROCESSING_PROMPT"}
    PROVE  \E x : BeganRoomy(S, Began(S, s), s, x)
<1> DEFINE task == S.slot[s].task
           toks == S.slot[s].toks
           prompt == task.prompt
<1>1. S.slot \in [Slots -> RoomSlot] /\ S.slot[s] \in RoomSlot /\ S.cells \in [Cells -> RoomCell]
  BY RoomFields
<1>2. task \in ServerTask /\ prompt \in Seq(Tok) /\ toks \in Seq(AnyTok)
  BY <1>1 DEF Roomy, ServerTask, RoomSlot
<1>3. Len(toks) \in Nat /\ Len(prompt) \in Nat
  BY <1>2, LenProperties
<1>4. CASE S.slot[s].st = "PROCESSING_PROMPT"
  <2>1. Began(S, s) = S
    BY <1>4 DEF Began
  <2>2. S = Filled(S, s, S.cells, S.slot[s])
    <3>1. S.slot = [S.slot EXCEPT ![s] = S.slot[s]]
      BY <1>1
    <3>2. S = [S EXCEPT !.cells = S.cells, !.slot = S.slot]
      BY DEF RoomFill
    <3> QED
      BY <3>1, <3>2, Zenon DEF Filled
  <2>3. Len(toks) <= Len(prompt)
    BY <1>4 DEF Roomy
  <2>4. BeganRoomy(S, S, s, S.slot[s])
    BY <1>1, <1>2, <1>4, <2>2, <2>3 DEF BeganRoomy
  <2> QED
    BY <2>1, <2>4
<1>5. CASE S.slot[s].st = "STARTED"
  <2> DEFINE m == Reused(S, s)
             some == SubSeq(toks, 1, m)
             x1 == [S.slot[s] EXCEPT !.st = "PROCESSING_PROMPT"]
             x == [x1 EXCEPT !.toks = some]
  <2>1. m \in Nat /\ m <= Len(toks) /\ m <= Len(prompt)
    <3> DEFINE past == IF task.reuse /\ CanSplit(S, s) THEN Common(toks, prompt) ELSE 0
    <3> HIDE DEF task, toks
    <3>1. Common(toks, prompt) \in Nat /\ Common(toks, prompt) <= Len(toks) /\ Common(toks, prompt) <= Len(prompt)
      BY <1>3, CommonLemma
    <3>2. past \in Nat /\ past <= Len(toks) /\ past <= Len(prompt)
      BY <1>3, <3>1
    <3>3. m = IF past = Len(prompt) /\ past > 0 THEN past - 1 ELSE past
      BY DEF Reused, task, toks
    <3> HIDE DEF past, m, prompt
    <3>4. m \in Nat /\ m <= past
      BY <3>2, <3>3
    <3> QED
      BY <1>3, <3>2, <3>4
  <2>2. some \in Seq(AnyTok) /\ Len(some) = m
    <3>1. \A k \in 1 .. m : k \in 1 .. Len(toks)
      BY <1>3, <2>1
    <3>2. \A k \in 1 .. m : toks[k] \in AnyTok
      <4> HIDE DEF toks, m
      <4> QED
        BY <1>2, <3>1, ElementOfSeq
    <3> HIDE DEF toks, m
    <3>3. some \in Seq(AnyTok) /\ Len(some) = IF 1 <= m THEN m - 1 + 1 ELSE 0
      BY <2>1, <3>2, SubSeqProperties
    <3> HIDE DEF some
    <3> QED
      BY <2>1, <3>3
  <2> HIDE DEF m, some
  <2>3. x1 \in RoomSlot /\ x1.st = "PROCESSING_PROMPT" /\ x1.task = task
    BY <1>1 DEF RoomSlot, States
  <2>4. x \in RoomSlot /\ x.st = "PROCESSING_PROMPT" /\ x.task = task /\ x.toks = some
    <3> HIDE DEF x1, task
    <3> QED
      BY <2>2, <2>3 DEF RoomSlot
  <2>5. Began(S, s) = Filled(S, s, S.cells, x)
    <3> DEFINE z == [S.slot[s] EXCEPT !.st = "PROCESSING_PROMPT", !.toks = some]
               sl == [S.slot EXCEPT ![s] = z]
    <3>1. Began(S, s) = [S EXCEPT !.slot[s] = z]
      BY <1>5 DEF Began, m, some
    <3>2. z = x
      BY <1>1 DEF RoomSlot
    <3> HIDE DEF z, x
    <3>3. Began(S, s) = [S EXCEPT !.slot = sl]
      BY <3>1
    <3> HIDE DEF sl
    <3>4. Began(S, s) = [S EXCEPT !.cells = S.cells, !.slot = sl]
      BY <3>3 DEF RoomFill
    <3> QED
      BY <3>2, <3>4, Zenon DEF Filled, sl
  <2> HIDE DEF x
  <2>6. BeganRoomy(S, Began(S, s), s, x)
    BY <1>2, <1>5, <2>1, <2>2, <2>4, <2>5 DEF BeganRoomy
  <2> QED
    BY <2>6
<1> QED
  BY <1>4, <1>5

\* Began(S, s) of an embedding that does not fit in the batch.
LEMMA BeganWaits ==
    ASSUME NEW S, RoomBatchGood(S, 0), NEW s \in Slots, S.slot[s].st \in {"STARTED", "PROCESSING_PROMPT"},
           ~CanSplit(S, s)
    PROVE  RoomBatchGood(Began(S, s), 0)
<1> DEFINE B == Began(S, s)
<1>1. /\ S \in RoomFill /\ Room(S.cells, S.slot, S.saved, S.batch, 0)
      /\ S.cells \in [Cells -> RoomCell] /\ S.slot \in [Slots -> RoomSlot] /\ S.batch \in Seq(RoomRow)
      /\ Roomy(S.cells, S.slot[s], s)
      /\ \A i \in 1 .. Len(S.batch) : RoomyRow(S.slot[S.batch[i].slot], S.batch[i].pos, i)
  BY RoomBatch
<1>2. PICK x : BeganRoomy(S, B, s, x)
  BY <1>1, RoomBegan
<1> HIDE DEF B
<1>3. /\ B = Filled(S, s, S.cells, x)
      /\ x \in RoomSlot /\ x.st = "PROCESSING_PROMPT" /\ x.task = S.slot[s].task /\ x.task \in ServerTask
      /\ Len(x.toks) <= Len(x.task.prompt)
      /\ S.slot[s].st = "PROCESSING_PROMPT" => x = S.slot[s]
  BY <1>2 DEF BeganRoomy
<1>4. \A t \in Slots \ {s} : Fewer(S.cells, S.cells, t)
  BY <1>1, FewerSame
<1>5. /\ B \in RoomFill /\ B.cells = S.cells /\ B.saved = S.saved /\ B.batch = S.batch /\ B.slot[s] = x
      /\ Spares(S.cells, S.slot, B.cells, B.slot, s)
  BY <1>1, <1>3, <1>4, FilledLemma
<1>6. Roomy(S.cells, x, s)
  <2>1. Waiting(x)
    BY <1>3 DEF CanSplit, Waiting
  <2>2. \E r \in params.requests : r.kind = x.task.kind
    BY <1>1, <1>3 DEF Roomy
  <2> QED
    BY <1>3, <2>1, <2>2 DEF Roomy
<1>7. ASSUME NEW k \in 0 + 1 .. Len(S.batch), S.batch[k].slot = s
      PROVE  RoomyRow(x, S.batch[k].pos, k)
  <2>1. RoomyRow(S.slot[s], S.batch[k].pos, k)
    BY <1>1, <1>7
  <2> QED
    BY <1>3, <2>1 DEF RoomyRow
<1>8. Room(B.cells, B.slot, S.saved, S.batch, 0)
  <2>1. 0 \in Nat
    OBVIOUS
  <2> QED
    BY <1>1, <1>5, <1>6, <1>7, <2>1, OneRoom
<1>9. RoomBatchGood(B, 0)
  BY <1>5, <1>8 DEF RoomBatchGood
<1> QED
  BY <1>9 DEF B

\* what the loop over the prompts leaves of the slot s: the tokens of the prompt that fit in the batch
LEMMA RoomFillPrompt ==
    ASSUME NEW S, RoomBatchGood(S, 0), NEW s \in Slots, NEW B, NEW x, BeganRoomy(S, B, s, x),
           S.slot[s].st \in {"STARTED", "PROCESSING_PROMPT"}, params.n_batch \in Nat,
           NEW b \in Slots \cup {NoSlot}, NEW f \in BOOLEAN
    PROVE  LET F == FillPrompt(B, s)
           IN  F.batched = S.batched /\ RoomBatchGood([F EXCEPT !.batched = b, !.full = f], 0)
<1> DEFINE toks == x.toks
           task == x.task
           prompt == task.prompt
           from == Len(toks)
           a == Len(S.batch)
           n == Fitting(B, s)
           kv2 == SeqRm(S.cells, s, from, End)
           rows == [k \in 1 .. n |-> Row(s, from + k - 1, prompt[from + k])]
           toks2 == SubSeq(prompt, 1, from + n)
           more == [x EXCEPT !.toks = toks2]
           done == [more EXCEPT !.st = "DONE_PROMPT", !.i_batch = a + n - 1]
           y == IF from + n < Len(prompt) THEN more ELSE done
           F == FillPrompt(B, s)
<1>1. /\ S \in RoomFill /\ Room(S.cells, S.slot, S.saved, S.batch, 0)
      /\ S.cells \in [Cells -> RoomCell] /\ S.slot \in [Slots -> RoomSlot] /\ S.batch \in Seq(RoomRow)
      /\ a \in Nat
      /\ Roomy(S.cells, S.slot[s], s)
      /\ \A i \in 1 .. a : RoomyRow(S.slot[S.batch[i].slot], S.batch[i].pos, i)
  BY RoomBatch
<1>2. /\ B = Filled(S, s, S.cells, x)
      /\ x \in RoomSlot /\ x.st = "PROCESSING_PROMPT" /\ task = S.slot[s].task /\ task \in ServerTask
      /\ from <= Len(prompt)
      /\ S.slot[s].st = "PROCESSING_PROMPT" => x = S.slot[s]
  BY DEF BeganRoomy
<1>3. /\ B \in RoomFill /\ B.cells = S.cells /\ B.saved = S.saved /\ B.batch = S.batch /\ B.slot[s] = x
      /\ B.slot = [S.slot EXCEPT ![s] = x] /\ B.batched = S.batched
  <2>1. \A t \in Slots \ {s} : Fewer(S.cells, S.cells, t)
    BY <1>1, FewerSame
  <2>2. /\ B \in RoomFill /\ B.cells = S.cells /\ B.saved = S.saved /\ B.batch = S.batch /\ B.slot[s] = x
    BY <1>1, <1>2, <2>1, FilledLemma
  <2>3. B.slot = [S.slot EXCEPT ![s] = x] /\ B.batched = S.batched
    BY <1>1, <1>2 DEF Filled, RoomFill
  <2> QED
    BY <2>2, <2>3
<1>4. /\ toks \in Seq(AnyTok) /\ prompt \in Seq(Tok) /\ \E r \in params.requests : r.kind = task.kind
  BY <1>1, <1>2 DEF RoomSlot, ServerTask, Roomy
<1>5. from \in Nat /\ Len(prompt) \in Nat
  BY <1>4, LenProperties
<1>7. n \in Nat /\ from + n <= Len(prompt)
  <2> DEFINE free == params.n_batch - a
             rest == Len(prompt) - from
  <2>1. n = Max({0, Min({rest, free})})
    BY <1>2, <1>3 DEF Fitting
  <2> HIDE DEF a, from, prompt
  <2>2. rest \in Nat /\ free \in Int
    BY <1>1, <1>2, <1>5
  <2> HIDE DEF rest, free, n
  <2>3. Min({rest, free}) \in Int /\ Min({rest, free}) <= rest
    BY <2>2, MinOfTwo
  <2> DEFINE m == Min({rest, free})
  <2> HIDE DEF m
  <2>4. Max({0, m}) \in Nat /\ Max({0, m}) <= rest
    <3>0. m \in Int /\ m <= rest /\ 0 \in Int
      BY <2>3 DEF m
    <3>1. Max({0, m}) = IF 0 <= m THEN m ELSE 0
      BY <3>0, MaxOfTwo
    <3> QED
      BY <2>2, <3>0, <3>1
  <2>5. n \in Nat /\ n <= rest
    BY <2>1, <2>4 DEF m
  <2> QED
    BY <1>5, <2>5 DEF rest
<1> HIDE DEF n
<1>8. toks2 \in Seq(AnyTok) /\ Len(toks2) = from + n
  <2> DEFINE m == from + n
             some == SubSeq(prompt, 1, m)
  <2>1. m \in Nat /\ m <= Len(prompt)
    BY <1>5, <1>7
  <2> HIDE DEF m
  <2>2. \A k \in 1 .. m : k \in 1 .. Len(prompt)
    <3> HIDE DEF prompt
    <3> QED
      BY <1>5, <2>1
  <2>3. \A k \in 1 .. m : prompt[k] \in AnyTok
    <3> HIDE DEF prompt
    <3> QED
      BY <1>4, <2>2, ElementOfSeq DEF AnyTok
  <2> HIDE DEF prompt
  <2>4. some \in Seq(AnyTok) /\ Len(some) = IF 1 <= m THEN m - 1 + 1 ELSE 0
    BY <2>1, <2>3, SubSeqProperties
  <2>5. toks2 = some
    BY DEF m
  <2> HIDE DEF some, toks2
  <2> QED
    BY <2>1, <2>4, <2>5 DEF m
<1>9. /\ kv2 \in [Cells -> RoomCell] /\ \A t : Fewer(S.cells, kv2, t)
      /\ \A i \in Cells : s \in kv2[i].seqs => kv2[i] = S.cells[i] /\ ~OfSeq(S.cells[i], s, from, End)
  BY <1>1, RoomRm
<1> HIDE DEF kv2, toks2
<1>10. rows \in Seq(RoomRow) /\ Len(rows) = n /\ \A k \in 1 .. n : rows[k].slot = s /\ rows[k].pos = from + k - 1
  <2>1. ASSUME NEW k \in 1 .. n
        PROVE  rows[k] \in RoomRow /\ rows[k].slot = s /\ rows[k].pos = from + k - 1
    <3> DEFINE p == from + k - 1
               tok == prompt[from + k]
               l == from + k
    <3>1. l \in 1 .. Len(prompt) /\ p \in Nat
      <4> HIDE DEF from, prompt
      <4> QED
        BY <1>5, <1>7
    <3>2. prompt[l] \in AnyTok
      <4> HIDE DEF prompt, l
      <4> QED
        BY <1>4, <3>1, ElementOfSeq DEF AnyTok
    <3>3. tok \in AnyTok
      BY <3>2
    <3>4. rows[k] = [slot |-> s, pos |-> p, tok |-> tok]
      BY DEF Row
    <3> HIDE DEF p, tok, rows
    <3>5. rows[k] \in RoomRow /\ rows[k].slot = s /\ rows[k].pos = p
      BY <3>1, <3>3, <3>4 DEF RoomRow
    <3> QED
      BY <3>5 DEF p
  <2>2. rows = [k \in 1 .. n |-> rows[k]]
    OBVIOUS
  <2> HIDE DEF rows, from, prompt
  <2>3. rows \in [1 .. n -> RoomRow]
    BY <2>1, <2>2
  <2> QED
    BY <1>7, <2>1, <2>3
<1> HIDE DEF rows
<1>11. more \in RoomSlot /\ more.toks = toks2 /\ more.st = "PROCESSING_PROMPT" /\ more.task = task
  BY <1>2, <1>8 DEF RoomSlot
<1>12. done \in RoomSlot /\ done.toks = toks2 /\ done.st = "DONE_PROMPT" /\ done.task = task /\ done.i_batch = a + n - 1
  <2> DEFINE d1 == [more EXCEPT !.st = "DONE_PROMPT"]
             d == [d1 EXCEPT !.i_batch = a + n - 1]
  <2>1. d1 \in RoomSlot /\ d1.toks = toks2 /\ d1.st = "DONE_PROMPT" /\ d1.task = task
    <3> HIDE DEF more, task
    <3> QED
      BY <1>11 DEF RoomSlot, States
  <2>2. a + n - 1 \in Int
    BY <1>1, <1>7
  <2>3. done = d
    <3> HIDE DEF more
    <3> QED
      BY <1>11 DEF RoomSlot
  <2> HIDE DEF d1, task, a, done
  <2>4. d \in RoomSlot /\ d.toks = toks2 /\ d.st = "DONE_PROMPT" /\ d.task = task /\ d.i_batch = a + n - 1
    BY <2>1, <2>2 DEF RoomSlot
  <2> QED
    BY <2>3, <2>4
<1> HIDE DEF more, done
<1>13. /\ y \in RoomSlot /\ y.toks = toks2 /\ y.task = task /\ y.st \in {"PROCESSING_PROMPT", "DONE_PROMPT"}
       /\ y.st # "PROCESSING_PROMPT" => y.i_batch = a + n - 1
  BY <1>11, <1>12
<1> HIDE DEF y
<1>15. ASSUME NEW i \in Cells, s \in kv2[i].seqs PROVE kv2[i].pos \in Nat /\ kv2[i].pos < from
  <2>1. kv2[i] = S.cells[i] /\ ~OfSeq(S.cells[i], s, from, End)
    BY <1>9, <1>15
  <2>2. kv2[i].pos \in Nat
    BY <1>9, <1>15, RoomCellLemma
  <2>3. ~(from <= kv2[i].pos)
    BY <1>15, <2>1 DEF OfSeq
  <2> QED
    BY <1>5, <2>2, <2>3
<1>16. Roomy(kv2, y, s)
  <2>1. y.task \in ServerTask /\ \E r \in params.requests : r.kind = y.task.kind
    BY <1>2, <1>4, <1>13
  <2>2. Len(y.toks) <= Len(y.task.prompt)
    BY <1>7, <1>8, <1>13
  <2>3. ASSUME y.toks = <<>> PROVE NoCells(kv2, s)
    <3>1. from + n = 0
      BY <1>8, <1>13, <2>3, EmptySeq
    <3>2. \A i \in Cells : s \in kv2[i].seqs => kv2[i].pos \in Nat /\ kv2[i].pos < from
      BY <1>15
    <3> HIDE DEF from
    <3>3. \A i \in Cells : s \notin kv2[i].seqs
      BY <1>5, <1>7, <3>1, <3>2
    <3>4. DOMAIN kv2 = Cells
      BY <1>9
    <3> QED
      BY <3>3, <3>4 DEF NoCells
  <2>4. ASSUME NEW i \in Cells, s \in kv2[i].seqs PROVE kv2[i].pos < Len(y.toks)
    <3>1. kv2[i].pos \in Nat /\ kv2[i].pos < from /\ Len(y.toks) = from + n
      BY <1>8, <1>13, <1>15, <2>4
    <3> HIDE DEF from
    <3> QED
      BY <1>5, <1>7, <3>1
  <2> QED
    BY <1>13, <2>1, <2>2, <2>3, <2>4 DEF Roomy
<1> DEFINE G == Filled(S, s, kv2, y)
           q2 == S.batch \o rows
           T == [F EXCEPT !.batched = b, !.full = f]
<1>17. /\ G \in RoomFill /\ G.cells = kv2 /\ G.saved = S.saved /\ G.batch = S.batch /\ G.slot[s] = y
       /\ Spares(S.cells, S.slot, G.cells, G.slot, s)
  BY <1>1, <1>9, <1>13, FilledLemma
<1>18. F.batched = S.batched /\ F = [[B EXCEPT !.cells = kv2] EXCEPT !.batch = q2, !.slot = [S.slot EXCEPT ![s] = y]]
  <2> DEFINE B1 == [B EXCEPT !.cells = kv2]
             sl2 == [S.slot EXCEPT ![s] = y]
  <2>1. B1.slot = B.slot /\ B1.batch = S.batch /\ B1.batched = S.batched
    BY <1>3 DEF RoomFill
  <2>2. F = AddPrompt(B1, s, n)
    BY <1>3 DEF FillPrompt, n, kv2
  <2> HIDE DEF B1
  <2>3. B1.slot[s] = x
    BY <1>3, <2>1
  <2>4. AddPrompt(B1, s, n) = [B1 EXCEPT !.batch = q2, !.slot[s] = y]
    BY <2>1, <2>3 DEF AddPrompt, rows, y, more, done, toks2
  <2>5. [B1.slot EXCEPT ![s] = y] = sl2
    BY <1>1, <1>3, <2>1
  <2> HIDE DEF F, q2, sl2
  <2>6. F = [B1 EXCEPT !.batch = q2, !.slot = sl2]
    BY <2>2, <2>4, <2>5
  <2>7. F.batched = S.batched
    BY <2>1, <2>6
  <2> QED
    BY <2>6, <2>7 DEF B1, sl2
<1> HIDE DEF F, G, T
<1>19. ASSUME NEW k \in 1 .. Len(S.batch), S.batch[k].slot = s PROVE RoomyRow(y, S.batch[k].pos, k)
  <2>1. RoomyRow(S.slot[s], S.batch[k].pos, k)
    BY <1>1, <1>19
  <2>2. x = S.slot[s]
    BY <1>2, <2>1 DEF RoomyRow
  <2>3. S.batch[k].pos < from /\ S.batch[k].pos \in Nat
    <3>1. S.batch[k] \in RoomRow
      BY <1>1, ElementOfSeq
    <3> QED
      BY <2>1, <2>2, <3>1 DEF RoomyRow, RoomRow
  <2> HIDE DEF from
  <2>4. S.batch[k].pos < Len(y.toks)
    BY <1>5, <1>7, <1>8, <1>13, <2>3
  <2>5. y.st # "PROCESSING_PROMPT" => k <= y.i_batch + 1
    BY <1>1, <1>7, <1>13
  <2> QED
    BY <1>13, <2>4, <2>5 DEF RoomyRow
<1>20. ASSUME NEW k \in 1 .. Len(rows) PROVE rows[k].slot = s /\ RoomyRow(y, rows[k].pos, Len(S.batch) + k)
  <2>1. k \in 1 .. n /\ rows[k].slot = s /\ rows[k].pos = from + k - 1
    BY <1>10
  <2> HIDE DEF from
  <2>2. rows[k].pos < Len(y.toks)
    BY <1>5, <1>7, <1>8, <1>13, <2>1
  <2>3. y.st # "PROCESSING_PROMPT" => Len(S.batch) + k <= y.i_batch + 1
    BY <1>1, <1>7, <1>13, <2>1
  <2> QED
    BY <1>13, <2>1, <2>2, <2>3 DEF RoomyRow
<1>21. q2 \in Seq(RoomRow) /\ Room(G.cells, G.slot, S.saved, q2, 0)
  BY <1>1, <1>10, <1>16, <1>17, <1>19, <1>20, RoomMore
<1> HIDE DEF q2
<1>22. F \in RoomFill /\ F.cells = G.cells /\ F.slot = G.slot /\ F.saved = S.saved /\ F.batch = q2
  <2> DEFINE B1 == [B EXCEPT !.cells = kv2]
             sl2 == [S.slot EXCEPT ![s] = y]
  <2>1. G.slot = sl2 /\ sl2 \in [Slots -> RoomSlot]
    BY <1>1, <1>13 DEF G, Filled, RoomFill
  <2> HIDE DEF sl2
  <2>2. B1 \in RoomFill /\ B1.cells = kv2 /\ B1.saved = S.saved
    BY <1>3, <1>9 DEF RoomFill
  <2> HIDE DEF B1
  <2>3. F = [B1 EXCEPT !.batch = q2, !.slot = sl2]
    BY <1>18 DEF B1, sl2
  <2> HIDE DEF F
  <2>4. F \in RoomFill /\ F.cells = kv2 /\ F.slot = sl2 /\ F.saved = S.saved /\ F.batch = q2
    BY <1>21, <2>1, <2>2, <2>3 DEF RoomFill
  <2> QED
    BY <1>17, <2>1, <2>4
<1>23. Room(F.cells, F.slot, F.saved, q2, 0)
  BY <1>21, <1>22
<1>24. RoomBatchGood(Grown(F, q2, b, f), 0)
  BY <1>21, <1>22, <1>23, GrownGood
<1>25. T = Grown(F, q2, b, f)
  <2>1. [F EXCEPT !.batched = b, !.full = f] = [F EXCEPT !.batch = q2, !.batched = b, !.full = f]
    BY <1>22 DEF RoomFill
  <2> QED
    BY <2>1, Zenon DEF Grown, T
<1> QED
  BY <1>18, <1>24, <1>25 DEF F, T

LEMMA RoomFillTurn ==
    ASSUME params.n_batch \in Nat, NEW s \in Slots, NEW S, NEW j, NEW k, RoomBatchGood(S, j)
    PROVE  \A T \in FillSlot(S, s) : RoomBatchGood(T, k)
<1> DEFINE skip == \/ S.full \/ ~Processing(S, s) \/ ~CanBatchWith(S, s) \/ S.slot[s].st = "WAIT_OTHER"
           prompting == S.slot[s].st \in {"STARTED", "PROCESSING_PROMPT"}
           refused == S.slot[s].st = "STARTED" /\ (S.slot[s].task.prompt = <<>> \/ TooLong(S, s))
           noRoom == prompting /\ ~CanSplit(S, s) /\ Len(S.batch) + Len(S.slot[s].task.prompt) > params.n_batch
           end(F) == [F EXCEPT !.batched = IF @ = NoSlot THEN s ELSE @, !.full = Len(F.batch) >= params.n_batch]
<1>0. RoomBatchGood(S, 0) /\ \A T : RoomBatchGood(T, 0) => RoomBatchGood(T, k)
  BY DEF RoomBatchGood
<1> SUFFICES \A T \in FillSlot(S, s) : RoomBatchGood(T, 0)
  BY <1>0
<1>1. /\ S \in RoomFill /\ Room(S.cells, S.slot, S.saved, S.batch, 0)
      /\ S.cells \in [Cells -> RoomCell] /\ S.slot \in [Slots -> RoomSlot] /\ S.batch \in Seq(RoomRow)
      /\ Roomy(S.cells, S.slot[s], s)
  BY RoomBatch
<1>2. CASE skip
  <2>1. FillSlot(S, s) = {S}
    BY <1>2 DEF FillSlot
  <2> QED
    BY <1>0, <2>1
<1>3. CASE ~skip /\ refused
  <2> DEFINE R == Release(S, s)
             q == S.batch
  <2>1. FillSlot(S, s) = {R}
    BY <1>3 DEF FillSlot
  <2>2. S.slot[s].st = "STARTED"
    BY <1>3
  <2>3. (\A i \in 0 + 1 .. Len(q) : q[i].slot # s) /\ ~Waiting(S.slot[s]) /\ 0 \in Nat
    BY <1>1, <2>2, RoomNoRows DEF Waiting
  <2>4. q \in Seq(RoomRow) /\ Room(S.cells, S.slot, S.saved, q, 0)
    BY <1>1
  <2> HIDE DEF R, q
  <2>5. Keeps(S, R) /\ Room(R.cells, R.slot, R.saved, q, 0)
    BY <1>1, <2>3, <2>4, RoomRelease DEF R
  <2>6. RoomBatchGood(R, 0)
    BY <1>1, <2>5 DEF Keeps, RoomBatchGood, q
  <2> QED
    BY <2>1, <2>6
<1>4. CASE ~skip /\ ~refused /\ noRoom
  <2>1. FillSlot(S, s) = {Began(S, s)}
    BY <1>4 DEF FillSlot
  <2>2. RoomBatchGood(Began(S, s), 0)
    BY <1>0, <1>4, BeganWaits
  <2> QED
    BY <2>1, <2>2
<1>5. CASE ~skip /\ ~refused /\ ~noRoom /\ prompting
  <2> DEFINE B == Began(S, s)
             F == FillPrompt(B, s)
             b == IF F.batched = NoSlot THEN s ELSE F.batched
             f == Len(F.batch) >= params.n_batch
  <2>1. FillSlot(S, s) = {end(F)}
    <3>1. FillSlot(S, s) = {end(G) : G \in {FillPrompt(C, s) : C \in {B}}}
      BY <1>5 DEF FillSlot
    <3>2. {FillPrompt(C, s) : C \in {B}} = {F}
      <4> HIDE DEF B
      <4> QED
        OBVIOUS
    <3> HIDE DEF F, end
    <3>3. {end(G) : G \in {F}} = {end(F)}
      OBVIOUS
    <3> QED
      BY <3>1, <3>2, <3>3
  <2>2. PICK x : BeganRoomy(S, B, s, x)
    BY <1>1, <1>5, RoomBegan
  <2> HIDE DEF B
  <2>3. f \in BOOLEAN
    OBVIOUS
  <2> DEFINE c == IF S.batched = NoSlot THEN s ELSE S.batched
  <2>4. c \in Slots \cup {NoSlot}
    BY <1>1 DEF RoomFill
  <2> HIDE DEF f, c
  <2>5. F.batched = S.batched /\ RoomBatchGood([F EXCEPT !.batched = c, !.full = f], 0)
    BY <1>0, <1>5, <2>2, <2>3, <2>4, RoomFillPrompt
  <2> HIDE DEF F
  <2>6. b = c
    BY <2>5 DEF c
  <2>7. end(F) = [F EXCEPT !.batched = c, !.full = f]
    BY <2>6 DEF f
  <2> QED
    BY <2>1, <2>5, <2>7
<1>6. CASE ~skip /\ ~refused /\ ~noRoom /\ ~prompting
  <2> DEFINE b == IF S.batched = NoSlot THEN s ELSE S.batched
             f == Len(S.batch) >= params.n_batch
  <2>1. FillSlot(S, s) = {end(S)}
    BY <1>6 DEF FillSlot
  <2>2. b \in Slots \cup {NoSlot} /\ f \in BOOLEAN
    BY <1>1 DEF RoomFill
  <2> HIDE DEF b, f
  <2>3. end(S) = Grown(S, S.batch, b, f)
    <3>1. end(S) = [S EXCEPT !.batched = b, !.full = f]
      BY DEF b, f
    <3>2. [S EXCEPT !.batched = b, !.full = f] = [S EXCEPT !.batch = S.batch, !.batched = b, !.full = f]
      BY <1>1 DEF RoomFill
    <3> QED
      BY <3>1, <3>2, Zenon DEF Grown
  <2>4. RoomBatchGood(Grown(S, S.batch, b, f), 0)
    BY <1>1, <2>2, GrownGood
  <2> QED
    BY <2>1, <2>3, <2>4
<1> QED
  BY <1>2, <1>3, <1>4, <1>5, <1>6

LEMMA RoomUpdateSlots ==
    ASSUME RoomInv, UpdateSlots
    PROVE  RoomInv'
<1> DEFINE X0 == {Filling(State)}
           X1 == Each(ShiftSlot, X0)
           X2 == Each(AddSampled, X1)
           X3 == Each(FillSlot, X2)
<1>1. /\ Alone(State, 0) /\ params.n_ctx \in Nat /\ params.n_ctx >= 4 /\ params.n_batch \in Nat
      /\ State.cells = cells /\ State.slot = slot /\ State.saved = saved /\ phase = "tasks"
  BY RoomAtTasks, ConfigsAssumption DEF UpdateSlots, Config
<1>2. Room(cells, slot, saved, <<>>, 0) /\ State \in RoomBase
  BY <1>1 DEF Alone
<1>3. \A S \in X0 : RoomShiftGood(S, 0)
  <2> DEFINE S == Filling(State)
             none == <<>>
  <2>1. /\ cells \in [Cells -> RoomCell] /\ slot \in [Slots -> RoomSlot]
        /\ saved \in Seq(RoomEntry) /\ none \in Seq(RoomRow)
    BY <1>2, EmptySeq DEF Room, RoomTyped
  <2>2. S = [cells |-> cells, slot |-> slot, saved |-> saved, batch |-> none, batched |-> NoSlot, full |-> FALSE]
    BY <1>1 DEF Filling
  <2> HIDE DEF none, S
  <2>3. S \in RoomFill /\ S.cells = cells /\ S.slot = slot /\ S.saved = saved /\ S.batch = none
    BY <2>1, <2>2 DEF RoomFill
  <2>4. RoomShiftGood(S, 0)
    BY <1>2, <2>3 DEF RoomShiftGood, none
  <2> QED
    BY <2>4 DEF S
<1>4. \A S \in X1 : RoomShiftGood(S, NSlots)
  <2>1. X1 = RoomShiftLoop!After(0, X0)
    BY DEF Each, RoomShiftLoop!After
  <2>2. \A s \in 1 .. NSlots : \A R : RoomShiftGood(R, s - 1) => \A T \in ShiftSlot(R, s) : RoomShiftGood(T, s)
    BY <1>1, RoomShiftTurn DEF Slots
  <2> HIDE DEF X0, X1
  <2> QED
    BY <1>3, <2>1, <2>2, NSlotsAssumption, RoomShiftLoop!LoopRule
<1> HIDE DEF X0, X1
<1>5. \A S \in X1 : RoomBatchGood(S, 0)
  <2> SUFFICES ASSUME NEW S \in X1 PROVE RoomBatchGood(S, 0)
    OBVIOUS
  <2>1. S \in RoomFill /\ S.batch = <<>> /\ Room(S.cells, S.slot, S.saved, <<>>, 0)
    BY <1>4 DEF RoomShiftGood
  <2>2. Room(S.cells, S.slot, S.saved, S.batch, 0)
    BY <2>1
  <2> QED
    BY <2>1, <2>2 DEF RoomBatchGood
<1>6. \A S \in X2 : RoomBatchGood(S, NSlots)
  <2>1. X2 = RoomAddLoop!After(0, X1)
    BY DEF Each, RoomAddLoop!After
  <2>2. \A s \in 1 .. NSlots : \A R : RoomBatchGood(R, s - 1) => \A T \in AddSampled(R, s) : RoomBatchGood(T, s)
    BY RoomAddTurn DEF Slots
  <2> HIDE DEF X2
  <2> QED
    BY <1>5, <2>1, <2>2, NSlotsAssumption, RoomAddLoop!LoopRule
<1> HIDE DEF X2
<1>7. \A S \in X2 : RoomBatchGood(S, 0)
  BY <1>6 DEF RoomBatchGood
<1>8. \A S \in X3 : RoomBatchGood(S, NSlots)
  <2>1. X3 = RoomFillLoop!After(0, X2)
    BY DEF Each, RoomFillLoop!After
  <2>2. \A s \in 1 .. NSlots : \A R : RoomBatchGood(R, s - 1) => \A T \in FillSlot(R, s) : RoomBatchGood(T, s)
    BY <1>1, RoomFillTurn DEF Slots
  <2> HIDE DEF X3
  <2> QED
    BY <1>7, <2>1, <2>2, NSlotsAssumption, RoomFillLoop!LoopRule
<1>9. PICK F \in X3 : Take(F) /\ batch' = F.batch /\ phase' = IF F.batch = <<>> THEN "tasks" ELSE "decode"
  BY DEF UpdateSlots, X2, X1, X0
<1> HIDE DEF X3
<1>10. F \in RoomFill /\ Room(F.cells, F.slot, F.saved, F.batch, 0)
  BY <1>8, <1>9 DEF RoomBatchGood
<1>11. params' = params /\ at' = 0 /\ n_batch' = params.n_batch /\ file' = file
  BY DEF UpdateSlots
<1>12. Room(cells, slot, saved, batch, at)'
  BY <1>9, <1>10, <1>11, RoomPrime DEF Take
<1>13. (file # NoFile => file \in RoomEntry)'
  BY <1>11 DEF RoomInv
<1>14. /\ params' \in Configs /\ batch' \in Seq(RoomRow) /\ at' \in Nat /\ n_batch' \in Nat
       /\ phase' = "tasks" => batch' = <<>> /\ at' = 0 /\ n_batch' = params'.n_batch
  BY <1>1, <1>9, <1>10, <1>11 DEF RoomInv, RoomFill
<1> QED
  BY <1>12, <1>13, <1>14 DEF RoomInv

-----------------------------------------------------------------------------
\* The decode

LEMMA RoomAtDecode ==
    ASSUME RoomInv
    PROVE  /\ State \in RoomBase /\ State.cells = cells /\ State.slot = slot /\ State.saved = saved
           /\ Room(cells, slot, saved, batch, at) /\ cells \in [Cells -> RoomCell] /\ slot \in [Slots -> RoomSlot]
           /\ params \in Configs /\ params.n_ctx \in Nat /\ params.n_batch \in Nat \ {0}
           /\ n_batch \in Nat /\ at \in Nat
           /\ batch \in Seq(RoomRow) /\ Len(batch) \in Nat
<1>1. /\ Room(cells, slot, saved, batch, at) /\ params \in Configs
      /\ n_batch \in Nat /\ at \in Nat /\ batch \in Seq(RoomRow)
  BY DEF RoomInv
<1>2. cells \in [Cells -> RoomCell] /\ slot \in [Slots -> RoomSlot] /\ saved \in Seq(RoomEntry)
  BY <1>1 DEF Room, RoomTyped
<1>3. State \in RoomBase /\ State.cells = cells /\ State.slot = slot /\ State.saved = saved
  BY <1>2 DEF State, RoomBase
<1>4. params.n_ctx \in Nat /\ params.n_batch \in Nat \ {0}
  BY <1>1, ConfigsAssumption DEF Config
<1> QED
  BY <1>1, <1>2, <1>3, <1>4, LenProperties

LEMMA RoomView ==
    ASSUME RoomInv
    PROVE  /\ View \in Seq(RoomRow) /\ Len(View) \in Nat
           /\ Len(View) <= n_batch
           /\ \A k \in 1 .. Len(View) : at + k \in at + 1 .. Len(batch) /\ View[k] = batch[at + k]
<1> DEFINE m == at + 1
           e == Min({at + n_batch, Len(batch)})
           v == SubSeq(batch, m, e)
<1>1. at \in Nat /\ n_batch \in Nat /\ Len(batch) \in Nat /\ batch \in Seq(RoomRow)
  BY RoomAtDecode
<1>2. e \in Nat /\ e <= at + n_batch /\ e <= Len(batch) /\ m \in Nat /\ m = at + 1
  <2> DEFINE p == at + n_batch
             l == Len(batch)
  <2>1. p \in Int /\ l \in Int /\ p \in Nat
    BY <1>1
  <2>2. Min({p, l}) = IF p <= l THEN p ELSE l
    <3> HIDE DEF p, l
    <3> QED
      BY <2>1, MinOfTwo
  <2> QED
    BY <1>1, <2>2
<1>3. View = v
  BY DEF View
<1> HIDE DEF m, e
<1>4. /\ v \in Seq(RoomRow) /\ Len(v) = IF m <= e THEN e - m + 1 ELSE 0
      /\ \A i \in 1 .. e - m + 1 : v[i] = batch[m + i - 1]
  <2>1. \A i \in m .. e : batch[i] \in RoomRow
    <3>1. \A i \in m .. e : i \in 1 .. Len(batch)
      BY <1>1, <1>2
    <3> QED
      BY <1>1, <3>1, ElementOfSeq
  <2> QED
    BY <1>2, <2>1, SubSeqProperties
<1> HIDE DEF v
<1>5. ASSUME NEW k \in 1 .. Len(v) PROVE at + k \in at + 1 .. Len(batch) /\ v[k] = batch[at + k]
  <2>1. k \in 1 .. e - m + 1 /\ m + k - 1 = at + k /\ at + k \in at + 1 .. Len(batch)
    BY <1>1, <1>2, <1>4
  <2>2. v[k] = batch[m + k - 1]
    BY <1>4, <2>1
  <2> QED
    BY <2>1, <2>2
<1>6. Len(v) \in Nat /\ Len(v) <= n_batch
  BY <1>1, <1>2, <1>4
<1> QED
  BY <1>3, <1>4, <1>5, <1>6

\* The rows of the view get their cells.
LEMMA RoomPlaced ==
    ASSUME RoomInv
    PROVE  LET kv2 == Place(cells, View)
           IN  kv2 \in [Cells -> RoomCell] /\ Room(kv2, slot, saved, batch, at + Len(View))
<1> DEFINE kv2 == Place(cells, View)
           n == Len(View)
           h == at + n
<1>1. /\ Room(cells, slot, saved, batch, at) /\ cells \in [Cells -> RoomCell] /\ slot \in [Slots -> RoomSlot]
      /\ params.n_ctx \in Nat /\ at \in Nat /\ batch \in Seq(RoomRow) /\ Len(batch) \in Nat
  BY RoomAtDecode
<1>2. View \in Seq(RoomRow) /\ n \in Nat /\ h \in Nat /\ h >= at
      /\ \A k \in 1 .. n : at + k \in at + 1 .. Len(batch) /\ View[k] = batch[at + k]
  BY <1>1, RoomView
<1>3. kv2 \in [Cells -> RoomCell] /\ \A i \in Cells : kv2[i] = cells[i] \/ \E k \in 1 .. n : kv2[i] = NewCell(View[k])
  BY <1>1, <1>2, RoomPlace
<1> HIDE DEF kv2
<1>4. ASSUME NEW s \in Slots, NEW i \in Cells, s \in kv2[i].seqs, kv2[i] # cells[i]
      PROVE  \E k \in at + 1 .. Len(batch) : batch[k].slot = s /\ RoomyRow(slot[s], kv2[i].pos, k)
  <2>1. PICK k \in 1 .. n : kv2[i] = NewCell(View[k])
    BY <1>3, <1>4
  <2>2. at + k \in at + 1 .. Len(batch) /\ kv2[i] = NewCell(batch[at + k])
    BY <1>2, <2>1
  <2>3. batch[at + k].slot = s /\ kv2[i].pos = batch[at + k].pos
    BY <1>4, <2>2 DEF NewCell
  <2>4. RoomyRow(slot[s], kv2[i].pos, at + k)
    BY <1>1, <2>2, <2>3 DEF Room
  <2> HIDE DEF n
  <2> QED
    BY <2>2, <2>3, <2>4
<1>5. ASSUME NEW s \in Slots PROVE Roomy(kv2, slot[s], s)
  <2> DEFINE x == slot[s]
  <2>1. Roomy(cells, x, s) /\ x.toks \in Seq(AnyTok)
    BY <1>1 DEF Room, RoomSlot
  <2>2. Len(x.toks) \in Nat
    BY <2>1, LenProperties
  <2>3. ASSUME NEW i \in Cells, s \in kv2[i].seqs, kv2[i] # cells[i]
        PROVE  kv2[i].pos < Len(x.toks) /\ kv2[i].pos \in Nat
    <3>1. kv2[i].pos < Len(x.toks)
      BY <1>4, <2>3 DEF RoomyRow
    <3> QED
      BY <1>3, <2>3, <3>1, RoomCellLemma
  <2> HIDE DEF x
  <2>4. x.toks = <<>> /\ ~Waiting(x) => NoCells(kv2, s)
    <3> SUFFICES ASSUME x.toks = <<>>, ~Waiting(x) PROVE NoCells(kv2, s)
      OBVIOUS
    <3>1. NoCells(cells, s) /\ Len(x.toks) = 0
      BY <2>1, EmptySeq DEF Roomy
    <3>2. \A i \in Cells : s \notin kv2[i].seqs
      <4> SUFFICES ASSUME NEW i \in Cells, s \in kv2[i].seqs PROVE FALSE
        OBVIOUS
      <4>1. kv2[i] # cells[i]
        BY <1>1, <3>1 DEF NoCells
      <4> QED
        BY <2>3, <3>1, <4>1
    <3> QED
      BY <1>3, <3>2 DEF NoCells
  <2>5. x.st \in {"DONE_PROMPT", "GENERATING"} /\ Plain(x) =>
          \A i \in Cells : s \in kv2[i].seqs => kv2[i].pos < Len(x.toks)
    BY <2>1, <2>3 DEF Roomy
  <2> QED
    BY <2>1, <2>4, <2>5 DEF Roomy, x
<1>6. \A k \in h + 1 .. Len(batch) : RoomyRow(slot[batch[k].slot], batch[k].pos, k)
  <2>1. \A k \in h + 1 .. Len(batch) : k \in at + 1 .. Len(batch)
    <3> HIDE DEF h
    <3> QED
      BY <1>1, <1>2
  <2> QED
    BY <1>1, <2>1 DEF Room
<1> HIDE DEF h
<1>7. Room(kv2, slot, saved, batch, h)
  BY <1>1, <1>3, <1>5, <1>6 DEF Room, RoomTyped
<1> QED
  BY <1>3, <1>7 DEF kv2, h

\* a state while the slots of a decoded view are visited
RoomViewGood(S, k) == S \in RoomBase /\ Room(S.cells, S.slot, S.saved, batch, at + Len(View))
\* ... and while the children of slot s wait for its cells; c holds the state before the first child
ChildGood(c, S, k) ==
    /\ RoomViewGood(S, 0)
    /\ S.slot[c.by] = c.of.slot[c.by]
    /\ \A t \in Slots : t > k => S.slot[t] = c.of.slot[t]
ChildTurn(c, S, t) ==
    {IF c.of.slot[t].st = "WAIT_OTHER" /\ c.of.slot[t].task.parent = c.by THEN CopyTo(S, c.by, t) ELSE S}

RoomChildLoop == INSTANCE Loop WITH N <- NSlots, Turn <- ChildTurn, Good <- ChildGood
RoomActivateLoop == INSTANCE Loop WITH
    N <- NSlots, Turn <- LAMBDA c, S, s : ActivateChildren(S, s), Good <- LAMBDA c, S, k : RoomViewGood(S, k)
RoomSampleLoop == INSTANCE Loop WITH
    N <- NSlots, Turn <- LAMBDA c, S, s : SampleSlot(S, s), Good <- LAMBDA c, S, k : RoomViewGood(S, k)
RoomFailLoop == INSTANCE Loop WITH
    N <- NSlots, Turn <- LAMBDA c, S, s : FailSlot(S, s), Good <- LAMBDA c, S, k : Alone(S, k)

\* copy_state_to(): the child gets the tokens and the cells of its parent.
LEMMA RoomCopyTo ==
    ASSUME NEW S \in RoomBase, NEW s \in Slots, NEW t \in Slots, s # t, NEW q \in Seq(RoomRow), NEW h \in Nat,
           Room(S.cells, S.slot, S.saved, q, h), S.slot[s].st = "DONE_PROMPT", S.slot[t].st = "WAIT_OTHER"
    PROVE  LET R == CopyTo(S, s, t)
           IN  /\ R \in RoomBase /\ Room(R.cells, R.slot, R.saved, q, h)
               /\ \A u \in Slots \ {t} : R.slot[u] = S.slot[u]
<1> DEFINE x1 == [S.slot[t] EXCEPT !.toks = S.slot[s].toks]
           x2 == [x1 EXCEPT !.i_batch = S.slot[s].i_batch]
           x == [x2 EXCEPT !.st = "DONE_PROMPT"]
           kv1 == SeqRm(S.cells, t, 0, End)
           kv2 == SeqCp(kv1, s, t)
           sl == [S.slot EXCEPT ![t] = x]
           R == CopyTo(S, s, t)
<1>1. /\ S.cells \in [Cells -> RoomCell] /\ S.slot \in [Slots -> RoomSlot]
      /\ S.slot[t] \in RoomSlot /\ S.slot[s] \in RoomSlot
  BY RoomFields
<1>2. Roomy(S.cells, S.slot[t], t) /\ Roomy(S.cells, S.slot[s], s)
  BY DEF Room
<1>3. R = [S EXCEPT !.cells = kv2, !.slot = sl]
  BY <1>1, ZenonT(60) DEF CopyTo, RoomSlot, RoomBase
<1>4. x \in RoomSlot /\ x.toks = S.slot[s].toks /\ x.st = "DONE_PROMPT" /\ x.task = S.slot[t].task
  <2>1. x1 \in RoomSlot /\ x1.toks = S.slot[s].toks /\ x1.task = S.slot[t].task
    BY <1>1 DEF RoomSlot
  <2> HIDE DEF x1
  <2>2. x2 \in RoomSlot /\ x2.toks = S.slot[s].toks /\ x2.task = S.slot[t].task
    BY <1>1, <2>1 DEF RoomSlot
  <2> HIDE DEF x2
  <2> QED
    BY <2>2 DEF RoomSlot, States
<1> HIDE DEF x
<1>5. kv1 \in [Cells -> RoomCell] /\ \A u : Fewer(S.cells, kv1, u)
  BY <1>1, RoomRm
<1>6. NoCells(kv1, t)
  BY <1>1, RoomGone
<1> HIDE DEF kv1
<1>7. /\ kv2 \in [Cells -> RoomCell] /\ \A u \in Slots \ {t} : Fewer(kv1, kv2, u)
      /\ NoCells(kv1, s) /\ NoCells(kv1, t) => NoCells(kv2, t)
  BY <1>5, RoomCp
<1> HIDE DEF kv2
<1>8. \A u \in Slots \ {t} : Fewer(S.cells, kv2, u)
  BY <1>1, <1>5, <1>7, FewerTrans
<1>9. Roomy(kv2, x, t)
  <2>1. x.task \in ServerTask /\ (\E r \in params.requests : r.kind = x.task.kind) /\ ~Plain(x)
    BY <1>2, <1>4 DEF Roomy, Plain
  <2>2. x.toks = <<>> => NoCells(kv2, t)
    <3> SUFFICES ASSUME x.toks = <<>> PROVE NoCells(kv2, t)
      OBVIOUS
    <3>1. NoCells(S.cells, s)
      BY <1>2, <1>4 DEF Roomy, Waiting
    <3>2. NoCells(kv1, s)
      BY <1>1, <1>5, <3>1, FewerNone
    <3> QED
      BY <1>6, <1>7, <3>2
  <2> QED
    BY <1>4, <2>1, <2>2 DEF Roomy
<1>10. sl \in [Slots -> RoomSlot] /\ sl[t] = x /\ \A u \in Slots \ {t} : sl[u] = S.slot[u]
  BY <1>1, <1>4
<1> HIDE DEF sl
<1>11. Becomes(S, R, kv2, sl)
  <2> HIDE DEF R
  <2>1. Becomes(S, [S EXCEPT !.cells = kv2, !.slot = sl], kv2, sl)
    BY <1>7, <1>10, BecomesLemma
  <2> QED
    BY <1>3, <2>1, Zenon
<1> HIDE DEF R
<1>12. Spares(S.cells, S.slot, kv2, sl, t)
  BY <1>7, <1>8, <1>10, AlikeSelf DEF Spares
<1>13. \A k \in h + 1 .. Len(q) : q[k].slot # t
  BY RoomNoRows
<1>14. Room(kv2, sl, S.saved, q, h)
  BY <1>9, <1>10, <1>12, <1>13, OneRoom
<1> QED
  BY <1>10, <1>11, <1>14 DEF Becomes, R

LEMMA RoomActivateTurn ==
    ASSUME RoomInv, NEW s \in Slots, NEW S, NEW j, NEW k, RoomViewGood(S, j)
    PROVE  \A T \in ActivateChildren(S, s) : RoomViewGood(T, k)
<1>0. RoomViewGood(S, 0) /\ \A T : RoomViewGood(T, 0) => RoomViewGood(T, k)
  BY DEF RoomViewGood
<1> SUFFICES \A T \in ActivateChildren(S, s) : RoomViewGood(T, 0)
  BY <1>0
<1> DEFINE h == at + Len(View)
<1>1. batch \in Seq(RoomRow) /\ h \in Nat
  BY RoomAtDecode, RoomView
<1>2. CASE S.slot[s].st # "DONE_PROMPT" \/ ~IsParent(S, s)
  <2>1. ActivateChildren(S, s) = {S}
    BY <1>2 DEF ActivateChildren
  <2> QED
    BY <1>0, <2>1
<1>3. CASE S.slot[s].st = "DONE_PROMPT" /\ IsParent(S, s)
  <2> DEFINE c == [of |-> S, by |-> s]
             X0 == {S}
             X == ActivateChildren(S, s)
  <2>1. X = RoomChildLoop!After(c, X0)
    <3>1. X = CopyToChildren(S, s)
      BY <1>3 DEF ActivateChildren
    <3> QED
      BY <3>1 DEF CopyToChildren, Each, RoomChildLoop!After, ChildTurn
  <2>2. c.of = S /\ c.by = s
    OBVIOUS
  <2> HIDE DEF c, X
  <2>3. \A T \in X0 : ChildGood(c, T, 0)
    BY <1>0, <2>2 DEF ChildGood
  <2>4. ASSUME NEW t \in 1 .. NSlots, NEW R, ChildGood(c, R, t - 1)
        PROVE  \A T \in ChildTurn(c, R, t) : ChildGood(c, T, t)
    <3>1. /\ R \in RoomBase /\ Room(R.cells, R.slot, R.saved, batch, h) /\ R.slot[s] = S.slot[s]
          /\ \A u \in Slots : u > t - 1 => R.slot[u] = S.slot[u]
      BY <2>2, <2>4 DEF ChildGood, RoomViewGood
    <3>2. t \in Slots /\ t > t - 1 /\ \A u \in Slots : u > t => u > t - 1 /\ u # t
      BY NSlotsAssumption DEF Slots
    <3>3. CASE S.slot[t].st = "WAIT_OTHER" /\ S.slot[t].task.parent = s
      <4> DEFINE T == CopyTo(R, s, t)
      <4>1. ChildTurn(c, R, t) = {T}
        BY <2>2, <3>3 DEF ChildTurn
      <4>2. s # t /\ R.slot[s].st = "DONE_PROMPT" /\ R.slot[t].st = "WAIT_OTHER"
        BY <1>3, <3>1, <3>2, <3>3
      <4> HIDE DEF h, T
      <4>3. T \in RoomBase /\ Room(T.cells, T.slot, T.saved, batch, h) /\ \A u \in Slots \ {t} : T.slot[u] = R.slot[u]
        BY <1>1, <3>1, <3>2, <4>2, RoomCopyTo DEF T
      <4>4. T.slot[s] = S.slot[s] /\ \A u \in Slots : u > t => T.slot[u] = S.slot[u]
        BY <3>1, <3>2, <4>2, <4>3
      <4>5. ChildGood(c, T, t)
        BY <2>2, <4>3, <4>4 DEF ChildGood, RoomViewGood, h
      <4> QED
        BY <4>1, <4>5
    <3>4. CASE ~(S.slot[t].st = "WAIT_OTHER" /\ S.slot[t].task.parent = s)
      <4>1. ChildTurn(c, R, t) = {R}
        BY <2>2, <3>4 DEF ChildTurn
      <4>2. ChildGood(c, R, t)
        BY <2>2, <2>4, <3>1, <3>2 DEF ChildGood
      <4> QED
        BY <4>1, <4>2
    <3> QED
      BY <3>3, <3>4
  <2>5. \A T \in RoomChildLoop!After(c, X0) : ChildGood(c, T, NSlots)
    <3>1. \A t \in 1 .. NSlots : \A R : ChildGood(c, R, t - 1) => \A T \in ChildTurn(c, R, t) : ChildGood(c, T, t)
      BY <2>4
    <3> HIDE DEF X0
    <3> QED
      BY <2>3, <3>1, NSlotsAssumption, RoomChildLoop!LoopRule
  <2>6. \A T \in X : RoomViewGood(T, 0)
    BY <2>1, <2>5 DEF ChildGood
  <2> QED
    BY <2>6 DEF X
<1> QED
  BY <1>2, <1>3

\* a sampled token
Sampled(x, tok, left) == [x EXCEPT !.st = "GENERATING", !.sampled = tok, !.i_batch = -1, !.task.left = left]
LEMMA SampledRoomy ==
    ASSUME NEW kv, NEW s, NEW x \in RoomSlot, NEW tok \in AnyTok, NEW left \in Int,
           Roomy(kv, x, s), x.st \in {"DONE_PROMPT", "GENERATING"}
    PROVE  Sampled(x, tok, left) \in RoomSlot /\ Roomy(kv, Sampled(x, tok, left), s)
<1> DEFINE task == [x.task EXCEPT !.left = left]
           y1 == [x EXCEPT !.st = "GENERATING"]
           y2 == [y1 EXCEPT !.sampled = tok]
           y3 == [y2 EXCEPT !.i_batch = -1]
           y == [y3 EXCEPT !.task = task]
<1>1. x.task \in ServerTask /\ \E r \in params.requests : r.kind = x.task.kind
  BY DEF Roomy
<1>2. /\ task \in ServerTask /\ task.kind = x.task.kind /\ task.children = x.task.children /\ task.child = x.task.child
  BY <1>1 DEF ServerTask
<1>3. Sampled(x, tok, left) = y
  <2>1. y3.task = x.task
    BY DEF RoomSlot
  <2> QED
    BY <2>1 DEF RoomSlot, Sampled
<1> HIDE DEF task
<1>4. y1 \in RoomSlot /\ y1.st = "GENERATING" /\ y1.toks = x.toks
  BY DEF RoomSlot, States
<1> HIDE DEF y1
<1>5. y2 \in RoomSlot /\ y2.st = "GENERATING" /\ y2.toks = x.toks
  BY <1>4 DEF RoomSlot
<1> HIDE DEF y2
<1>6. y3 \in RoomSlot /\ y3.st = "GENERATING" /\ y3.toks = x.toks
  BY <1>5 DEF RoomSlot
<1> HIDE DEF y3
<1>7. y \in RoomSlot /\ y.st = "GENERATING" /\ y.toks = x.toks /\ y.task = task
  BY <1>2, <1>6 DEF RoomSlot
<1> HIDE DEF y
<1>8. Plain(y) => Plain(x)
  BY <1>1, <1>2, <1>7, NoTaskAssumption DEF Plain
<1>9. Roomy(kv, y, s)
  BY <1>1, <1>2, <1>7, <1>8 DEF Roomy, Waiting
<1> QED
  BY <1>3, <1>7, <1>9

LEMMA RoomSampleTurn ==
    ASSUME RoomInv, NEW s \in Slots, NEW S, NEW j, NEW k, RoomViewGood(S, j)
    PROVE  \A T \in SampleSlot(S, s) : RoomViewGood(T, k)
<1> DEFINE h == at + Len(View)
           x == S.slot[s]
<1>0. RoomViewGood(S, 0) /\ \A T : RoomViewGood(T, 0) => RoomViewGood(T, k)
  BY DEF RoomViewGood
<1> SUFFICES \A T \in SampleSlot(S, s) : RoomViewGood(T, 0)
  BY <1>0
<1>1. /\ S \in RoomBase /\ Room(S.cells, S.slot, S.saved, batch, h) /\ Roomy(S.cells, x, s)
      /\ S.cells \in [Cells -> RoomCell] /\ S.slot \in [Slots -> RoomSlot] /\ x \in RoomSlot
  BY RoomFields DEF RoomViewGood, Room
<1>2. h \in Nat /\ Len(batch) \in Nat /\ batch \in Seq(RoomRow) /\ params \in Configs
  BY RoomAtDecode, RoomView
<1>4. CASE ~InView(S, s) \/ x.st \notin {"DONE_PROMPT", "GENERATING"}
  <2>1. SampleSlot(S, s) = {S}
    BY <1>4 DEF SampleSlot
  <2> QED
    BY <1>0, <2>1
<1>5. CASE InView(S, s) /\ x.st \in {"DONE_PROMPT", "GENERATING"}
  <2>0. x.i_batch \in Int /\ x.i_batch < h
    BY <1>1, <1>5 DEF RoomSlot, InView
  <2> HIDE DEF h
  <2>1. \A i \in h + 1 .. Len(batch) : batch[i].slot # s
    <3> SUFFICES ASSUME NEW i \in h + 1 .. Len(batch), batch[i].slot = s PROVE FALSE
      OBVIOUS
    <3>1. RoomyRow(x, batch[i].pos, i)
      BY <1>1 DEF Room
    <3>2. i <= x.i_batch + 1
      BY <1>5, <3>1 DEF RoomyRow
    <3> QED
      BY <1>2, <2>0, <3>2
  <2>2. RoomViewGood(Release(S, s), 0)
    <3>1. ~Waiting(S.slot[s])
      BY <1>5 DEF Waiting
    <3> DEFINE R == Release(S, s)
    <3> HIDE DEF R
    <3>2. Keeps(S, R) /\ Room(R.cells, R.slot, R.saved, batch, h)
      BY <1>1, <1>2, <2>1, <3>1, RoomRelease DEF R
    <3>3. RoomViewGood(R, 0)
      BY <1>1, <3>2 DEF Keeps, RoomViewGood, h
    <3> QED
      BY <3>3 DEF R
  <2> DEFINE left == IF S.slot[s].task.left = Unlimited THEN Unlimited ELSE S.slot[s].task.left - 1
  <2>3. left \in Int
    <3>1. x.task.left \in Int
      BY <1>1, <1>5 DEF Roomy, ServerTask
    <3> QED
      BY <3>1 DEF Unlimited
  <2> HIDE DEF left
  <2>4. ASSUME NEW tok \in params.samples
        PROVE  RoomViewGood([S EXCEPT !.slot[s] = Sampled(@, tok, left)], 0)
    <3> DEFINE y == Sampled(x, tok, left)
               sl == [S.slot EXCEPT ![s] = y]
               U == [S EXCEPT !.slot[s] = Sampled(@, tok, left)]
    <3>1. tok \in AnyTok
      BY <1>2, ConfigsAssumption DEF Config, AnyTok
    <3>2. y \in RoomSlot /\ Roomy(S.cells, y, s)
      BY <1>1, <1>5, <2>3, <3>1, SampledRoomy
    <3>3. U = [S EXCEPT !.slot = sl]
      OBVIOUS
    <3> HIDE DEF y, U
    <3>4. sl \in [Slots -> RoomSlot] /\ sl[s] = y /\ \A t \in Slots \ {s} : sl[t] = S.slot[t]
      BY <1>1, <3>2
    <3> HIDE DEF sl
    <3>5. U \in RoomBase /\ U.cells = S.cells /\ U.slot = sl /\ U.saved = S.saved
      BY <1>1, <3>3, <3>4 DEF RoomBase
    <3>6. Spares(S.cells, S.slot, S.cells, sl, s)
      <4>1. \A t \in Slots \ {s} : Fewer(S.cells, S.cells, t)
        BY <1>1, FewerSame
      <4> QED
        BY <1>1, <3>4, <4>1, AlikeSelf DEF Spares
    <3>7. Room(S.cells, sl, S.saved, batch, h)
      BY <1>1, <1>2, <2>1, <3>2, <3>4, <3>6, OneRoom
    <3>8. RoomViewGood(U, 0)
      BY <3>5, <3>7 DEF RoomViewGood, h
    <3> QED
      BY <3>8 DEF U
  <2>5. ASSUME NEW T \in SampleSlot(S, s), T # Release(S, s)
        PROVE  \E tok \in params.samples : T = [S EXCEPT !.slot[s] = Sampled(@, tok, left)]
    BY <1>5, <2>5 DEF SampleSlot, Sampled, left
  <2> QED
    BY <2>2, <2>4, <2>5
<1> QED
  BY <1>4, <1>5

LEMMA RoomDecodeOk ==
    ASSUME RoomInv, DecodeOk
    PROVE  RoomInv'
<1> DEFINE h == at + Len(View)
           P == [State EXCEPT !.cells = Place(@, View)]
           X0 == {P}
           X1 == Each(ActivateChildren, X0)
           X2 == Each(SampleSlot, X1)
<1>1. /\ State \in RoomBase /\ State.cells = cells /\ State.slot = slot /\ State.saved = saved
      /\ params \in Configs /\ params.n_batch \in Nat \ {0}
      /\ batch \in Seq(RoomRow) /\ Len(batch) \in Nat /\ at \in Nat
  BY RoomAtDecode
<1>2. Len(View) \in Nat /\ h \in Nat
  BY <1>1, RoomView
<1>3. RoomViewGood(P, 0)
  <2> DEFINE new == Place(cells, View)
  <2>1. new \in [Cells -> RoomCell] /\ Room(new, slot, saved, batch, at + Len(View))
    BY RoomPlaced
  <2>2. P = [State EXCEPT !.cells = new]
    BY <1>1
  <2> HIDE DEF new, P
  <2>3. P \in RoomBase /\ P.cells = new /\ P.slot = slot /\ P.saved = saved
    BY <1>1, <2>1, <2>2 DEF RoomBase
  <2> QED
    BY <2>1, <2>3 DEF RoomViewGood
<1>4. \A S \in X0 : RoomViewGood(S, 0)
  BY <1>3
<1>5. \A S \in X1 : RoomViewGood(S, NSlots)
  <2>1. X1 = RoomActivateLoop!After(0, X0)
    BY DEF Each, RoomActivateLoop!After
  <2>2. \A s \in 1 .. NSlots : \A R : RoomViewGood(R, s - 1) => \A T \in ActivateChildren(R, s) : RoomViewGood(T, s)
    BY RoomActivateTurn DEF Slots
  <2> HIDE DEF X0, X1
  <2> QED
    BY <1>4, <2>1, <2>2, NSlotsAssumption, RoomActivateLoop!LoopRule
<1> HIDE DEF X0, X1
<1>6. \A S \in X1 : RoomViewGood(S, 0)
  BY <1>5 DEF RoomViewGood
<1>7. \A S \in X2 : RoomViewGood(S, NSlots)
  <2>1. X2 = RoomSampleLoop!After(0, X1)
    BY DEF Each, RoomSampleLoop!After
  <2>2. \A s \in 1 .. NSlots : \A R : RoomViewGood(R, s - 1) => \A T \in SampleSlot(R, s) : RoomViewGood(T, s)
    BY RoomSampleTurn DEF Slots
  <2> HIDE DEF X2
  <2> QED
    BY <1>6, <2>1, <2>2, NSlotsAssumption, RoomSampleLoop!LoopRule
<1>8. PICK F \in X2 : Take(F)
  BY DEF DecodeOk, X1, X0
<1> HIDE DEF X2, P
<1>9. Room(F.cells, F.slot, F.saved, batch, h)
  BY <1>7, <1>8 DEF RoomViewGood
<1> HIDE DEF h
<1>10. params' = params /\ file' = file
  BY DEF DecodeOk
<1>11. (file # NoFile => file \in RoomEntry)'
  BY <1>10 DEF RoomInv
<1>12. CASE h = Len(batch)
  <2> DEFINE q == <<>>
  <2>1. batch' = q /\ at' = 0 /\ n_batch' = params.n_batch
    BY <1>12 DEF DecodeOk, BatchEnds, h
  <2>2. Room(F.cells, F.slot, F.saved, q, 0)
    BY <1>9, RoomNothing
  <2>3. batch' \in Seq(RoomRow)
    BY <2>1, EmptySeq
  <2>4. batch' = <<>>
    BY <2>1
  <2> HIDE DEF q
  <2>5. Room(cells, slot, saved, batch, at)'
    BY <1>8, <1>10, <2>1, <2>2, RoomPrime DEF Take
  <2> QED
    BY <1>1, <1>10, <1>11, <2>1, <2>3, <2>4, <2>5 DEF RoomInv
<1>13. CASE h # Len(batch)
  <2>1. batch' = batch /\ at' = h /\ n_batch' = params.n_batch /\ phase' = phase /\ phase = "decode"
    BY <1>13 DEF DecodeOk, Decoding, h
  <2>2. Room(cells, slot, saved, batch, at)'
    BY <1>8, <1>9, <1>10, <2>1, RoomPrime DEF Take
  <2> QED
    BY <1>1, <1>2, <1>10, <1>11, <2>1, <2>2 DEF RoomInv
<1> QED
  BY <1>12, <1>13

\* FailSlot(S, s): the slot is released and loses its cells, whatever it worked on.
LEMMA RoomFailTurn ==
    ASSUME NEW s \in Slots, NEW S, NEW j, NEW k, Alone(S, j)
    PROVE  \A T \in FailSlot(S, s) : Alone(T, k)
<1>1. S \in RoomBase /\ Room(S.cells, S.slot, S.saved, <<>>, 0)
  BY DEF Alone
<1>2. CASE ~Processing(S, s)
  BY <1>1, <1>2 DEF FailSlot, Alone
<1>3. CASE Processing(S, s)
  <2> DEFINE R == Release(S, s)
             T == PromptClear(R, s)
             kv2 == SeqRm(R.cells, s, 0, End)
             sl2 == [R.slot EXCEPT ![s] = Cleared(R.slot[s])]
             q == <<>>
  <2>1. FailSlot(S, s) = {T}
    BY <1>3 DEF FailSlot
  <2>2. Freeing(S, R, s)
    BY <1>1, ReleaseFrees
  <2> HIDE DEF R
  <2>3. /\ R \in RoomBase /\ R.saved = S.saved /\ R.slot[s].st = "IDLE"
        /\ R.cells \in [Cells -> RoomCell] /\ R.slot \in [Slots -> RoomSlot]
        /\ \A t \in Slots \ {s} : Fewer(S.cells, R.cells, t) /\ Alike(S.slot[t], R.slot[t])
    BY <1>1, <2>2 DEF Freeing, Keeps, Spares
  <2>4. Becomes(R, T, kv2, sl2) /\ kv2 \in [Cells -> RoomCell] /\ sl2 \in [Slots -> RoomSlot]
    BY <2>3, ClearBecomes
  <2>5. (\A t : Fewer(R.cells, kv2, t)) /\ NoCells(kv2, s)
    BY <2>3, RoomRm, RoomGone
  <2>6. sl2[s].st = "IDLE" /\ \A t \in Slots \ {s} : sl2[t] = R.slot[t]
    BY <2>3 DEF RoomSlot, Cleared
  <2> HIDE DEF sl2, kv2, T
  <2>7. S.cells \in [Cells -> RoomCell]
    BY <1>1, RoomFields
  <2>8. \A t \in Slots \ {s} : Fewer(S.cells, kv2, t)
    BY <2>3, <2>4, <2>5, <2>7, FewerTrans
  <2>9. Spares(S.cells, S.slot, kv2, sl2, s)
    BY <2>3, <2>4, <2>6, <2>8 DEF Spares
  <2>10. Roomy(kv2, sl2[s], s)
    BY <2>5, <2>6 DEF Roomy
  <2>11. q \in Seq(RoomRow) /\ 0 \in Nat /\ (\A i \in 0 + 1 .. Len(q) : q[i].slot = s => RoomyRow(sl2[s], q[i].pos, i))
    BY EmptySeq
  <2>12. Room(S.cells, S.slot, S.saved, q, 0)
    BY <1>1
  <2> HIDE DEF q
  <2>13. Room(kv2, sl2, S.saved, q, 0)
    BY <2>9, <2>10, <2>11, <2>12, OneRoom
  <2>14. Alone(T, k)
    BY <2>3, <2>4, <2>13 DEF Becomes, Alone, q
  <2> QED
    BY <2>1, <2>14
<1> QED
  BY <1>2, <1>3

LEMMA RoomFailAll ==
    ASSUME RoomInv, FailAll
    PROVE  RoomInv'
<1> DEFINE X0 == {State}
           X1 == Each(FailSlot, X0)
           q == <<>>
<1>1. /\ State \in RoomBase /\ State.cells = cells /\ State.slot = slot /\ State.saved = saved
      /\ Room(cells, slot, saved, batch, at) /\ params \in Configs /\ params.n_batch \in Nat \ {0}
  BY RoomAtDecode
<1>2. Alone(State, 0)
  BY <1>1, RoomNothing DEF Alone
<1>3. \A S \in X0 : Alone(S, 0)
  BY <1>2
<1>4. \A S \in X1 : Alone(S, NSlots)
  <2>1. X1 = RoomFailLoop!After(0, X0)
    BY DEF Each, RoomFailLoop!After
  <2>2. \A s \in 1 .. NSlots : \A R : Alone(R, s - 1) => \A T \in FailSlot(R, s) : Alone(T, s)
    BY RoomFailTurn DEF Slots
  <2> HIDE DEF X0, X1
  <2> QED
    BY <1>3, <2>1, <2>2, NSlotsAssumption, RoomFailLoop!LoopRule
<1>5. PICK F \in X1 : Take(F)
  BY DEF FailAll
<1> HIDE DEF X0, X1
<1>6. Room(F.cells, F.slot, F.saved, q, 0)
  BY <1>4, <1>5 DEF Alone
<1>7. params' = params /\ file' = file /\ batch' = q /\ batch' = <<>> /\ at' = 0 /\ n_batch' = params.n_batch
  BY DEF FailAll, BatchEnds
<1>8. batch' \in Seq(RoomRow)
  BY <1>7, EmptySeq
<1> HIDE DEF q
<1>9. Room(cells, slot, saved, batch, at)'
  BY <1>5, <1>6, <1>7, RoomPrime DEF Take
<1>10. (file # NoFile => file \in RoomEntry)'
  BY <1>7 DEF RoomInv
<1> QED
  BY <1>1, <1>7, <1>8, <1>9, <1>10 DEF RoomInv

LEMMA RoomDecodeRetry ==
    ASSUME RoomInv, DecodeRetry
    PROVE  RoomInv'
<1>1. /\ State \in RoomBase /\ State.cells = cells /\ State.slot = slot /\ State.saved = saved
      /\ Room(cells, slot, saved, batch, at)
      /\ params \in Configs /\ batch \in Seq(RoomRow) /\ at \in Nat /\ n_batch \in Nat
  BY RoomAtDecode
<1>2. params' = params /\ file' = file /\ batch' = batch /\ at' = at /\ phase' = phase /\ phase = "decode"
  BY DEF DecodeRetry, Decoding
<1>3. (file # NoFile => file \in RoomEntry)'
  BY <1>2 DEF RoomInv
<1>4. ASSUME NEW S, Take(S), Room(S.cells, S.slot, S.saved, batch, at), n_batch' \in Nat
      PROVE  RoomInv'
  <2>1. Room(cells, slot, saved, batch, at)'
    BY <1>2, <1>4, RoomPrime DEF Take
  <2> QED
    BY <1>1, <1>2, <1>3, <1>4, <2>1 DEF RoomInv
<1>5. CASE Purgeable = {}
  <2>1. Take(State) /\ n_batch' = n_batch \div 2
    BY <1>5 DEF DecodeRetry
  <2>2. n_batch' \in Nat
    BY <1>1, <2>1
  <2> QED
    BY <1>1, <1>4, <2>1, <2>2
<1>6. CASE Purgeable # {}
  <2> DEFINE s == Min(Purgeable)
             T == PromptClear(State, s)
  <2>1. Take(T) /\ n_batch' = n_batch
    BY <1>6 DEF DecodeRetry
  <2>2. s \in Slots /\ slot[s].st = "IDLE"
    <3>1. Purgeable \in SUBSET Slots
      BY DEF Purgeable, Idle
    <3>2. s \in Purgeable
      BY <1>6, <3>1, MinIn
    <3> QED
      BY <1>1, <3>2 DEF Purgeable, Idle, Processing
  <2> HIDE DEF s
  <2>3. \A k \in at + 1 .. Len(batch) : batch[k].slot # s
    BY <1>1, <2>2, RoomNoRows
  <2> HIDE DEF T
  <2>4. Room(T.cells, T.slot, T.saved, batch, at)
    <3>1. Room(State.cells, State.slot, State.saved, batch, at)
      BY <1>1
    <3> QED
      BY <1>1, <2>2, <2>3, <3>1, RoomClear, ZenonT(60) DEF T
  <2> QED
    BY <1>1, <1>4, <2>1, <2>4
<1> QED
  BY <1>5, <1>6

LEMMA RoomInit ==
    ASSUME Init
    PROVE  RoomInv
<1>1. /\ params \in Configs /\ params.n_batch \in Nat \ {0} /\ params.n_ctx \in Nat
  BY ConfigsAssumption DEF Init, Config
<1>2. cells \in [Cells -> RoomCell] /\ \A i \in Cells : cells[i] = Empty
  BY DEF Init, RoomCell
<1>3. \A s \in Slots : NoCells(cells, s)
  BY <1>2 DEF NoCells, Empty
<1>4. InitSlot \in RoomSlot /\ InitSlot.st = "IDLE"
  <2> DEFINE none == <<>>
  <2>1. none \in Seq(AnyTok)
    BY EmptySeq
  <2>2. InitSlot = [st |-> "IDLE", toks |-> none, task |-> NoTask, sampled |-> NoTok, i_batch |-> -1]
    BY DEF InitSlot
  <2> HIDE DEF none
  <2> QED
    BY <2>1, <2>2 DEF RoomSlot, States, AnyTok
<1>5. slot \in [Slots -> RoomSlot] /\ \A s \in Slots : slot[s].st = "IDLE"
  BY <1>4 DEF Init
<1>6. saved \in Seq(RoomEntry) /\ batch \in Seq(RoomRow)
  BY EmptySeq DEF Init
<1>7. RoomTyped(cells, slot, saved)
  BY <1>2, <1>5, <1>6 DEF RoomTyped
<1>8. \A s \in Slots : Roomy(cells, slot[s], s)
  BY <1>3, <1>5 DEF Roomy
<1>9. \A k \in at + 1 .. Len(batch) : RoomyRow(slot[batch[k].slot], batch[k].pos, k)
  <2>1. Len(batch) = 0 /\ at = 0
    BY EmptySeq DEF Init
  <2> QED
    BY <2>1
<1> QED
  BY <1>1, <1>6, <1>7, <1>8, <1>9 DEF Init, RoomInv, Room

LEMMA RoomNext ==
    ASSUME RoomInv, Tidy(params), [Next]_vars
    PROVE  RoomInv'
<1>1. CASE \E r \in params.requests, s \in Slots : Launch(r, s)
  BY <1>1, RoomLaunch
<1>2. CASE \E s \in Slots : Cancel(s)
  BY <1>2, RoomCancel
<1>3. CASE \E s \in Slots : SlotSave(s)
  BY <1>3, RoomSlotSave
<1>4. CASE \E s \in Slots : SlotErase(s)
  BY <1>4, RoomErase
<1>5. CASE \E s \in Slots : SlotRestore(s)
  BY <1>5, RoomRestore
<1>6. CASE \E s \in Slots : SlotRestoreFails(s)
  BY <1>6 DEF SlotRestoreFails, Tidy
<1>7. CASE UpdateSlots
  BY <1>7, RoomUpdateSlots
<1>8. CASE DecodeError
  BY <1>8, RoomFailAll DEF DecodeError
<1>9. CASE DecodeExceeded
  BY <1>9, RoomFailAll DEF DecodeExceeded
<1>10. CASE DecodeRetry
  BY <1>10, RoomDecodeRetry
<1>11. CASE DecodeOk
  BY <1>11, RoomDecodeOk
<1>12. CASE UNCHANGED vars
  <2>1. /\ params' = params /\ cells' = cells /\ slot' = slot /\ saved' = saved /\ file' = file
        /\ batch' = batch /\ at' = at /\ n_batch' = n_batch /\ phase' = phase
    BY <1>12 DEF vars
  <2>2. Room(State.cells, State.slot, State.saved, batch, at)
    BY RoomAtDecode
  <2>3. cells' = State.cells /\ slot' = State.slot /\ saved' = State.saved
    BY <2>1, RoomAtDecode
  <2>4. Room(cells, slot, saved, batch, at)'
    BY <2>1, <2>2, <2>3, RoomPrime
  <2>5. (file # NoFile => file \in RoomEntry)'
    BY <2>1 DEF RoomInv
  <2> QED
    BY <2>1, <2>4, <2>5 DEF RoomInv
<1> QED
  BY <1>1, <1>2, <1>3, <1>4, <1>5, <1>6, <1>7, <1>8, <1>9, <1>10, <1>11, <1>12 DEF Next

\* A view is halved only while no idle slot has tokens, and that does not change before it is decoded.
LEMMA RoomHalved ==
    ASSUME RoomInv, Halved, [Next]_vars
    PROVE  Halved'
<1>1. /\ State.cells = cells /\ State.slot = slot /\ State.saved = saved
  BY RoomAtDecode
<1>2. CASE n_batch' = params'.n_batch
  BY <1>2 DEF Halved
<1>3. CASE n_batch' # params'.n_batch
  <2>1. (UNCHANGED vars \/ DecodeRetry)
    <3>1. ASSUME phase = "tasks", SameBatch PROVE FALSE
      <4>1. n_batch = params.n_batch /\ n_batch' = n_batch /\ params' = params
        BY <3>1 DEF RoomInv, SameBatch
      <4> QED
        BY <1>3, <4>1
    <3>2. ASSUME BatchEnds, params' = params PROVE FALSE
      BY <1>3, <3>2 DEF BatchEnds
    <3>3. ~\E r \in params.requests, s \in Slots : Launch(r, s)
      BY <3>1 DEF Launch
    <3>4. ~\E s \in Slots : Cancel(s) \/ SlotSave(s) \/ SlotErase(s) \/ SlotRestore(s) \/ SlotRestoreFails(s)
      BY <3>1 DEF Cancel, SlotSave, SlotErase, SlotRestore, SlotRestoreFails
    <3>5. ~UpdateSlots
      BY <1>3 DEF UpdateSlots
    <3>6. ~DecodeError /\ ~DecodeExceeded
      BY <3>2 DEF DecodeError, DecodeExceeded, FailAll
    <3>7. ~DecodeOk
      BY <1>3, <3>2 DEF DecodeOk
    <3> QED
      BY <3>3, <3>4, <3>5, <3>6, <3>7 DEF Next
  <2>2. Purgeable = {}
    <3>1. CASE UNCHANGED vars
      <4>1. n_batch' = n_batch /\ params' = params
        BY <3>1 DEF vars
      <4> QED
        BY <1>3, <4>1 DEF Halved
    <3>2. CASE DecodeRetry
      <4> SUFFICES ASSUME Purgeable # {} PROVE FALSE
        OBVIOUS
      <4>1. n_batch' = n_batch /\ params' = params
        BY <3>2 DEF DecodeRetry
      <4> QED
        BY <1>3, <4>1 DEF Halved
    <3> QED
      BY <2>1, <3>1, <3>2
  <2>3. slot' = slot
    <3>1. CASE UNCHANGED vars
      BY <3>1 DEF vars
    <3>2. CASE DecodeRetry
      BY <1>1, <2>2, <3>2 DEF DecodeRetry, Take
    <3> QED
      BY <2>1, <3>1, <3>2
  <2>4. State'.slot = slot'
    BY DEF State
  <2>5. Purgeable' = Purgeable
    BY <1>1, <2>3, <2>4 DEF Purgeable, Idle, Processing
  <2> QED
    BY <2>2, <2>5 DEF Halved
<1> QED
  BY <1>2, <1>3

\* A view of one token that finds no cell, after the idle slots gave up theirs.
LEMMA RoomExhausted ==
    ASSUME RoomInv, Halved, params.n_batch > 1, DecodeExceeded
    PROVE  \A i \in Cells : \E s \in cells[i].seqs : Processing(State, s)
<1>1. /\ State.slot = slot /\ Room(cells, slot, saved, batch, at) /\ params.n_ctx \in Nat
      /\ cells \in [Cells -> RoomCell] /\ slot \in [Slots -> RoomSlot]
  BY RoomAtDecode
<1>3. Purgeable = {}
  BY DEF DecodeExceeded, Halved
<1>4. Free(cells) = {}
  <2>1. Len(View) \in Nat /\ Len(View) <= 1
    BY RoomView DEF DecodeExceeded
  <2>2. ~(Len(View) <= Cardinality(Free(cells)))
    BY DEF DecodeExceeded, RoomForView
  <2>3. IsFiniteSet(Free(cells))
    <3>1. IsFiniteSet(Cells)
      BY <1>1, FS_Interval DEF Cells
    <3>2. Free(cells) \subseteq Cells
      BY <1>1 DEF Free
    <3> QED
      BY <3>1, <3>2, FS_Subset
  <2>4. Cardinality(Free(cells)) = 0
    <3>1. Cardinality(Free(cells)) \in Nat
      BY <2>3, FS_CardinalityType
    <3> HIDE DEF Free
    <3> QED
      BY <2>1, <2>2, <3>1
  <2> QED
    BY <2>3, <2>4, FS_EmptySet
<1> SUFFICES ASSUME NEW i \in Cells PROVE \E s \in cells[i].seqs : Processing(State, s)
  OBVIOUS
<1>5. cells[i] # Empty
  BY <1>1, <1>4 DEF Free
<1>6. PICK s \in cells[i].seqs : s \in Slots
  BY <1>1, <1>5, RoomCellLemma
<1>7. CASE Processing(State, s)
  BY <1>7
<1>8. CASE ~Processing(State, s)
  <2>1. slot[s].st = "IDLE" /\ slot[s].toks = <<>>
    BY <1>1, <1>3, <1>6, <1>8 DEF Purgeable, Idle, Processing
  <2>2. NoCells(cells, s)
    BY <1>1, <1>6, <2>1 DEF Room, Roomy, Waiting
  <2> QED
    BY <1>1, <1>6, <2>2 DEF NoCells
<1> QED
  BY <1>7, <1>8

\* While whoever forgets the tokens of a slot also removes its cells, and the views can be halved, the
\* context is exceeded only when running requests fill the cache, whatever children they have.
THEOREM NoNeedlessExhaustionHolds ==
    ASSUME \A c \in Configs : Tidy(c) /\ c.n_batch > 1
    PROVE  Spec => NoNeedlessExhaustion
<1>1. Init => RoomInv /\ Halved
  BY RoomInit DEF Init, Halved
<1>2. RoomInv => Tidy(params) /\ params.n_batch > 1
  BY DEF RoomInv
<1>3. RoomInv /\ Halved /\ [Next]_vars => RoomInv' /\ Halved'
  BY <1>2, RoomNext, RoomHalved
<1>4. RoomInv /\ Halved /\ DecodeExceeded => \A i \in Cells : \E s \in cells[i].seqs : Processing(State, s)
  BY <1>2, RoomExhausted
<1> QED
  BY <1>1, <1>3, <1>4, PTL DEF Spec, NoNeedlessExhaustion
=============================================================================
