---------------------------- MODULE KvBatchProofs ----------------------------
(***************************************************************************)
(* What batches and memory calls leave in the cache, from what prepare is  *)
(* known to leave behind (TrialInv): K rows that fit their cells, and      *)
(* sequences without holes.                                                *)
(***************************************************************************)
EXTENDS KvCacheProofs

-----------------------------------------------------------------------------
(***************************************************************************)
(* The K rows: between two calls every used cell holds a K row that was    *)
(* computed and is rotated, with the pending shift, for the cell's         *)
(* position, for every cache, window and batch whose tokens belong to one  *)
(* sequence each.                                                          *)
(*                                                                         *)
(* A memory call carries the row along: what it does to the position it    *)
(* does to the shift (Carries). A trial placement loses the shift of the   *)
(* cells of its slot (those that had one are in drifted) and of nothing    *)
(* else; what prepare leaves of a cell is known from TrialInv. A ubatch    *)
(* that fails is found again by its sequence and its positions: this is    *)
(* where a token of several sequences would escape, because llama_decode   *)
(* looks at the first of them only.                                        *)
(***************************************************************************)

\* every token belongs to one sequence, as in the batches of the server (common_batch_add with { slot.id })
SingleSequence == \A b \in Batches : \A u \in DOMAIN b : \A k \in DOMAIN b[u] : \E s \in Seqs : b[u][k] = {s}

\* row r, turned by the pending shift, is rotated for the position of cell c
Turned(r, c) == r # NoPos /\ r + c.shift = c.pos
RowsOK(cells, rows, apart) == \A i \in Cells \ apart : ~IsEmpty(cells[i]) => Turned(rows[i], cells[i])

\* a cell n that comes from c with its row: emptied, or moved as far as its shift grew
Carries(c, n) == IsEmpty(n) \/ (~IsEmpty(c) /\ n.pos - n.shift = c.pos - c.shift)

-----------------------------------------------------------------------------
\* Rows that are carried along

LEMMA CarriedRows ==
    ASSUME NEW cells \in [Cells -> Cell], NEW new \in [Cells -> Cell], NEW rows, NEW apart,
           \A i \in Cells : rows[i] \in Int,
           RowsOK(cells, rows, apart), \A i \in Cells : Carries(cells[i], new[i])
    PROVE  RowsOK(new, rows, apart)
<1> SUFFICES ASSUME NEW i \in Cells \ apart, ~IsEmpty(new[i]) PROVE Turned(rows[i], new[i])
  BY DEF RowsOK
<1>1. ~IsEmpty(cells[i]) /\ new[i].pos - new[i].shift = cells[i].pos - cells[i].shift
  BY DEF Carries
<1>2. rows[i] # NoPos /\ rows[i] + cells[i].shift = cells[i].pos
  BY <1>1 DEF RowsOK, Turned
<1>3. cells[i] \in Cell /\ new[i] \in Cell
  OBVIOUS
<1>4. cells[i].pos \in Int /\ cells[i].shift \in Int /\ new[i].pos \in Int /\ new[i].shift \in Int
        /\ rows[i] \in Int
  BY <1>3, MaxPosAssumption DEF Cell, Pos, NoPos
<1>5. rows[i] + new[i].shift = new[i].pos
  BY <1>1, <1>2, <1>4
<1> QED
  BY <1>2, <1>5 DEF Turned

LEMMA ForgottenRows ==
    ASSUME NEW cells, NEW rows, NEW apart, RowsOK(cells, rows, apart)
    PROVE  RowsOK(cells, Forget(cells, rows), InUse(cells, apart))
  BY DEF RowsOK, Forget, InUse

LEMMA CarriesItself ==
    ASSUME NEW c
    PROVE  Carries(c, c)
  BY DEF Carries

LEMMA ApplyCarries ==
    ASSUME NEW k, Good(k), NEW J \in SUBSET Cells, NEW eff, DOMAIN eff = J,
           \A i \in J : Carries(k.cells[i], eff[i].cell)
    PROVE  \A i \in Cells : Carries(k.cells[i], Apply(k, eff).cells[i])
  BY ApplyCells, CarriesItself

\* fewer sequences, the same position and shift, or nothing
LEMMA FewerCarries ==
    ASSUME NEW c \in Cell, Owned(c), NEW S \in SUBSET Seqs, c.seq # {}
    PROVE  Carries(c, [c EXCEPT !.seq = S])
<1>1. [c EXCEPT !.seq = S].pos = c.pos /\ [c EXCEPT !.seq = S].shift = c.shift
  BY DEF Cell
<1> QED
  BY <1>1 DEF Carries, Owned, IsEmpty

LEMMA LeaveCarries ==
    ASSUME NEW c \in Cell, Owned(c), NEW G, G # {}, G \subseteq c.seq
    PROVE  Carries(c, Leave(c, G).cell)
<1>1. c.seq \ G \in SUBSET Seqs /\ c.seq # {}
  BY DEF Cell
<1>2. Leave(c, G).cell = IF c.seq \ G = {} THEN Empty ELSE [c EXCEPT !.seq = c.seq \ G]
  BY DEF Leave, Effect
<1>3. Carries(c, [c EXCEPT !.seq = c.seq \ G])
  BY <1>1, FewerCarries
<1>4. Carries(c, Empty)
  BY EmptyCell DEF Carries
<1> QED
  BY <1>2, <1>3, <1>4, Zenon

LEMMA PurgedCarries ==
    ASSUME NEW c \in Cell, Owned(c), NEW over
    PROVE  Carries(c, Purged(c, over))
<1>1. CASE GoneFrom(c, over) = {}
  BY <1>1, CarriesItself DEF Purged
<1>2. CASE GoneFrom(c, over) # {}
  <2>1. GoneFrom(c, over) \subseteq c.seq /\ c.seq # {} /\ c.seq \ GoneFrom(c, over) \in SUBSET Seqs
    BY <1>2 DEF GoneFrom, Cell
  <2>2. Carries(c, [c EXCEPT !.seq = c.seq \ GoneFrom(c, over)])
    BY <2>1, FewerCarries
  <2>3. Carries(c, Empty)
    BY EmptyCell DEF Carries
  <2> QED
    BY <1>2, <2>2, <2>3, Zenon DEF Purged
<1> QED
  BY <1>1, <1>2

LEMMA SeqRmCarries ==
    ASSUME NEW k, Good(k), NEW s \in Seqs, NEW p0, NEW p1, NEW i \in Cells
    PROVE  Carries(k.cells[i], SeqRm(k, s, p0, p1).cells[i])
<1> DEFINE J == {j \in Cells : PosIn(k.cells[j], p0, p1) /\ s \in k.cells[j].seq}
           eff == [j \in J |-> RmSeq(k.cells[j], s)]
<1>1. J \in SUBSET Cells /\ DOMAIN eff = J
  OBVIOUS
<1>2. ASSUME NEW j \in J PROVE Carries(k.cells[j], eff[j].cell) /\ Coherent(k.cells[j], eff[j])
  <2>1. k.cells[j] \in Cell /\ Owned(k.cells[j]) /\ s \in k.cells[j].seq /\ {s} \subseteq k.cells[j].seq
    BY GoodCell
  <2>2. eff[j] = Leave(k.cells[j], {s}) /\ {s} # {}
    BY RmSeqLeaves
  <2>3. Coherent(k.cells[j], RmSeq(k.cells[j], s))
    BY <2>1, RmSeqCoherent
  <2> QED
    BY <2>1, <2>2, <2>3, LeaveCarries
<1>3. SeqRm(k, s, p0, p1) = LowerHead(Apply(k, eff), Freed(eff))
  BY DEF SeqRm
<1> HIDE DEF J, eff
<1>4. Good(Apply(k, eff)) /\ Carries(k.cells[i], Apply(k, eff).cells[i])
  BY <1>1, <1>2, ApplyCarries, ApplyGood
<1> QED
  BY <1>3, <1>4, LowerHeadCells, Zenon

LEMMA SeqRmAnyCarries ==
    ASSUME NEW k, Good(k), NEW p0, NEW p1, NEW i \in Cells
    PROVE  Carries(k.cells[i], SeqRmAny(k, p0, p1).cells[i])
<1> DEFINE J == {j \in Cells : PosIn(k.cells[j], p0, p1)}
           eff == [j \in J |-> Rm(k.cells[j])]
<1>1. J \in SUBSET Cells /\ DOMAIN eff = J
  OBVIOUS
<1>2. \A j \in J : Carries(k.cells[j], eff[j].cell) /\ Coherent(k.cells[j], eff[j])
  BY GoodCell, RmCoherent, EmptyCell DEF Carries, Rm, Effect
<1>3. SeqRmAny(k, p0, p1) = LowerHead(Apply(k, eff), Freed(eff))
  BY DEF SeqRmAny
<1> HIDE DEF J, eff
<1>4. Good(Apply(k, eff)) /\ Carries(k.cells[i], Apply(k, eff).cells[i])
  BY <1>1, <1>2, ApplyCarries, ApplyGood
<1> QED
  BY <1>3, <1>4, LowerHeadCells, Zenon

LEMMA SeqCpCarries ==
    ASSUME NEW k, Good(k), NEW src \in Seqs, NEW dst \in Seqs, NEW p0, NEW p1, NEW i \in Cells
    PROVE  Carries(k.cells[i], SeqCp(k, src, dst, p0, p1).cells[i])
<1> DEFINE J == {j \in Cells : PosIn(k.cells[j], p0, p1) /\ src \in k.cells[j].seq}
           eff == [j \in J |-> AddSeq(k.cells[j], dst)]
<1>1. J \in SUBSET Cells /\ DOMAIN eff = J
  OBVIOUS
<1>2. ASSUME NEW j \in J PROVE Carries(k.cells[j], eff[j].cell)
  <2>1. k.cells[j] \in Cell /\ Owned(k.cells[j]) /\ k.cells[j].seq # {}
          /\ k.cells[j].seq \cup {dst} \in SUBSET Seqs
    BY GoodCell DEF Cell
  <2>2. eff[j].cell = [k.cells[j] EXCEPT !.seq = k.cells[j].seq \cup {dst}]
    BY DEF AddSeq, Effect
  <2> QED
    BY <2>1, <2>2, FewerCarries
<1>3. SeqCp(k, src, dst, p0, p1) = Apply(k, eff)
  BY DEF SeqCp
<1> HIDE DEF J, eff
<1> QED
  BY <1>1, <1>2, <1>3, ApplyCarries

LEMMA SeqKeepCarries ==
    ASSUME NEW k, Good(k), NEW s \in Seqs, NEW i \in Cells
    PROVE  Carries(k.cells[i], SeqKeep(k, s).cells[i])
<1> DEFINE eff == [j \in Cells |-> KeepSeq(k.cells[j], s)]
<1>1. DOMAIN eff = Cells /\ \A j \in Cells : Coherent(k.cells[j], eff[j])
  BY GoodCell, KeepSeqCoherent
<1>2. ASSUME NEW j \in Cells PROVE Carries(k.cells[j], eff[j].cell)
  <2>1. k.cells[j] \in Cell /\ Owned(k.cells[j])
    BY GoodCell
  <2>2. k.cells[j].seq # {} => Carries(k.cells[j], [k.cells[j] EXCEPT !.seq = {s}])
    BY <2>1, FewerCarries
  <2>3. Carries(k.cells[j], Empty) /\ Carries(k.cells[j], k.cells[j])
    BY EmptyCell, CarriesItself DEF Carries
  <2>4. Carries(k.cells[j], KeepSeq(k.cells[j], s).cell)
    BY <2>2, <2>3 DEF KeepSeq, Rm, Effect
  <2> QED
    BY <2>4
<1>3. SeqKeep(k, s) = LowerHead(Apply(k, eff), Freed(eff))
  BY DEF SeqKeep
<1> HIDE DEF eff
<1>4. Good(Apply(k, eff)) /\ Carries(k.cells[i], Apply(k, eff).cells[i])
  BY <1>1, <1>2, ApplyCarries, ApplyGood
<1> QED
  BY <1>3, <1>4, LowerHeadCells, Zenon

LEMMA SeqAddCarries ==
    ASSUME NEW k, Good(k), NEW s \in Seqs, NEW p0, NEW p1, NEW d \in Int, NEW i \in Cells
    PROVE  Carries(k.cells[i], SeqAdd(k, s, p0, p1, d).cells[i])
<1> DEFINE J == {j \in Cells : PosIn(k.cells[j], p0, p1) /\ s \in k.cells[j].seq}
           eff == [j \in J |-> PosAdd(k.cells[j], d)]
<1>1. J \in SUBSET Cells /\ DOMAIN eff = J
  OBVIOUS
<1>2. ASSUME NEW j \in J PROVE Carries(k.cells[j], eff[j].cell)
  <2> DEFINE c == k.cells[j]
             n == [c EXCEPT !.pos = @ + d, !.shift = @ + d]
  <2>1. c \in Cell /\ ~IsEmpty(c)
    BY GoodCell DEF Owned
  <2>2. n.pos = c.pos + d /\ n.shift = c.shift + d
    BY <2>1 DEF Cell
  <2>3. c.pos \in Int /\ c.shift \in Int
    BY <2>1, MaxPosAssumption DEF Cell, Pos, NoPos
  <2>4. eff[j].cell = IF c.pos + d < 0 THEN Empty ELSE n
    BY DEF PosAdd, Effect
  <2> HIDE DEF c, n, eff
  <2>5. n.pos - n.shift = c.pos - c.shift
    BY <2>2, <2>3
  <2>6. Carries(c, Empty) /\ Carries(c, n)
    BY <2>1, <2>5, EmptyCell DEF Carries
  <2>7. Carries(c, eff[j].cell)
    BY <2>4, <2>6, Zenon
  <2> QED
    BY <2>7 DEF c
<1>3. SeqAdd(k, s, p0, p1, d).cells = Apply(k, eff).cells
  BY DEF SeqAdd, Apply, Good, KvType
<1> HIDE DEF J, eff
<1> QED
  BY <1>1, <1>2, <1>3, ApplyCarries

LEMMA RemovedCarries ==
    ASSUME Good(kv), NEW ubatch, NEW i \in Cells
    PROVE  Carries(kv.cells[i], Removed(ubatch).cells[i])
<1> DEFINE firsts == {FirstSeq(ubatch[k]) : k \in DOMAIN ubatch}
           from == [s \in firsts |->
               Least({ubatch[k].pos : k \in {l \in DOMAIN ubatch : FirstSeq(ubatch[l]) = s}})]
           Gone(j) == {s \in firsts \cap kv.cells[j].seq : kv.cells[j].pos >= from[s]}
           J == {j \in Cells : Gone(j) # {}}
           eff == [j \in J |-> Leave(kv.cells[j], Gone(j))]
<1>1. J \in SUBSET Cells /\ DOMAIN eff = J
  OBVIOUS
<1>2. ASSUME NEW j \in J PROVE Carries(kv.cells[j], eff[j].cell) /\ Coherent(kv.cells[j], eff[j])
  <2> HIDE DEF from, firsts
  <2>1. Gone(j) \in SUBSET kv.cells[j].seq /\ Gone(j) # {}
    OBVIOUS
  <2>2. eff[j] = Leave(kv.cells[j], Gone(j))
    OBVIOUS
  <2> HIDE DEF Gone
  <2> QED
    BY <2>1, <2>2, GoodCell, LeaveCoherent, LeaveCarries
<1>3. Removed(ubatch) = LowerHead(Apply(kv, eff), Freed(eff))
  BY DEF Removed, Leave
<1> HIDE DEF J, eff
<1>4. Good(Apply(kv, eff)) /\ Carries(kv.cells[i], Apply(kv, eff).cells[i])
  BY <1>1, <1>2, ApplyCarries, ApplyGood
<1> QED
  BY <1>3, <1>4, LowerHeadCells, Zenon

-----------------------------------------------------------------------------
\* Rows that are written

\* The rows of the cells of a slot are those of their tokens, the others stay.
LEMMA PlacedRows ==
    ASSUME KvInv, NEW k, Good(k), Clean(k.cells), NEW apart, RowsOK(k.cells, row, apart),
           NEW ubatch \in Seq(ProperToken), NEW slot, SlotFor(slot, ubatch)
    PROVE  RowsOK(ApplyUbatch(k, slot, ubatch).cells, Written(slot, ubatch), apart \ DOMAIN slot)
<1> DEFINE new == ApplyUbatch(k, slot, ubatch).cells
           over == Overwritten(k.cells, slot)
<1> SUFFICES ASSUME NEW i \in Cells \ (apart \ DOMAIN slot), ~IsEmpty(new[i])
             PROVE  Turned(Written(slot, ubatch)[i], new[i])
  BY DEF RowsOK
<1>1. new[i] = Purged(IF i \in DOMAIN slot THEN TokenCell(ubatch[slot[i]]) ELSE k.cells[i], over)
  BY PlacedCells DEF Placed
<1> HIDE DEF new, over
<1>2. CASE i \in DOMAIN slot
  <2> DEFINE t == ubatch[slot[i]]
  <2>1. t \in ProperToken
    BY <1>2 DEF SlotFor
  <2>2. TokenCell(t) \in Cell /\ TokenCell(t).pos = t.pos /\ TokenCell(t).shift = 0
          /\ Owned(TokenCell(t)) /\ t.pos \in Nat
    BY <2>1, MaxPosAssumption DEF ProperToken, TokenCell, Cell, Owned, IsEmpty, NoPos, Pos
  <2>3. Written(slot, ubatch)[i] = t.pos
    BY <1>2 DEF Written
  <2> HIDE DEF t
  <2>4. new[i] = Purged(TokenCell(t), over)
    BY <1>1, <1>2 DEF t
  <2>5. Carries(TokenCell(t), new[i])
    BY <2>2, <2>4, PurgedCarries
  <2>6. new[i] \in Cell
    BY <2>2, <2>4, PurgedCell
  <2>7. new[i].pos \in Int /\ new[i].shift \in Int
    BY <2>6, MaxPosAssumption DEF Cell, Pos, NoPos
  <2>8. new[i].pos - new[i].shift = t.pos
    BY <2>2, <2>5 DEF Carries
  <2> QED
    BY <2>2, <2>3, <2>7, <2>8 DEF Turned, NoPos
<1>3. CASE i \notin DOMAIN slot
  <2>1. Written(slot, ubatch)[i] = row[i] /\ row[i] \in Int
    BY <1>3 DEF Written, KvInv
  <2>2. k.cells[i] \in Cell /\ Owned(k.cells[i]) /\ new[i] = Purged(k.cells[i], over)
    BY <1>1, <1>3, GoodCell
  <2>3. Carries(k.cells[i], new[i]) /\ new[i] \in Cell
    BY <2>2, PurgedCarries, PurgedCell
  <2>4. k.cells[i].pos \in Int /\ k.cells[i].shift \in Int /\ new[i].pos \in Int /\ new[i].shift \in Int
    BY <2>2, <2>3, MaxPosAssumption DEF Cell, Pos, NoPos
  <2>5. ~IsEmpty(k.cells[i]) /\ new[i].pos - new[i].shift = k.cells[i].pos - k.cells[i].shift
    BY <2>3 DEF Carries
  <2>6. row[i] # NoPos /\ row[i] + k.cells[i].shift = k.cells[i].pos
    BY <1>3, <2>5 DEF RowsOK, Turned
  <2> QED
    BY <2>1, <2>4, <2>5, <2>6 DEF Turned
<1> QED
  BY <1>2, <1>3

-----------------------------------------------------------------------------
\* The invariant of the rows

\* the shifts during prepare: lost in the cells of the slots, where only cells of drifted had one when
\* the trial met them first; every other cell keeps its own
ShiftsOK(cells, slots, before, apart) ==
    /\ \A i \in Cells \ apart : \A u \in 1..Len(slots) :
          InSlot(slots, i, u) /\ Untouched(slots, i, 1, u) => before[u][i].shift = 0
    /\ \A i \in Cells : Untouched(slots, i, 1, Len(slots) + 1) =>
          cells[i].shift = before[Len(slots) + 1][i].shift

\* a cell of the ubatch at work, between its placement and its computation
Fresh(c, t) == c.pos = t.pos /\ c.shift = 0 /\ c.seq \subseteq t.seq

RowInv ==
    /\ job.phase \in {"idle", "apply"} => RowsOK(kv.cells, row, drifted)
    /\ job.phase \in {"prepare", "restore"} =>
          /\ ShiftsOK(kv.cells, job.slots, trial, drifted)
          /\ RowsOK(trial[1], row, drifted)
    /\ job.phase = "compute" =>
          LET slot == job.slots[job.cur] IN
          /\ RowsOK(kv.cells, row, drifted \cup DOMAIN slot)
          /\ \A i \in DOMAIN slot : ~IsEmpty(kv.cells[i]) => Fresh(kv.cells[i], Current[slot[i]])
    /\ \A u \in 1..Len(job.ubatches) : \A k \in 1..Len(job.ubatches[u]) :
          \E s \in Seqs : job.ubatches[u][k].seq = {s}

LEMMA RowInvInit == Init => RowInv
  BY EmptyCell DEF Init, InitKv, NoJob, RowsOK, RowInv

\* a memory call that carries every row along
LEMMA MetadataRows ==
    ASSUME KvInv, RowInv, Idle, NEW new, Good(new), Metadata(new),
           \A i \in Cells : Carries(kv.cells[i], new.cells[i])
    PROVE  RowInv'
<1>1. RowsOK(kv.cells, row, drifted) /\ \A i \in Cells : row[i] \in Int
  BY DEF RowInv, Idle, KvInv
<1>2. kv.cells \in [Cells -> Cell] /\ new.cells \in [Cells -> Cell]
  BY DEF KvInv, Good, KvType
<1>3. RowsOK(new.cells, row, drifted)
  BY <1>1, <1>2, CarriedRows
<1>4. RowsOK(new.cells, Forget(new.cells, row), InUse(new.cells, drifted))
  BY <1>3, ForgottenRows
<1>5. kv' = new /\ row' = Forget(new.cells, row) /\ drifted' = InUse(new.cells, drifted) /\ job' = job
  BY DEF Metadata
<1> QED
  BY <1>4, <1>5 DEF RowInv, Idle

LEMMA StateReadRows ==
    ASSUME KvInv, TrialInv, RowInv, NEW s \in Seqs, NEW p0 \in Pos, NEW n \in 1..Size,
           NEW readOk \in BOOLEAN, StateRead(s, p0, n, readOk)
    PROVE  RowInv'
<1> DEFINE ubatch == [k \in 1..n |-> [pos |-> p0 + k - 1, seq |-> {s}]]
           removed == SeqRm(kv, s, 0, Infinity)
           slot == FindSlot(removed, n)
           placed == ApplyUbatch(removed, slot, ubatch)
           rows == Written(slot, ubatch)
           apart == drifted \ DOMAIN slot
<1>1. Good(kv) /\ Clean(kv.cells) /\ RowsOK(kv.cells, row, drifted) /\ Idle
        /\ \A i \in Cells : row[i] \in Int
  BY DEF KvInv, TrialInv, RowInv, StateRead, Idle
<1>2. Good(removed) /\ Clean(removed.cells) /\ \A i \in Cells : Carries(kv.cells[i], removed.cells[i])
  BY <1>1, SeqRmGood, SeqRmClean, SeqRmCarries
<1>3. ubatch \in Seq(ProperToken) /\ Len(ubatch) = n /\ n \in Nat
  BY StateReadUbatch, SizeAssumption DEF StateRead
<1>4. /\ kv' = IF ~(DOMAIN slot # {}) THEN removed
               ELSE IF readOk THEN placed ELSE SeqRm(placed, s, 0, Infinity)
      /\ row' = Forget(kv'.cells, rows)
      /\ drifted' = InUse(kv'.cells, apart)
      /\ job' = job
  BY DEF StateRead
<1> HIDE DEF removed, ubatch
<1>5. DOMAIN slot # {} => SlotFor(slot, ubatch)
  BY <1>3, FindSlotRange DEF SlotFor
<1> HIDE DEF slot
<1>6. kv.cells \in [Cells -> Cell] /\ removed.cells \in [Cells -> Cell]
  BY <1>1, <1>2 DEF Good, KvType
<1>7. RowsOK(removed.cells, row, drifted)
  BY <1>1, <1>2, <1>6, CarriedRows
<1>8. CASE DOMAIN slot = {}
  <2>1. \A i \in Cells : rows[i] = row[i]
    BY <1>8 DEF Written
  <2>2. apart = drifted
    BY <1>8
  <2>3. RowsOK(kv'.cells, rows, apart)
    BY <1>4, <1>7, <1>8, <2>1, <2>2 DEF RowsOK
  <2> HIDE DEF rows, apart
  <2>4. RowsOK(kv'.cells, row', drifted')
    BY <1>4, <2>3, ForgottenRows
  <2> QED
    BY <1>1, <1>4, <2>4 DEF RowInv, Idle
<1>9. CASE DOMAIN slot # {}
  <2>1. Good(placed) /\ RowsOK(placed.cells, rows, apart)
    BY <1>2, <1>3, <1>5, <1>7, <1>9, ApplyUbatchGood, PlacedRows
  <2>2. \A i \in Cells : rows[i] \in Int
    BY <1>3, <1>5, <1>9, WrittenType
  <2> HIDE DEF rows, apart, placed
  <2>3. /\ placed.cells \in [Cells -> Cell] /\ SeqRm(placed, s, 0, Infinity).cells \in [Cells -> Cell]
        /\ \A i \in Cells : Carries(placed.cells[i], SeqRm(placed, s, 0, Infinity).cells[i])
    <3>1. Good(SeqRm(placed, s, 0, Infinity))
      BY <2>1, SeqRmGood
    <3> QED
      BY <2>1, <3>1, SeqRmCarries DEF Good, KvType
  <2>4. RowsOK(SeqRm(placed, s, 0, Infinity).cells, rows, apart)
    BY <2>1, <2>2, <2>3, CarriedRows
  <2>5. RowsOK(kv'.cells, rows, apart)
    BY <1>4, <1>9, <2>1, <2>4
  <2>6. RowsOK(kv'.cells, row', drifted')
    BY <1>4, <2>5, ForgottenRows
  <2> QED
    BY <1>1, <1>4, <2>6 DEF RowInv, Idle
<1> QED
  BY <1>8, <1>9

LEMMA SeqDivRows ==
    ASSUME KvInv, RowInv, NEW s \in Seqs, NEW r \in Ranges, NEW d \in Divisors, SeqDivCall(s, r, d)
    PROVE  RowInv'
<1> DEFINE J == {i \in Cells : PosIn(kv.cells[i], r[1], r[2]) /\ s \in kv.cells[i].seq}
           eff == [i \in J |-> PosDiv(kv.cells[i], d)]
<1>1. Good(kv) /\ RowsOK(kv.cells, row, drifted) /\ Idle
  BY DEF KvInv, RowInv, SeqDivCall, Idle
<1>2. kv'.cells = Apply(kv, eff).cells
  BY <1>1 DEF SeqDivCall, SeqDiv, Apply, Good, KvType
<1>3. drifted' = drifted \cup J /\ row' = row /\ job' = job
  BY DEF SeqDivCall, Moved
<1>4. J \in SUBSET Cells /\ DOMAIN eff = J
  OBVIOUS
<1> HIDE DEF J, eff
<1>5. \A i \in Cells \ J : kv'.cells[i] = kv.cells[i]
  BY <1>1, <1>2, <1>4, ApplyCells
<1>6. RowsOK(kv'.cells, row', drifted')
  BY <1>1, <1>3, <1>5 DEF RowsOK
<1> QED
  BY <1>1, <1>3, <1>6 DEF RowInv, Idle

LEMMA MemoryCallRows ==
    ASSUME KvInv, TrialInv, RowInv,
           \/ Clear
           \/ \E s \in Seqs, r \in Ranges : SeqRmCall(s, r)
           \/ \E r \in Ranges : SeqRmAnyCall(r)
           \/ \E src, dst \in Seqs, r \in Ranges : SeqCpCall(src, dst, r)
           \/ \E s \in Seqs : SeqKeepCall(s)
           \/ \E s \in Seqs, r \in Ranges, d \in Shifts : SeqAddCall(s, r, d)
           \/ \E s \in Seqs, r \in Ranges, d \in Divisors : SeqDivCall(s, r, d)
           \/ \E s \in Seqs, p0 \in Pos, n \in 1..Size, readOk \in BOOLEAN : StateRead(s, p0, n, readOk)
    PROVE  RowInv'
<1>0. Good(kv)
  BY DEF KvInv
<1>1. CASE Clear
  BY <1>1, EmptyCell DEF Clear, InitKv, RowsOK, RowInv, Idle
<1>2. CASE \E s \in Seqs, r \in Ranges : SeqRmCall(s, r)
  <2>1. PICK s \in Seqs, r \in Ranges : SeqRmCall(s, r)
    BY <1>2
  <2> QED
    BY <1>0, <2>1, SeqRmGood, SeqRmCarries, MetadataRows DEF SeqRmCall
<1>3. CASE \E r \in Ranges : SeqRmAnyCall(r)
  <2>1. PICK r \in Ranges : SeqRmAnyCall(r)
    BY <1>3
  <2> QED
    BY <1>0, <2>1, SeqRmAnyGood, SeqRmAnyCarries, MetadataRows DEF SeqRmAnyCall
<1>4. CASE \E src, dst \in Seqs, r \in Ranges : SeqCpCall(src, dst, r)
  <2>1. PICK src \in Seqs, dst \in Seqs, r \in Ranges : SeqCpCall(src, dst, r)
    BY <1>4
  <2>2. Good(SeqCp(kv, src, dst, r[1], r[2]))
    BY <1>0, <2>1, SeqCpGood DEF SeqCpCall
  <2> QED
    BY <1>0, <2>1, <2>2, SeqCpCarries, MetadataRows DEF SeqCpCall
<1>5. CASE \E s \in Seqs : SeqKeepCall(s)
  <2>1. PICK s \in Seqs : SeqKeepCall(s)
    BY <1>5
  <2> QED
    BY <1>0, <2>1, SeqKeepGood, SeqKeepCarries, MetadataRows DEF SeqKeepCall
<1>6. CASE \E s \in Seqs, r \in Ranges, d \in Shifts : SeqAddCall(s, r, d)
  <2>1. PICK s \in Seqs, r \in Ranges, d \in Shifts : SeqAddCall(s, r, d)
    BY <1>6
  <2>2. d \in Int
    BY ShiftsAssumption
  <2>3. \A i \in Cells : PosIn(kv.cells[i], r[1], r[2]) /\ s \in kv.cells[i].seq
                          => kv.cells[i].pos + d <= MaxPos
    BY <2>1 DEF SeqAddCall, Moved
  <2>4. Good(SeqAdd(kv, s, r[1], r[2], d))
    BY <1>0, <2>2, <2>3, SeqAddGood
  <2>5. \A i \in Cells : Carries(kv.cells[i], SeqAdd(kv, s, r[1], r[2], d).cells[i])
    BY <1>0, <2>2, SeqAddCarries
  <2> QED
    BY <2>1, <2>4, <2>5, MetadataRows DEF SeqAddCall
<1>7. CASE \E s \in Seqs, r \in Ranges, d \in Divisors : SeqDivCall(s, r, d)
  BY <1>7, SeqDivRows
<1>8. CASE \E s \in Seqs, p0 \in Pos, n \in 1..Size, readOk \in BOOLEAN : StateRead(s, p0, n, readOk)
  BY <1>8, StateReadRows
<1> QED
  BY <1>1, <1>2, <1>3, <1>4, <1>5, <1>6, <1>7, <1>8

LEMMA DecodeBeginRows ==
    ASSUME SingleSequence, KvInv, RowInv, NEW b \in Batches, NEW shiftOk \in BOOLEAN,
           DecodeBegin(b, shiftOk)
    PROVE  RowInv'
<1>1. RowsOK(kv'.cells, row', drifted)
  <2>0. Good(kv) /\ RowsOK(kv.cells, row, drifted) /\ row \in [Cells -> Int]
    BY DEF KvInv, RowInv, DecodeBegin, Idle
  <2>1. CASE kv.hasShift /\ shiftOk
    <3>1. kv'.cells = [i \in Cells |-> [kv.cells[i] EXCEPT !.shift = 0]]
      BY <2>0, <2>1 DEF DecodeBegin, KShift, ResetShift, Good, KvType
    <3>2. row' = [i \in Cells |-> IF row[i] = NoPos THEN NoPos ELSE row[i] + kv.cells[i].shift]
      BY <2>1 DEF DecodeBegin, KShift
    <3>3. ASSUME NEW i \in Cells \ drifted, ~IsEmpty(kv'.cells[i]) PROVE Turned(row'[i], kv'.cells[i])
      <4>1. kv.cells[i] \in Cell
        BY <2>0, GoodCell
      <4>2. kv'.cells[i].pos = kv.cells[i].pos /\ kv'.cells[i].shift = 0
        BY <3>1, <4>1 DEF Cell
      <4>3. ~IsEmpty(kv.cells[i])
        BY <3>3, <4>2 DEF IsEmpty
      <4>4. row[i] # NoPos /\ row[i] + kv.cells[i].shift = kv.cells[i].pos
        BY <2>0, <4>3 DEF RowsOK, Turned
      <4>5. row'[i] = kv.cells[i].pos
        BY <3>2, <4>4
      <4>6. kv.cells[i].pos \in Int
        BY <4>1, MaxPosAssumption DEF Cell, Pos, NoPos
      <4> QED
        BY <4>2, <4>3, <4>5, <4>6 DEF Turned, IsEmpty
    <3> QED
      BY <3>3 DEF RowsOK
  <2>2. CASE ~(kv.hasShift /\ shiftOk)
    BY <2>0, <2>2 DEF DecodeBegin, KShift
  <2> QED
    BY <2>1, <2>2
<1>2. /\ job' = [NoJob EXCEPT !.phase = "prepare", !.ubatches = Ubatches(b)]
      /\ trial' = <<kv'.cells>> /\ drifted' = drifted
  BY DEF DecodeBegin
<1>3. job'.phase = "prepare" /\ job'.slots = <<>> /\ job'.ubatches = Ubatches(b)
  BY <1>2 DEF NoJob
<1>4. Len(job'.slots) = 0 /\ trial'[1] = kv'.cells
  BY <1>2, <1>3
<1>5. ShiftsOK(kv'.cells, job'.slots, trial', drifted')
  BY <1>4 DEF ShiftsOK
<1>6. ASSUME NEW u \in 1..Len(Ubatches(b)), NEW k \in 1..Len(Ubatches(b)[u])
      PROVE  \E s \in Seqs : Ubatches(b)[u][k].seq = {s}
  <2>1. b \in Seq(Seq(SUBSET Seqs))
    BY BatchesAssumption
  <2>2. DOMAIN Ubatches(b) = DOMAIN b /\ DOMAIN b = 1..Len(b) /\ Len(b) \in Nat
    BY <2>1 DEF Ubatches
  <2>3. Len(Ubatches(b)) = Len(b)
    BY <2>1, <2>2 DEF Ubatches
  <2>4. u \in DOMAIN b /\ b[u] \in Seq(SUBSET Seqs)
    BY <2>1, <2>2, <2>3
  <2>5. Ubatches(b)[u] = [l \in DOMAIN b[u] |->
            [pos |-> TokenPos(b, u, l, CHOOSE s \in b[u][l] : TRUE), seq |-> b[u][l]]]
    BY <2>4 DEF Ubatches
  <2>6. DOMAIN b[u] = 1..Len(b[u]) /\ Len(b[u]) \in Nat
    BY <2>4
  <2>7. Len(Ubatches(b)[u]) = Len(b[u])
    BY <2>5, <2>6
  <2>8. k \in DOMAIN b[u]
    BY <2>6, <2>7
  <2>9. Ubatches(b)[u][k].seq = b[u][k]
    BY <2>5, <2>8
  <2> QED
    BY <2>4, <2>8, <2>9 DEF SingleSequence
<1> QED
  BY <1>1, <1>2, <1>3, <1>4, <1>5, <1>6 DEF RowInv

LEMMA PrepareUbatchRows ==
    ASSUME KvInv, TrialInv, RowInv, PrepareUbatch
    PROVE  RowInv'
<1> DEFINE slot == FindSlot(kv, Len(Current))
           n == Len(job.slots)
<1>1. /\ job.phase = "prepare" /\ job.slots \in Seq(SlotType) /\ n \in Nat
      /\ trial \in Seq([Cells -> Cell]) /\ Len(trial) = n + 1 /\ kv.cells = trial[n + 1]
      /\ ShiftsOK(kv.cells, job.slots, trial, drifted) /\ RowsOK(trial[1], row, drifted)
      /\ JobShape(job)
  BY DEF PrepareUbatch, KvInv, JobOK, TrialInv, TrialOK, RowInv
<1>2. /\ job'.phase = "prepare" /\ job'.slots = Append(job.slots, slot) /\ job'.ubatches = job.ubatches
      /\ trial' = Append(trial, kv'.cells) /\ row' = row
      /\ drifted' = drifted \cup {i \in DOMAIN slot : kv.cells[i].shift # 0}
  BY <1>1 DEF PrepareUbatch, JobShape
<1> HIDE DEF slot
<1>3. /\ Len(job'.slots) = n + 1 /\ job'.slots[n + 1] = slot
      /\ \A u \in 1..n : job'.slots[u] = job.slots[u]
  BY <1>1, <1>2
<1> HIDE DEF n
<1>4. trial'[n + 2] = kv'.cells /\ \A u \in 1..(n + 1) : trial'[u] = trial[u]
  <2>1. kv'.cells \in [Cells -> Cell]
    BY PrepareUbatchKeeps DEF KvInv, Good, KvType
  <2> QED
    BY <1>1, <1>2, <2>1
<1>5. 1 \in 1..(n + 1) /\ trial'[1] = trial[1]
  BY <1>1, <1>4
<1>6. RowsOK(trial'[1], row', drifted')
  BY <1>1, <1>2, <1>5 DEF RowsOK
<1>7. ASSUME NEW i \in Cells \ drifted', NEW u \in 1..(n + 1),
             InSlot(job'.slots, i, u), Untouched(job'.slots, i, 1, u)
      PROVE  trial'[u][i].shift = 0
  <2>1. CASE u \in 1..n
    <3>1. InSlot(job.slots, i, u)
      BY <1>3, <1>7, <2>1 DEF InSlot
    <3>2. Untouched(job.slots, i, 1, u)
      <4>1. \A v \in 1..(u - 1) : v \in 1..n
        BY <1>1, <2>1
      <4> QED
        BY <1>3, <1>7, <4>1 DEF Untouched, InSlot
    <3>3. i \in Cells \ drifted
      BY <1>2
    <3>4. trial[u][i].shift = 0
      BY <1>1, <2>1, <3>1, <3>2, <3>3 DEF ShiftsOK, n
    <3> QED
      BY <1>4, <3>4
  <2>2. CASE u = n + 1
    <3>1. i \in DOMAIN slot /\ trial'[u] = kv.cells
      BY <1>1, <1>3, <1>4, <1>7, <2>2 DEF InSlot
    <3> QED
      BY <1>2, <3>1
  <2> QED
    BY <1>1, <2>1, <2>2
<1>8. ShiftsOK(kv'.cells, job'.slots, trial', drifted')
  <2>1. (n + 1) + 1 = n + 2
    BY <1>1
  <2> QED
    BY <1>3, <1>4, <1>7, <2>1 DEF ShiftsOK
<1> QED
  BY <1>2, <1>6, <1>8 DEF RowInv

LEMMA RestoreOneRows ==
    ASSUME KvInv, RowInv, RestoreOne
    PROVE  RowInv'
<1> DEFINE l == Len(job.saved)
<1>1. Good(kv) /\ JobOK /\ JobShape(job) /\ SavedOK(job.saved[l])
  <2>1. job.saved \in Seq(SavedType) /\ job.saved # <<>> /\ JobOK
    BY DEF KvInv, JobOK, RestoreOne
  <2>2. l \in 1..l
    BY <2>1
  <2> QED
    BY <2>1, <2>2 DEF KvInv, JobOK
<1>2. /\ job.phase = "restore" /\ job'.phase = "restore" /\ job'.ubatches = job.ubatches
      /\ job'.slots = job.slots /\ trial' = trial /\ row' = row /\ drifted' = drifted
      /\ kv' = Restore(kv, job.saved[l])
  BY <1>1 DEF JobShape, RestoreOne
<1>3. \A i \in Cells : kv'.cells[i].shift = kv.cells[i].shift
  BY <1>1, <1>2, RestoredCells
<1>4. ShiftsOK(kv'.cells, job'.slots, trial', drifted')
  BY <1>2, <1>3 DEF RowInv, ShiftsOK
<1> QED
  BY <1>2, <1>4 DEF RowInv

\* When every slot was put back, the rows fit the cells again.
LEMMA RestoredRows ==
    ASSUME KvInv, TrialInv, RowInv, job.phase = "restore", job.saved = <<>>
    PROVE  RowsOK(kv.cells, row, drifted)
<1> DEFINE n == Len(job.slots)
<1>1. /\ job.slots \in Seq(SlotType) /\ n \in Nat /\ trial \in Seq([Cells -> Cell])
      /\ TrialOK(job.slots, job.ubatches, trial) /\ Len(trial) = n + 1
      /\ Unshifted(kv.cells, job.slots)
      /\ ShiftsOK(kv.cells, job.slots, trial, drifted) /\ RowsOK(trial[1], row, drifted)
  BY DEF KvInv, JobOK, TrialInv, TrialOK, RowInv
<1>2. 1 \in 1..(n + 1)
  BY <1>1
<1> SUFFICES ASSUME NEW i \in Cells \ drifted, ~IsEmpty(kv.cells[i])
             PROVE  Turned(row[i], kv.cells[i])
  BY DEF RowsOK
<1>3. PICK f \in 1..(n + 1) : NextSlot(job.slots, i, 1, f)
  BY <1>1, <1>2, NextExists
<1>4. Same(kv.cells[i], trial[f][i])
  <2>1. Returns(kv.cells, job.slots, trial, i, Len(job.saved) + 1)
    BY DEF TrialInv
  <2>2. Len(job.saved) + 1 = 1
    OBVIOUS
  <2> QED
    BY <1>3, <2>1, <2>2 DEF Returns
<1>5. Forgets(trial[f][i], trial[1][i])
  BY <1>1, <1>2, <1>3 DEF TrialOK, NextSlot
<1>6. kv.cells[i].seq # {}
  BY GoodCell DEF KvInv, Owned
<1>7. kv.cells[i].pos = trial[1][i].pos /\ trial[f][i].shift = trial[1][i].shift
  BY <1>4, <1>5, <1>6 DEF Same, Forgets
<1>8. kv.cells[i].shift = trial[f][i].shift
  <2>1. CASE f \in 1..n
    <3>1. InSlot(job.slots, i, f) /\ Untouched(job.slots, i, 1, f)
      BY <1>3, <2>1 DEF NextSlot
    <3>2. trial[f][i].shift = 0
      BY <1>1, <2>1, <3>1 DEF ShiftsOK
    <3>3. kv.cells[i].shift = 0
      BY <1>1, <2>1, <3>1 DEF Unshifted, InSlot
    <3> QED
      BY <3>2, <3>3
  <2>2. CASE f = n + 1
    BY <1>1, <1>3, <2>2 DEF NextSlot, ShiftsOK
  <2> QED
    BY <1>1, <2>1, <2>2
<1>9. Turned(row[i], trial[1][i])
  BY <1>1, <1>7 DEF RowsOK, IsEmpty
<1> QED
  BY <1>7, <1>8, <1>9 DEF Turned

LEMMA PhaseRows ==
    ASSUME KvInv, TrialInv, RowInv, PrepareEnds \/ PrepareFailed \/ PrepareDone
    PROVE  RowInv'
<1>1. JobShape(job)
  BY DEF KvInv
<1>2. CASE PrepareEnds
  <2>1. /\ job.phase = "prepare" /\ job'.phase = "restore" /\ job'.ubatches = job.ubatches
        /\ job'.slots = job.slots /\ trial' = trial /\ kv' = kv /\ row' = row /\ drifted' = drifted
    BY <1>1, <1>2 DEF JobShape, PrepareEnds
  <2> QED
    BY <2>1 DEF RowInv
<1>3. CASE PrepareDone
  <2>1. /\ job.phase = "restore" /\ job.saved = <<>> /\ job'.phase = "apply"
        /\ job'.ubatches = job.ubatches /\ kv' = kv /\ row' = row /\ drifted' = drifted
    BY <1>1, <1>3 DEF JobShape, PrepareDone
  <2>2. RowsOK(kv.cells, row, drifted)
    BY <2>1, RestoredRows
  <2> QED
    BY <2>1, <2>2 DEF RowInv
<1>4. CASE PrepareFailed
  <2>1. RowsOK(kv.cells, row, drifted)
    BY <1>4, RestoredRows DEF PrepareFailed
  <2>2. RowsOK(kv.cells, Forget(kv.cells, row), InUse(kv.cells, drifted))
    BY <2>1, ForgottenRows
  <2> QED
    BY <1>4, <2>2 DEF PrepareFailed, NoJob, RowInv
<1> QED
  BY <1>2, <1>3, <1>4

LEMMA ApplyCurrentRows ==
    ASSUME KvInv, TrialInv, RowInv, ApplyCurrent
    PROVE  RowInv'
<1> DEFINE slot == job.slots[job.cur]
<1>1. /\ Good(kv) /\ Clean(kv.cells) /\ JobOK /\ JobShape(job) /\ job.phase = "apply"
      /\ job.cur \in 1..Len(job.slots) /\ job.cur <= Len(job.ubatches)
      /\ RowsOK(kv.cells, row, drifted) /\ \A i \in Cells : row[i] \in Int
  BY DEF KvInv, TrialInv, RowInv, JobOK, ApplyCurrent, ProperUbatches
<1>2. Current \in Seq(ProperToken) /\ SlotFor(slot, Current)
  BY <1>1, CurrentType DEF JobOK, Current
<1>3. /\ job'.phase = "compute" /\ job'.ubatches = job.ubatches /\ job'.slots = job.slots
      /\ job'.cur = job.cur /\ row' = row /\ drifted' = drifted /\ kv' = ApplyUbatch(kv, slot, Current)
  BY <1>1 DEF JobShape, ApplyCurrent
<1>4. job'.slots[job'.cur] = slot /\ Current' = Current
  BY <1>3 DEF Current
<1> HIDE DEF slot
<1>5. ASSUME NEW i \in Cells
      PROVE  kv'.cells[i] = Purged(IF i \in DOMAIN slot THEN TokenCell(Current[slot[i]]) ELSE kv.cells[i],
                                   Overwritten(kv.cells, slot))
  BY <1>1, <1>2, <1>3, PlacedCells DEF Placed
<1>6. RowsOK(kv'.cells, row', drifted' \cup DOMAIN slot)
  <2>1. RowsOK(kv'.cells, Written(slot, Current), drifted \ DOMAIN slot)
    BY <1>1, <1>2, <1>3, PlacedRows
  <2>2. \A i \in Cells \ DOMAIN slot : Written(slot, Current)[i] = row[i]
    BY DEF Written
  <2> QED
    BY <1>3, <2>1, <2>2 DEF RowsOK
<1>7. ASSUME NEW i \in DOMAIN slot, ~IsEmpty(kv'.cells[i]) PROVE Fresh(kv'.cells[i], Current[slot[i]])
  <2> DEFINE t == Current[slot[i]]
             over == Overwritten(kv.cells, slot)
  <2>1. t \in ProperToken /\ i \in Cells
    BY <1>2 DEF SlotFor
  <2>2. TokenCell(t) \in Cell /\ TokenCell(t).pos = t.pos /\ TokenCell(t).shift = 0 /\ TokenCell(t).seq = t.seq
    BY <2>1 DEF ProperToken, TokenCell, Cell
  <2>3. kv'.cells[i] = Purged(TokenCell(t), over)
    BY <1>5, <2>1
  <2> HIDE DEF t, over
  <2>4. [TokenCell(t) EXCEPT !.seq = t.seq \ GoneFrom(TokenCell(t), over)]
          \in [pos : {t.pos}, seq : {t.seq \ GoneFrom(TokenCell(t), over)}, shift : {0}]
    BY DEF TokenCell
  <2>5. Fresh(kv'.cells[i], t)
    <3> DEFINE c == [TokenCell(t) EXCEPT !.seq = t.seq \ GoneFrom(TokenCell(t), over)]
    <3>1. c.pos = t.pos /\ c.shift = 0 /\ c.seq \subseteq t.seq
      BY <2>4
    <3>2. kv'.cells[i] = TokenCell(t) \/ kv'.cells[i] = c
      BY <1>7, <2>2, <2>3, EmptyCell DEF Purged
    <3> HIDE DEF c
    <3> QED
      BY <2>2, <3>1, <3>2 DEF Fresh
  <2> QED
    BY <2>5 DEF t
<1> QED
  BY <1>3, <1>4, <1>6, <1>7 DEF RowInv

LEMMA ComputeOkRows ==
    ASSUME KvInv, RowInv, ComputeOk
    PROVE  RowInv'
<1> DEFINE slot == job.slots[job.cur]
<1>1. /\ Good(kv) /\ JobOK /\ JobShape(job) /\ job.phase = "compute"
      /\ job.cur \in 1..Len(job.slots) /\ job.cur <= Len(job.ubatches)
      /\ RowsOK(kv.cells, row, drifted \cup DOMAIN slot)
      /\ \A i \in DOMAIN slot : ~IsEmpty(kv.cells[i]) => Fresh(kv.cells[i], Current[slot[i]])
  BY DEF KvInv, RowInv, JobOK, ComputeOk, ProperUbatches
<1>2. Current \in Seq(ProperToken) /\ SlotFor(slot, Current)
  BY <1>1, CurrentType DEF JobOK, Current
<1>3. /\ kv' = kv /\ row' = Forget(kv.cells, Written(slot, Current))
      /\ drifted' = InUse(kv.cells, drifted \ DOMAIN slot)
      /\ \/ job' = NoJob
         \/ job' = [job EXCEPT !.phase = "apply", !.cur = @ + 1]
  BY DEF ComputeOk
<1> HIDE DEF slot
<1>4. RowsOK(kv.cells, Written(slot, Current), drifted \ DOMAIN slot)
  <2>1. SUFFICES ASSUME NEW i \in Cells \ (drifted \ DOMAIN slot), ~IsEmpty(kv.cells[i])
                 PROVE  Turned(Written(slot, Current)[i], kv.cells[i])
    BY DEF RowsOK
  <2>2. CASE i \in DOMAIN slot
    <3>1. Current[slot[i]] \in ProperToken
      BY <1>2, <2>2 DEF SlotFor
    <3>2. Current[slot[i]].pos \in Nat
      BY <3>1, MaxPosAssumption DEF ProperToken, Pos
    <3>3. Written(slot, Current)[i] = Current[slot[i]].pos
      BY <2>2 DEF Written
    <3>4. kv.cells[i].pos = Current[slot[i]].pos /\ kv.cells[i].shift = 0
      BY <1>1, <2>1, <2>2 DEF Fresh
    <3> QED
      BY <3>2, <3>3, <3>4 DEF Turned, NoPos
  <2>3. CASE i \notin DOMAIN slot
    BY <1>1, <2>1, <2>3 DEF Written, RowsOK
  <2> QED
    BY <2>2, <2>3
<1>5. RowsOK(kv'.cells, row', drifted')
  BY <1>3, <1>4, ForgottenRows
<1>6. CASE job' = NoJob
  BY <1>5, <1>6 DEF NoJob, RowInv
<1>7. CASE job' = [job EXCEPT !.phase = "apply", !.cur = @ + 1]
  <2>1. job'.phase = "apply" /\ job'.ubatches = job.ubatches
    BY <1>1, <1>7 DEF JobShape
  <2> QED
    BY <1>5, <2>1 DEF RowInv
<1> QED
  BY <1>3, <1>6, <1>7

\* Every cell that a failed ubatch filled is emptied: its sequence is the first one of its token.
LEMMA FailedCellsEmptied ==
    ASSUME Good(kv), NEW ubatch \in Seq(ProperToken),
           \A k \in 1..Len(ubatch) : \E s \in Seqs : ubatch[k].seq = {s},
           NEW i \in Cells, NEW l \in 1..Len(ubatch), Fresh(kv.cells[i], ubatch[l])
    PROVE  IsEmpty(Removed(ubatch).cells[i])
<1> DEFINE firsts == {FirstSeq(ubatch[k]) : k \in DOMAIN ubatch}
           At(s) == {ubatch[k].pos : k \in {m \in DOMAIN ubatch : FirstSeq(ubatch[m]) = s}}
           from == [s \in firsts |-> Least(At(s))]
           Gone(j) == {s \in firsts \cap kv.cells[j].seq : kv.cells[j].pos >= from[s]}
           J == {j \in Cells : Gone(j) # {}}
           eff == [j \in J |-> Leave(kv.cells[j], Gone(j))]
<1>1. J \in SUBSET Cells /\ DOMAIN eff = J
  OBVIOUS
<1>2. ASSUME NEW j \in J PROVE Coherent(kv.cells[j], eff[j]) /\ eff[j] = Leave(kv.cells[j], Gone(j))
  <2> HIDE DEF from, firsts
  <2>1. Gone(j) \in SUBSET kv.cells[j].seq /\ Gone(j) # {}
    OBVIOUS
  <2>2. eff[j] = Leave(kv.cells[j], Gone(j))
    OBVIOUS
  <2> HIDE DEF Gone
  <2> QED
    BY <2>1, <2>2, GoodCell, LeaveCoherent
<1>3. Removed(ubatch) = LowerHead(Apply(kv, eff), Freed(eff))
  BY DEF Removed, Leave
<1>4. Removed(ubatch).cells[i] = IF i \in J THEN eff[i].cell ELSE kv.cells[i]
  <2> HIDE DEF J, eff
  <2>1. Good(Apply(kv, eff))
    BY <1>1, <1>2, ApplyGood
  <2>2. Removed(ubatch).cells = Apply(kv, eff).cells
    BY <1>3, <2>1, LowerHeadCells, Zenon
  <2>3. Apply(kv, eff).cells[i] = IF i \in J THEN eff[i].cell ELSE kv.cells[i]
    BY <1>1, ApplyCells
  <2> QED
    BY <2>2, <2>3, Zenon
<1>5. CASE IsEmpty(kv.cells[i])
  <2>1. kv.cells[i].seq = {}
    BY <1>5, GoodCell DEF Owned
  <2>2. i \notin J
    BY <2>1
  <2> HIDE DEF J, eff
  <2> QED
    BY <1>4, <1>5, <2>2
<1>6. CASE ~IsEmpty(kv.cells[i])
  <2>1. PICK s \in Seqs : ubatch[l].seq = {s}
    OBVIOUS
  <2>2. kv.cells[i].seq = {s} /\ kv.cells[i].pos = ubatch[l].pos
    BY <1>6, <2>1, GoodCell DEF Fresh, Owned
  <2>3. FirstSeq(ubatch[l]) = s /\ l \in DOMAIN ubatch
    BY <2>1 DEF FirstSeq
  <2>4. s \in firsts
    BY <2>3
  <2>5. from[s] = Least(At(s))
    BY <2>4
  <2>6. ubatch[l].pos \in At(s)
    BY <2>3
  <2>7. At(s) \in SUBSET (0..MaxPos)
    <3>1. ASSUME NEW k \in DOMAIN ubatch PROVE ubatch[k].pos \in 0..MaxPos
      <4>1. ubatch[k] \in ProperToken
        OBVIOUS
      <4> QED
        BY <4>1 DEF ProperToken, Pos
    <3> QED
      BY <3>1
  <2>8. Least(At(s)) <= ubatch[l].pos /\ Least(At(s)) \in Int /\ ubatch[l].pos \in Int
    <3> HIDE DEF At
    <3>1. Least(At(s)) \in At(s) /\ \A y \in At(s) : Least(At(s)) <= y
      BY <2>6, <2>7, MaxPosAssumption, LeastExists
    <3> QED
      BY <2>6, <2>7, <3>1
  <2> HIDE DEF from, firsts
  <2>9. Gone(i) = {s}
    BY <2>2, <2>4, <2>5, <2>8
  <2>10. i \in J
    BY <2>9
  <2>11. eff[i].cell = Empty
    <3>1. kv.cells[i].seq \ Gone(i) = {}
      BY <2>2, <2>9
    <3>2. eff[i] = Leave(kv.cells[i], Gone(i))
      BY <1>2, <2>10
    <3> HIDE DEF Gone, eff
    <3> QED
      BY <3>1, <3>2 DEF Leave, Effect
  <2> HIDE DEF J, eff
  <2> QED
    BY <1>4, <2>10, <2>11, EmptyCell
<1> QED
  BY <1>5, <1>6

LEMMA ComputeFailsRows ==
    ASSUME KvInv, RowInv, ComputeFails
    PROVE  RowInv'
<1> DEFINE slot == job.slots[job.cur]
           rows == [i \in Cells |-> IF i \in DOMAIN slot THEN NoPos ELSE row[i]]
<1>1. /\ Good(kv) /\ JobOK /\ job.phase = "compute"
      /\ job.cur \in 1..Len(job.slots) /\ job.cur \in 1..Len(job.ubatches)
      /\ RowsOK(kv.cells, row, drifted \cup DOMAIN slot)
      /\ \A i \in DOMAIN slot : ~IsEmpty(kv.cells[i]) => Fresh(kv.cells[i], Current[slot[i]])
      /\ \A i \in Cells : row[i] \in Int
  BY DEF KvInv, RowInv, JobOK, ComputeFails, ProperUbatches
<1>2. Current \in Seq(ProperToken) /\ SlotFor(slot, Current)
  BY <1>1, CurrentType DEF JobOK, Current
<1>3. \A k \in 1..Len(Current) : \E s \in Seqs : Current[k].seq = {s}
  BY <1>1 DEF RowInv, Current
<1>4. kv' = Removed(Current) /\ row' = Forget(kv'.cells, rows) /\ job' = NoJob
        /\ drifted' = InUse(kv'.cells, drifted \ DOMAIN slot)
  BY DEF ComputeFails
<1> HIDE DEF slot
<1>5. Good(kv') /\ \A i \in Cells : Carries(kv.cells[i], kv'.cells[i])
  BY <1>1, <1>4, RemovedGood, RemovedCarries
<1>6. RowsOK(kv'.cells, row, drifted \cup DOMAIN slot)
  <2>1. kv.cells \in [Cells -> Cell] /\ kv'.cells \in [Cells -> Cell]
    BY <1>1, <1>5 DEF Good, KvType
  <2> QED
    BY <1>1, <1>5, <2>1, CarriedRows
<1>7. ASSUME NEW i \in DOMAIN slot PROVE IsEmpty(kv'.cells[i])
  <2>1. i \in Cells /\ slot[i] \in 1..Len(Current)
    BY <1>2 DEF SlotFor
  <2>2. CASE IsEmpty(kv.cells[i])
    BY <1>5, <2>1, <2>2 DEF Carries
  <2>3. CASE ~IsEmpty(kv.cells[i])
    BY <1>1, <1>2, <1>3, <1>4, <2>1, <2>3, FailedCellsEmptied
  <2> QED
    BY <2>2, <2>3
<1>8. RowsOK(kv'.cells, rows, drifted \ DOMAIN slot)
  BY <1>6, <1>7 DEF RowsOK
<1> HIDE DEF rows
<1>9. RowsOK(kv'.cells, row', drifted')
  BY <1>4, <1>8, ForgottenRows
<1> QED
  BY <1>4, <1>9 DEF NoJob, RowInv

LEMMA RowStutters ==
    ASSUME RowInv, UNCHANGED vars
    PROVE  RowInv'
  BY DEF RowInv, Current, vars

LEMMA RowStep ==
    ASSUME SingleSequence, KvInv, TrialInv, RowInv, Next
    PROVE  RowInv'
<1>1. CASE \E b \in Batches, shiftOk \in BOOLEAN : DecodeBegin(b, shiftOk)
  BY <1>1, DecodeBeginRows
<1> QED
  BY <1>1, MemoryCallRows, PrepareUbatchRows, RestoreOneRows, PhaseRows, ApplyCurrentRows,
     ComputeOkRows, ComputeFailsRows DEF Next

LEMMA RowInvImplies == KvInv /\ RowInv => RowMatchesCell
  BY DEF KvInv, Good, RowInv, RowsOK, Turned, RowMatchesCell, Idle

\* Between two calls the K row of every used cell was computed and is rotated, with the pending shift, for
\* the position of the cell: through shifts, trials, failed graphs and failed restores, when every token
\* of a batch belongs to one sequence.
THEOREM RowsMatchCells ==
    ASSUME SingleSequence
    PROVE  Spec => []RowMatchesCell
<1>1. Init => RowInv
  BY RowInvInit
<1>2. KvInv /\ TrialInv /\ RowInv /\ [Next]_vars => RowInv'
  BY RowStep, RowStutters
<1>3. KvInv /\ RowInv => RowMatchesCell
  BY RowInvImplies
<1> QED
  BY <1>1, <1>2, <1>3, TrialInvariant, PTL DEF Spec

-----------------------------------------------------------------------------
(***************************************************************************)
(* A batch leaves no hole, for every cache, window and batch. The positions*)
(* that a sequence has when the decode begins, and those that the ubatches *)
(* bring, are its span (Span). The tokens of a sequence get positions by   *)
(* rank, from the largest one on, so that the whole span has a hole only if*)
(* the cells had one; and every token is above the span before its ubatch. *)
(* apply_ubatch takes positions away from the bottom only: what a trial    *)
(* leaves is the top of the span (TopOf), and the top of a span without    *)
(* holes has none. The last real placement reaches what the trial reached  *)
(* (TrialInv).                                                             *)
(***************************************************************************)

-----------------------------------------------------------------------------
\* Ranks

\* R is a strict total order on K
Orders(R, K) ==
    /\ \A x \in K : <<x, x>> \notin R
    /\ \A x, y, z \in K : <<x, y>> \in R /\ <<y, z>> \in R => <<x, z>> \in R
    /\ \A x, y \in K : x # y => <<x, y>> \in R \/ <<y, x>> \in R
Preceding(R, K, x) == {y \in K : <<y, x>> \in R}

\* Ranks leave no gap: an element has fewer predecessors than the set has elements, and every such number is
\* the rank of one. find_slot numbers the cells of a slot, and a batch the tokens of a sequence, by rank.
LEMMA RanksOnto ==
    ASSUME NEW K, IsFiniteSet(K), NEW R, Orders(R, K)
    PROVE  /\ Cardinality(K) \in Nat
           /\ \A x \in K : Cardinality(Preceding(R, K, x)) \in 0..(Cardinality(K) - 1)
           /\ \A x, y \in K : <<x, y>> \in R =>
                 Cardinality(Preceding(R, K, x)) < Cardinality(Preceding(R, K, y))
           /\ \A r \in 0..(Cardinality(K) - 1) : \E x \in K : Cardinality(Preceding(R, K, x)) = r
<1> DEFINE P(x) == Preceding(R, K, x)
           rank == [x \in K |-> Cardinality(P(x))]
           N == 0..(Cardinality(K) - 1)
<1>1. Cardinality(K) \in Nat
  BY FS_CardinalityType
<1>2. ASSUME NEW x \in K PROVE IsFiniteSet(P(x)) /\ Cardinality(P(x)) \in N
  <2>1. P(x) \subseteq K /\ x \notin P(x) /\ P(x) # K
    BY DEF Preceding, Orders
  <2>2. IsFiniteSet(P(x)) /\ Cardinality(P(x)) <= Cardinality(K) /\ Cardinality(P(x)) # Cardinality(K)
    BY <2>1, FS_Subset
  <2>3. Cardinality(P(x)) \in Nat
    BY <2>2, FS_CardinalityType
  <2> QED
    BY <1>1, <2>2, <2>3
<1>3. ASSUME NEW x \in K, NEW y \in K, <<x, y>> \in R PROVE Cardinality(P(x)) < Cardinality(P(y))
  <2>1. P(x) \subseteq P(y) /\ x \in P(y) /\ x \notin P(x)
    BY <1>3 DEF Preceding, Orders
  <2>2. P(x) # P(y)
    BY <2>1
  <2>3. Cardinality(P(x)) <= Cardinality(P(y)) /\ Cardinality(P(x)) # Cardinality(P(y))
    BY <1>2, <2>1, <2>2, FS_Subset
  <2>4. Cardinality(P(x)) \in Nat /\ Cardinality(P(y)) \in Nat
    BY <1>2, FS_CardinalityType
  <2> QED
    BY <2>3, <2>4
<1>4. ASSUME NEW r \in N PROVE \E x \in K : Cardinality(P(x)) = r
  <2>1. rank \in [K -> N]
    BY <1>2
  <2>2. \A x, y \in K : rank[x] = rank[y] => x = y
    <3> SUFFICES ASSUME NEW x \in K, NEW y \in K, rank[x] = rank[y], x # y PROVE FALSE
      OBVIOUS
    <3>1. Cardinality(P(x)) = Cardinality(P(y))
      OBVIOUS
    <3>2. Cardinality(P(x)) \in Nat /\ Cardinality(P(y)) \in Nat
      BY <1>2, FS_CardinalityType
    <3>3. Cardinality(P(x)) < Cardinality(P(y)) \/ Cardinality(P(y)) < Cardinality(P(x))
      BY <1>3 DEF Orders
    <3> HIDE DEF P
    <3> QED
      BY <3>1, <3>2, <3>3
  <2>3. rank \in Injection(K, N)
    BY <2>1, <2>2 DEF Injection, IsInjective
  <2>4. IsFiniteSet(N) /\ Cardinality(N) = Cardinality(K)
    BY <1>1, FS_Interval
  <2>5. rank \in Surjection(K, N)
    BY <2>3, <2>4, FS_Injection
  <2> QED
    BY <2>5 DEF Surjection
<1> QED
  BY <1>1, <1>2, <1>3, <1>4

\* Cells have different distances from a place to start at.
LEMMA DistancesDiffer ==
    ASSUME NEW start \in 0..Size, NEW i \in Cells, NEW j \in Cells, (i - start) % Size = (j - start) % Size
    PROVE  i = j
<1>1. Size \in Nat \ {0} /\ i \in 0..(Size - 1) /\ j \in 0..(Size - 1)
  BY SizeAssumption DEF Cells
<1>2. ASSUME NEW c \in 0..(Size - 1)
      PROVE  (c - start) % Size = IF start <= c THEN c - start ELSE c - start + Size
  <2>1. CASE start <= c
    BY <1>1, <2>1
  <2>2. CASE c < start
    BY <1>1, <2>2
  <2> QED
    BY <1>1, <2>1, <2>2
<1>3. ((i - start) % Size = IF start <= i THEN i - start ELSE i - start + Size)
      /\ ((j - start) % Size = IF start <= j THEN j - start ELSE j - start + Size)
  BY <1>1, <1>2
<1> QED
  BY <1>1, <1>3

\* A slot has a cell for every token.
LEMMA SlotOnto ==
    ASSUME NEW k, Good(k), NEW n \in Nat, DOMAIN FindSlot(k, n) # {}, NEW t \in 1..n
    PROVE  \E i \in DOMAIN FindSlot(k, n) : FindSlot(k, n)[i] = t
<1> DEFINE start == IF k.head > Cardinality(k.used) + 2 * n THEN 0 ELSE k.head
           usable == {i \in Cells : Usable(k, i)}
           Before(i) == {j \in usable : (j - start) % Size < (i - start) % Size}
           chosen == {i \in usable : Cardinality(Before(i)) < n}
           slot == [i \in chosen |-> Cardinality(Before(i)) + 1]
           R == {e \in usable \X usable : (e[1] - start) % Size < (e[2] - start) % Size}
<1>1. start \in 0..Size /\ Size \in Nat \ {0}
  BY SizeAssumption DEF Good, KvType
<1>2. FindSlot(k, n) = slot /\ ~(Cardinality(usable) < n)
  BY DEF FindSlot, NoSlot
<1>3. usable \subseteq Cells /\ IsFiniteSet(usable)
  BY CellsFinite, FS_Subset
<1> HIDE DEF start, usable
<1>4. Orders(R, usable)
  <2>1. \A i \in usable : (i - start) % Size \in Int
    BY <1>1, <1>3 DEF Cells
  <2>2. \A i, j \in usable : i # j => (i - start) % Size # (j - start) % Size
    BY <1>1, <1>3, DistancesDiffer
  <2>3. \A i, j \in usable : <<i, j>> \in R <=> (i - start) % Size < (j - start) % Size
    OBVIOUS
  <2> HIDE DEF R
  <2> QED
    BY <2>1, <2>2, <2>3 DEF Orders
<1>5. \A i \in usable : Preceding(R, usable, i) = Before(i)
  BY DEF Preceding
<1> HIDE DEF R, Before
<1>6. Cardinality(usable) \in Nat /\ \A r \in 0..(Cardinality(usable) - 1) : \E i \in usable : Cardinality(Before(i)) = r
  BY <1>3, <1>4, <1>5, RanksOnto
<1>7. t - 1 \in 0..(Cardinality(usable) - 1) /\ t - 1 < n
  BY <1>2, <1>6
<1>8. PICK i \in usable : Cardinality(Before(i)) = t - 1
  BY <1>6, <1>7
<1>9. i \in chosen /\ slot[i] = t
  BY <1>7, <1>8
<1> QED
  BY <1>2, <1>9

-----------------------------------------------------------------------------
\* The positions of a sequence during a decode

Gapless(S) == \A p, q \in S : p..q \subseteq S

\* the places in the batch of the tokens of s before ubatch u, and their order
Places(ubatches, s, u) ==
    {x \in Nat \X Nat : x[1] \in 1..(u - 1) /\ x[2] \in DOMAIN ubatches[x[1]] /\ s \in ubatches[x[1]][x[2]].seq}
Sooner(x, y) == x[1] < y[1] \/ (x[1] = y[1] /\ x[2] < y[2])

\* the positions that s has in the cells, and those that the ubatches before u bring
Span(cells, ubatches, s, u) ==
    PositionsOf(cells, s) \cup {ubatches[x[1]][x[2]].pos : x \in Places(ubatches, s, u)}

\* P is what is left of S when the lowest positions are taken away
TopOf(P, S) == P \subseteq S /\ \A p \in P, q \in S : p <= q => q \in P

\* the tokens go on where the cells end: each is above what comes before it, and the batch makes no hole
SpanOK(cells, ubatches, s) ==
    /\ Dense(cells, s) => Gapless(Span(cells, ubatches, s, Len(ubatches) + 1))
    /\ \A u \in 1..Len(ubatches) : \A k \in DOMAIN ubatches[u] :
          s \in ubatches[u][k].seq => \A q \in Span(cells, ubatches, s, u) : q < ubatches[u][k].pos

LEMMA SpanType ==
    ASSUME NEW cells \in [Cells -> Cell], NEW ubatches \in ProperUbatches, NEW s \in Seqs,
           NEW u \in 1..(Len(ubatches) + 1)
    PROVE  /\ PositionsOf(cells, s) \subseteq Int /\ Span(cells, ubatches, s, u) \subseteq Int
           /\ u <= Len(ubatches) =>
                 Span(cells, ubatches, s, u + 1) = Span(cells, ubatches, s, u)
                     \cup {ubatches[u][k].pos : k \in {l \in DOMAIN ubatches[u] : s \in ubatches[u][l].seq}}
<1>1. PositionsOf(cells, s) \subseteq Int
  BY DEF PositionsOf, Cell, Pos, NoPos
<1>2. ASSUME NEW v \in 1..Len(ubatches), NEW k \in DOMAIN ubatches[v]
      PROVE  k \in Nat /\ ubatches[v][k].pos \in Int
  <2>1. ubatches[v] \in Seq(ProperToken)
    BY DEF ProperUbatches
  <2>2. k \in Nat /\ ubatches[v][k] \in ProperToken
    BY <2>1
  <2> QED
    BY <2>2 DEF ProperToken, Pos
<1>3. Len(ubatches) \in Nat
  BY DEF ProperUbatches
<1>4. \A x \in Places(ubatches, s, u) : x[1] \in 1..Len(ubatches) /\ x[2] \in DOMAIN ubatches[x[1]]
  BY <1>3 DEF Places
<1>5. Span(cells, ubatches, s, u) \subseteq Int
  BY <1>1, <1>2, <1>4 DEF Span
<1>6. ASSUME u <= Len(ubatches)
      PROVE  Places(ubatches, s, u + 1) = Places(ubatches, s, u)
                 \cup {<<u, k>> : k \in {l \in DOMAIN ubatches[u] : s \in ubatches[u][l].seq}}
  <2>1. \A y \in Nat : y \in 1..((u + 1) - 1) <=> y \in 1..(u - 1) \/ y = u
    BY <1>3
  <2>2. u \in 1..Len(ubatches) /\ u \in Nat
    BY <1>3, <1>6
  <2>3. \A k \in DOMAIN ubatches[u] : k \in Nat
    BY <1>2, <2>2
  <2>4. ASSUME NEW x \in Places(ubatches, s, u + 1)
        PROVE  x \in Places(ubatches, s, u)
                 \/ x \in {<<u, k>> : k \in {l \in DOMAIN ubatches[u] : s \in ubatches[u][l].seq}}
    <3>1. x \in Nat \X Nat /\ x = <<x[1], x[2]>> /\ x[1] \in Nat
      BY DEF Places
    <3> QED
      BY <2>1, <3>1 DEF Places
  <2>5. Places(ubatches, s, u) \subseteq Places(ubatches, s, u + 1)
    BY <2>1 DEF Places
  <2>6. ASSUME NEW k \in DOMAIN ubatches[u], s \in ubatches[u][k].seq
        PROVE  <<u, k>> \in Places(ubatches, s, u + 1)
    BY <2>1, <2>2, <2>3, <2>6 DEF Places
  <2> QED
    BY <2>4, <2>5, <2>6
<1>7. ASSUME u <= Len(ubatches)
      PROVE  Span(cells, ubatches, s, u + 1) = Span(cells, ubatches, s, u)
                 \cup {ubatches[u][k].pos : k \in {l \in DOMAIN ubatches[u] : s \in ubatches[u][l].seq}}
  <2> DEFINE Mine == {l \in DOMAIN ubatches[u] : s \in ubatches[u][l].seq}
             Q == {<<u, k>> : k \in Mine}
  <2>1. Places(ubatches, s, u + 1) = Places(ubatches, s, u) \cup Q
    BY <1>6, <1>7
  <2>2. \A k \in Mine : <<u, k>>[1] = u /\ <<u, k>>[2] = k
    OBVIOUS
  <2> HIDE DEF Mine
  <2>3. {ubatches[x[1]][x[2]].pos : x \in Q} = {ubatches[u][k].pos : k \in Mine}
    <3>1. ASSUME NEW x \in Q PROVE \E k \in Mine : ubatches[x[1]][x[2]].pos = ubatches[u][k].pos
      <4>1. PICK k \in Mine : x = <<u, k>>
        OBVIOUS
      <4> QED
        BY <2>2, <4>1
    <3>2. ASSUME NEW k \in Mine PROVE \E x \in Q : ubatches[x[1]][x[2]].pos = ubatches[u][k].pos
      <4> <<u, k>> \in Q
        OBVIOUS
      <4> HIDE DEF Q
      <4> QED
        BY <2>2
    <3> HIDE DEF Q
    <3> QED
      BY <3>1, <3>2
  <2> HIDE DEF Q
  <2>4. Span(cells, ubatches, s, u + 1) = Span(cells, ubatches, s, u) \cup {ubatches[x[1]][x[2]].pos : x \in Q}
    BY <2>1 DEF Span
  <2> QED
    BY <2>3, <2>4 DEF Mine
<1> QED
  BY <1>1, <1>5, <1>7

\* A purge leaves a sequence in a cell when no overwritten cell of the sequence reaches its position.
LEMMA PurgedMember ==
    ASSUME NEW c \in Cell, NEW over, NEW s
    PROVE  /\ s \in Purged(c, over).seq <=> s \in c.seq /\ ~ \E d \in over : s \in d.seq /\ c.pos <= d.pos
           /\ s \in Purged(c, over).seq => Purged(c, over).pos = c.pos
<1> DEFINE G == GoneFrom(c, over)
           n == [c EXCEPT !.seq = c.seq \ G]
<1>1. s \in G <=> s \in c.seq /\ \E d \in over : s \in d.seq /\ c.pos <= d.pos
  BY DEF GoneFrom
<1>2. n.pos = c.pos /\ n.seq = c.seq \ G
  BY DEF Cell
<1>3. Purged(c, over) = IF G = {} THEN c ELSE IF c.seq \ G = {} THEN Empty ELSE n
  BY DEF Purged
<1> HIDE DEF G, n
<1>4. CASE G = {}
  BY <1>1, <1>3, <1>4
<1>5. CASE G # {} /\ c.seq \ G = {}
  BY <1>1, <1>3, <1>5 DEF Empty
<1>6. CASE G # {} /\ c.seq \ G # {}
  BY <1>1, <1>2, <1>3, <1>6
<1> QED
  BY <1>4, <1>5, <1>6

\* A trial placement takes positions from the bottom of a sequence only.
LEMMA PlacedTop ==
    ASSUME NEW cells \in [Cells -> Cell], \A i \in Cells : Owned(cells[i]),
           NEW ubatch \in Seq(ProperToken), NEW slot, SlotFor(slot, ubatch),
           \A k \in DOMAIN ubatch : \E i \in DOMAIN slot : slot[i] = k,
           NEW after \in [Cells -> Cell], \A i \in Cells : after[i] = Placed(cells, slot, ubatch, i),
           NEW s \in Seqs, NEW S \in SUBSET Int, TopOf(PositionsOf(cells, s), S),
           \A k \in DOMAIN ubatch : s \in ubatch[k].seq => \A q \in S : q < ubatch[k].pos
    PROVE  TopOf(PositionsOf(after, s),
                 S \cup {ubatch[k].pos : k \in {l \in DOMAIN ubatch : s \in ubatch[l].seq}})
<1> DEFINE over == Overwritten(cells, slot)
           base(i) == IF i \in DOMAIN slot THEN TokenCell(ubatch[slot[i]]) ELSE cells[i]
           New == {ubatch[k].pos : k \in {l \in DOMAIN ubatch : s \in ubatch[l].seq}}
           Lost(p) == \E d \in over : s \in d.seq /\ p <= d.pos
<1>1. ASSUME NEW i \in Cells
      PROVE  /\ s \in after[i].seq <=> s \in base(i).seq /\ ~Lost(base(i).pos)
             /\ s \in after[i].seq => after[i].pos = base(i).pos
  <2>1. after[i] = Purged(base(i), over)
    BY DEF Placed
  <2>2. base(i) \in Cell
    <3>1. CASE i \in DOMAIN slot
      <4>1. ubatch[slot[i]] \in ProperToken
        BY <3>1 DEF SlotFor
      <4> QED
        BY <3>1, <4>1 DEF TokenCell, ProperToken, Cell
    <3>2. CASE i \notin DOMAIN slot
      BY <3>2
    <3> QED
      BY <3>1, <3>2
  <2> HIDE DEF base, over
  <2>3. /\ s \in after[i].seq <=> s \in base(i).seq /\ ~ \E d \in over : s \in d.seq /\ base(i).pos <= d.pos
        /\ s \in after[i].seq => after[i].pos = base(i).pos
    BY <2>1, <2>2, PurgedMember
  <2> QED
    BY <2>3
<1>2. DOMAIN slot \subseteq Cells /\ \A i \in DOMAIN slot : slot[i] \in DOMAIN ubatch
  BY DEF SlotFor
<1>3. ASSUME NEW d \in over, s \in d.seq PROVE d.pos \in PositionsOf(cells, s)
  BY <1>2, <1>3 DEF Overwritten, PositionsOf
<1>4. PositionsOf(cells, s) \subseteq S /\ \A p \in PositionsOf(cells, s), q \in S : p <= q => q \in PositionsOf(cells, s)
  BY DEF TopOf
<1>5. \A p \in New : p \in Int /\ ~Lost(p) /\ \A q \in S : q < p
  <2> SUFFICES ASSUME NEW k \in DOMAIN ubatch, s \in ubatch[k].seq
               PROVE  ubatch[k].pos \in Int /\ ~Lost(ubatch[k].pos) /\ \A q \in S : q < ubatch[k].pos
    OBVIOUS
  <2>1. ubatch[k].pos \in Int
    <3>1. ubatch[k] \in ProperToken
      OBVIOUS
    <3> QED
      BY <3>1 DEF ProperToken, Pos
  <2>2. \A q \in S : q < ubatch[k].pos
    OBVIOUS
  <2>3. ~Lost(ubatch[k].pos)
    <3> SUFFICES ASSUME NEW d \in over, s \in d.seq, ubatch[k].pos <= d.pos PROVE FALSE
      OBVIOUS
    <3>1. d.pos \in S /\ d.pos \in Int
      BY <1>3, <1>4
    <3> QED
      BY <2>1, <2>2, <3>1
  <2> QED
    BY <2>1, <2>2, <2>3
<1>6. ASSUME NEW p \in PositionsOf(after, s)
      PROVE  ~Lost(p) /\ (p \in New \/ p \in PositionsOf(cells, s))
  <2>1. PICK i \in Cells : s \in after[i].seq /\ p = after[i].pos
    BY DEF PositionsOf
  <2>2. s \in base(i).seq /\ ~Lost(base(i).pos) /\ p = base(i).pos
    BY <1>1, <2>1
  <2>3. CASE i \in DOMAIN slot
    BY <1>2, <2>2, <2>3 DEF TokenCell
  <2>4. CASE i \notin DOMAIN slot
    BY <2>2, <2>4 DEF PositionsOf
  <2> HIDE DEF Lost
  <2> QED
    BY <2>2, <2>3, <2>4
<1>7. ASSUME NEW q \in New PROVE q \in PositionsOf(after, s)
  <2>1. PICK k \in DOMAIN ubatch : s \in ubatch[k].seq /\ q = ubatch[k].pos
    OBVIOUS
  <2>2. PICK i \in DOMAIN slot : slot[i] = k
    BY <2>1
  <2>3. i \in Cells /\ base(i).seq = ubatch[k].seq /\ base(i).pos = q
    BY <1>2, <2>1, <2>2 DEF TokenCell
  <2>4. ~Lost(q)
    BY <1>5
  <2> HIDE DEF Lost, base, New
  <2> QED
    BY <1>1, <2>1, <2>3, <2>4 DEF PositionsOf
<1>8. ASSUME NEW p \in PositionsOf(after, s), NEW q \in S, p <= q PROVE q \in PositionsOf(after, s)
  <2>1. p \in PositionsOf(cells, s) /\ ~Lost(p)
    <3>1. q \in Int
      OBVIOUS
    <3>2. p \notin New
      <4> SUFFICES ASSUME p \in New PROVE FALSE
        OBVIOUS
      <4>1. p \in Int /\ q < p
        BY <1>5
      <4> QED
        BY <1>8, <3>1, <4>1
    <3> QED
      BY <1>6, <3>2
  <2>2. PICK j \in Cells : s \in cells[j].seq /\ q = cells[j].pos
    BY <1>4, <1>8, <2>1 DEF PositionsOf
  <2>3. j \notin DOMAIN slot
    <3> SUFFICES ASSUME j \in DOMAIN slot PROVE FALSE
      OBVIOUS
    <3>1. cells[j] \in over
      BY <2>2 DEF Overwritten, Owned
    <3> QED
      BY <1>8, <2>1, <2>2, <3>1
  <2>4. ~Lost(q)
    <3> SUFFICES ASSUME NEW d \in over, s \in d.seq, q <= d.pos PROVE FALSE
      OBVIOUS
    <3>1. d.pos \in Int /\ p \in Int /\ q \in Int
      BY <1>3, <1>4, <2>1
    <3>2. p <= d.pos
      BY <1>8, <3>1
    <3> QED
      BY <2>1, <3>2
  <2>5. base(j) = cells[j]
    BY <2>3
  <2> HIDE DEF Lost, base
  <2> QED
    BY <1>1, <2>2, <2>4, <2>5 DEF PositionsOf
<1>9. PositionsOf(after, s) \subseteq S \cup New
  BY <1>4, <1>6
<1>10. ASSUME NEW p \in PositionsOf(after, s), NEW q \in S \cup New, p <= q PROVE q \in PositionsOf(after, s)
  BY <1>7, <1>8, <1>10
<1> HIDE DEF New
<1>11. TopOf(PositionsOf(after, s), S \cup New)
  BY <1>9, <1>10 DEF TopOf
<1> QED
  BY <1>11 DEF New

-----------------------------------------------------------------------------
\* The tokens of a batch

\* seq_pos_max is the largest position of the sequence in the cells, or -1.
LEMMA LargestPosition ==
    ASSUME NEW k, Good(k), NEW s \in Seqs
    PROVE  /\ PositionsOf(k.cells, s) \subseteq Pos
           /\ SeqPosMax(k, s) \in Int
           /\ \A p \in PositionsOf(k.cells, s) : p <= SeqPosMax(k, s)
           /\ PositionsOf(k.cells, s) # {} => SeqPosMax(k, s) \in PositionsOf(k.cells, s)
<1> DEFINE P == PositionsOf(k.cells, s)
           A(p) == {i \in Cells : <<s, p>> \in Entries(k.cells[i])}
<1>1. ASSUME NEW p \in Pos PROVE k.index[<<s, p>>] > 0 <=> A(p) # {}
  <2>1. k.index[<<s, p>>] = Cardinality(A(p))
    BY DEF Good, Count
  <2>2. IsFiniteSet(A(p))
    BY CellsFinite, FS_Subset
  <2>3. Cardinality(A(p)) \in Nat /\ (Cardinality(A(p)) = 0 <=> A(p) = {})
    BY <2>2, FS_CardinalityType, FS_EmptySet
  <2> HIDE DEF A
  <2> QED
    BY <2>1, <2>3
<1>2. \A i \in Cells : s \in k.cells[i].seq => k.cells[i].pos \in Pos
  <2> SUFFICES ASSUME NEW i \in Cells, s \in k.cells[i].seq PROVE k.cells[i].pos \in Pos
    OBVIOUS
  <2>1. k.cells[i] \in Cell /\ Owned(k.cells[i])
    BY GoodCell
  <2> QED
    BY <2>1 DEF Owned, IsEmpty, Cell
<1>3. P \subseteq Pos
  BY <1>2 DEF PositionsOf
<1>4. \A p \in Pos : p \in P <=> A(p) # {}
  <2>1. \A i \in Cells, p \in Pos : <<s, p>> \in Entries(k.cells[i]) <=> s \in k.cells[i].seq /\ k.cells[i].pos = p
    BY DEF Entries
  <2> QED
    BY <2>1 DEF PositionsOf
<1>5. Present(k, s) = P
  <2> HIDE DEF A, P
  <2> QED
    BY <1>1, <1>3, <1>4 DEF Present
<1> HIDE DEF P
<1>6. CASE P = {}
  BY <1>5, <1>6 DEF SeqPosMax, NoPos, P
<1>7. CASE P # {}
  <2>1. P \in SUBSET (0..MaxPos) /\ MaxPos \in Nat
    BY <1>3, MaxPosAssumption DEF Pos
  <2>2. \E x \in P : \A y \in P : y <= x
    BY <1>7, <2>1, GreatestExists
  <2>3. Greatest(P) \in P /\ \A y \in P : y <= Greatest(P)
    BY <2>2 DEF Greatest
  <2>4. SeqPosMax(k, s) = Greatest(P)
    <3>1. SeqPosMax(k, s) = IF Present(k, s) = {} THEN NoPos ELSE Greatest(Present(k, s))
      BY Zenon DEF SeqPosMax
    <3> QED
      BY <1>5, <1>7, <3>1, Zenon
  <2>5. Greatest(P) \in Int
    <3>1. P \subseteq Int
      BY <2>1
    <3> QED
      BY <2>3, <3>1, Zenon
  <2> QED
    BY <1>3, <2>3, <2>4, <2>5 DEF P
<1> QED
  BY <1>6, <1>7

\* The tokens of a sequence, ordered as the batch is computed.
SoonerPairs == {e \in (Nat \X Nat) \X (Nat \X Nat) : Sooner(e[1], e[2])}

LEMMA PlacesOrdered ==
    ASSUME NEW ubatches \in ProperUbatches, NEW s \in Seqs, NEW u \in 1..(Len(ubatches) + 1)
    PROVE  IsFiniteSet(Places(ubatches, s, u)) /\ Orders(SoonerPairs, Places(ubatches, s, u))
<1> DEFINE T == Places(ubatches, s, u)
           n == Len(ubatches)
           f == [v \in 1..n |-> {v} \X DOMAIN ubatches[v]]
           F == {f[v] : v \in 1..n}
<1>1. n \in Nat /\ \A v \in 1..n : Len(ubatches[v]) \in Nat /\ DOMAIN ubatches[v] = 1..Len(ubatches[v])
  BY DEF ProperUbatches
<1>2. \A v \in 1..n : IsFiniteSet(f[v])
  <2> SUFFICES ASSUME NEW v \in 1..n PROVE IsFiniteSet({v} \X DOMAIN ubatches[v])
    OBVIOUS
  <2>1. IsFiniteSet(DOMAIN ubatches[v])
    <3> DEFINE m == Len(ubatches[v])
    <3>1. m \in Nat /\ DOMAIN ubatches[v] = 1..m
      BY <1>1
    <3> HIDE DEF m
    <3>2. IsFiniteSet(1..m)
      BY <3>1, FS_Interval
    <3> QED
      BY <3>1, <3>2
  <2>2. IsFiniteSet({v})
    BY FS_Singleton
  <2> QED
    BY <2>1, <2>2, FS_Product
<1>3. IsFiniteSet(F)
  <2>1. IsFiniteSet(1..n)
    BY <1>1, FS_Interval
  <2>2. f \in Surjection(1..n, F)
    BY DEF Surjection
  <2> QED
    BY <2>1, <2>2, FS_Surjection
<1>4. \A S \in F : IsFiniteSet(S)
  <2> HIDE DEF f
  <2> QED
    BY <1>2
<1>5. IsFiniteSet(UNION F)
  <2> HIDE DEF F
  <2> QED
    BY <1>3, <1>4, FS_UNION
<1>6. T \subseteq UNION F
  <2> SUFFICES ASSUME NEW x \in T PROVE \E v \in 1..n : x \in f[v]
    OBVIOUS
  <2>1. x = <<x[1], x[2]>> /\ x[1] \in 1..n /\ x[2] \in DOMAIN ubatches[x[1]]
    BY <1>1 DEF Places
  <2> QED
    BY <2>1
<1>7. T \subseteq Nat \X Nat
  BY DEF Places
<1>8. Orders(SoonerPairs, T)
  <2> HIDE DEF T
  <2>1. ASSUME NEW x \in T, NEW y \in T
        PROVE  /\ <<x, y>> \in SoonerPairs <=> Sooner(x, y)
               /\ x[1] \in Nat /\ x[2] \in Nat /\ y[1] \in Nat /\ y[2] \in Nat
               /\ x # y => x[1] # y[1] \/ x[2] # y[2]
    <3>1. x \in Nat \X Nat /\ y \in Nat \X Nat
      BY <1>7
    <3>2. x = <<x[1], x[2]>> /\ y = <<y[1], y[2]>>
      BY <3>1
    <3>3. <<x, y>> \in SoonerPairs <=> Sooner(x, y)
      BY <3>1 DEF SoonerPairs
    <3>4. x # y => x[1] # y[1] \/ x[2] # y[2]
      BY <3>2, Zenon
    <3>5. x[1] \in Nat /\ x[2] \in Nat /\ y[1] \in Nat /\ y[2] \in Nat
      BY <3>1
    <3> QED
      BY <3>3, <3>4, <3>5, Zenon
  <2>2. \A x \in T : ~Sooner(x, x)
    <3> SUFFICES ASSUME NEW x \in T PROVE ~Sooner(x, x)
      OBVIOUS
    <3>1. x[1] \in Nat /\ x[2] \in Nat
      BY <2>1
    <3> QED
      BY <3>1 DEF Sooner
  <2>3. \A x, y, z \in T : Sooner(x, y) /\ Sooner(y, z) => Sooner(x, z)
    <3> SUFFICES ASSUME NEW x \in T, NEW y \in T, NEW z \in T, Sooner(x, y), Sooner(y, z) PROVE Sooner(x, z)
      OBVIOUS
    <3>1. x[1] \in Nat /\ x[2] \in Nat /\ y[1] \in Nat /\ y[2] \in Nat /\ z[1] \in Nat /\ z[2] \in Nat
      BY <2>1
    <3> QED
      BY <3>1 DEF Sooner
  <2>4. \A x, y \in T : x # y => Sooner(x, y) \/ Sooner(y, x)
    <3> SUFFICES ASSUME NEW x \in T, NEW y \in T, x # y PROVE Sooner(x, y) \/ Sooner(y, x)
      OBVIOUS
    <3>1. x[1] \in Nat /\ x[2] \in Nat /\ y[1] \in Nat /\ y[2] \in Nat /\ (x[1] # y[1] \/ x[2] # y[2])
      BY <2>1
    <3> QED
      BY <3>1 DEF Sooner
  <2> QED
    BY <2>1, <2>2, <2>3, <2>4 DEF Orders
<1> QED
  BY <1>5, <1>6, <1>8, FS_Subset

\* The position of a token is its rank among the tokens of its sequence, counted from the end of the cells.
LEMMA TokenRank ==
    ASSUME KvInv, NEW b \in Batches, ValidBatch(b), Ubatches(b) \in ProperUbatches,
           NEW s \in Seqs, NEW x \in Places(Ubatches(b), s, Len(b) + 1)
    PROVE  Ubatches(b)[x[1]][x[2]].pos = SeqPosMax(kv, s) + 1
               + Cardinality(Preceding(SoonerPairs, Places(Ubatches(b), s, Len(b) + 1), x))
<1> DEFINE T == Places(Ubatches(b), s, Len(b) + 1)
           u == x[1]
           k == x[2]
           Mine(v) == {l \in DOMAIN b[v] : s \in b[v][l] /\ (v < u \/ l < k)}
           E == UNION {{v} \X Mine(v) : v \in 1..u}
<1>1. b \in Seq(Seq(SUBSET Seqs)) /\ Len(b) \in Nat /\ DOMAIN b = 1..Len(b)
  BY BatchesAssumption
<1>2. \A v \in DOMAIN b : DOMAIN b[v] = 1..Len(b[v]) /\ Len(b[v]) \in Nat /\ DOMAIN Ubatches(b)[v] = DOMAIN b[v]
        /\ \A l \in DOMAIN b[v] : Ubatches(b)[v][l].seq = b[v][l]
  BY <1>1 DEF Ubatches
<1>3. \A y \in Nat \X Nat : y \in T <=> y[1] \in 1..Len(b) /\ y[2] \in DOMAIN b[y[1]] /\ s \in b[y[1]][y[2]]
  BY <1>1, <1>2 DEF Places
<1>4. x \in Nat \X Nat /\ x = <<u, k>> /\ u \in 1..Len(b) /\ k \in DOMAIN b[u] /\ s \in b[u][k] /\ u \in Nat /\ k \in Nat
  <2>1. x \in Nat \X Nat
    BY DEF Places
  <2> QED
    BY <1>3, <2>1
<1> HIDE DEF T
<1>5. E = Preceding(SoonerPairs, T, x)
  <2>1. T \subseteq Nat \X Nat
    BY DEF T, Places
  <2>2. \A y \in T : y \in Preceding(SoonerPairs, T, x) <=> Sooner(y, x)
    BY <1>4, <2>1 DEF Preceding, SoonerPairs
  <2> HIDE DEF u, k
  <2>3. ASSUME NEW y \in E PROVE y \in T /\ Sooner(y, x)
    <3>1. PICK v \in 1..u : y \in {v} \X Mine(v)
      OBVIOUS
    <3>2. y = <<v, y[2]>> /\ y[1] = v /\ y[2] \in Mine(v)
      BY <3>1
    <3>3. v \in 1..Len(b) /\ v \in Nat /\ (v < u \/ v = u)
      BY <1>1, <1>4
    <3>4. y[2] \in Nat /\ y[2] \in DOMAIN b[v] /\ s \in b[v][y[2]] /\ (v < u \/ y[2] < k)
      BY <1>1, <1>2, <3>2, <3>3
    <3>5. y \in Nat \X Nat
      BY <3>2, <3>3, <3>4
    <3>6. x[1] = u /\ x[2] = k
      BY DEF u, k
    <3> QED
      BY <1>3, <3>2, <3>3, <3>4, <3>5, <3>6 DEF Sooner
  <2>4. ASSUME NEW y \in T, Sooner(y, x) PROVE y \in E
    <3>1. y \in Nat \X Nat /\ y = <<y[1], y[2]>> /\ y[1] \in Nat /\ y[2] \in Nat
      BY <2>1
    <3>2. y[1] \in 1..Len(b) /\ y[2] \in DOMAIN b[y[1]] /\ s \in b[y[1]][y[2]]
      BY <1>3, <3>1
    <3>3. x[1] = u /\ x[2] = k
      BY DEF u, k
    <3>4. y[1] \in 1..u /\ (y[1] < u \/ y[2] < k)
      BY <1>4, <2>4, <3>1, <3>2, <3>3 DEF Sooner
    <3>5. y[2] \in Mine(y[1])
      BY <3>2, <3>4
    <3> QED
      BY <3>1, <3>4, <3>5
  <2> HIDE DEF E
  <2>5. Preceding(SoonerPairs, T, x) \subseteq T
    BY DEF Preceding
  <2> QED
    BY <2>2, <2>3, <2>4, <2>5
<1>6. Ubatches(b)[u][k].pos = TokenPos(b, u, k, CHOOSE t \in b[u][k] : TRUE)
  BY <1>1, <1>4 DEF Ubatches
<1>7. (CHOOSE t \in b[u][k] : TRUE) \in b[u][k]
  BY <1>4
<1>8. TokenPos(b, u, k, CHOOSE t \in b[u][k] : TRUE) = TokenPos(b, u, k, s)
  BY <1>1, <1>4, <1>7 DEF ValidBatch
<1>9. TokenPos(b, u, k, s) = SeqPosMax(kv, s) + 1 + Cardinality(E)
  BY DEF TokenPos, Earlier
<1> HIDE DEF E, u, k
<1> QED
  BY <1>5, <1>6, <1>8, <1>9, Zenon DEF T, u, k

\* The tokens of a sequence get the positions from its largest one on, without a gap.
LEMMA BatchSpan ==
    ASSUME KvInv, NEW b \in Batches, ValidBatch(b), Ubatches(b) \in ProperUbatches,
           NEW s \in Seqs, NEW cells, PositionsOf(cells, s) = PositionsOf(kv.cells, s)
    PROVE  SpanOK(cells, Ubatches(b), s)
<1> DEFINE P == PositionsOf(cells, s)
           max == SeqPosMax(kv, s)
           n == Len(b)
           ubs == Ubatches(b)
           T == Places(ubs, s, n + 1)
           At(x) == ubs[x[1]][x[2]].pos
           rank(x) == Cardinality(Preceding(SoonerPairs, T, x))
           size == Cardinality(T)
<1>1. P \subseteq Int /\ max \in Int /\ (\A p \in P : p <= max) /\ (P # {} => max \in P)
  <2>1. Pos \subseteq Int
    BY DEF Pos
  <2> QED
    BY <2>1, LargestPosition DEF KvInv
<1>2. n \in Nat /\ Len(ubs) = n
  <2>1. b \in Seq(Seq(SUBSET Seqs))
    BY BatchesAssumption
  <2>2. Ubatches(b) \in [1..n -> Seq(ProperToken) \ {<<>>}]
    <3>1. DOMAIN b = 1..n /\ DOMAIN Ubatches(b) = DOMAIN b
      BY <2>1 DEF Ubatches
    <3>2. Ubatches(b) \in [DOMAIN Ubatches(b) -> Seq(ProperToken) \ {<<>>}]
      BY DEF ProperUbatches
    <3> QED
      BY <3>1, <3>2
  <2> QED
    BY <2>1, <2>2
<1>3. n + 1 \in 1..(Len(ubs) + 1)
  BY <1>2
<1>4. IsFiniteSet(T) /\ Orders(SoonerPairs, T)
  <2> HIDE DEF ubs
  <2>1. ubs \in ProperUbatches
    BY DEF ubs
  <2> QED
    BY <1>3, <2>1, PlacesOrdered
<1>5. \A x \in T : At(x) = max + 1 + rank(x)
  BY TokenRank
<1>6. /\ size \in Nat
      /\ \A x \in T : rank(x) \in 0..(size - 1)
      /\ \A x, y \in T : <<x, y>> \in SoonerPairs => rank(x) < rank(y)
      /\ \A r \in 0..(size - 1) : \E x \in T : rank(x) = r
  <2> HIDE DEF T
  <2> QED
    BY <1>4, RanksOnto
<1>7. Span(cells, ubs, s, Len(ubs) + 1) = P \cup {At(x) : x \in T}
  BY <1>2 DEF Span
<1>8. ASSUME NEW u \in 1..n, NEW k \in DOMAIN ubs[u], s \in ubs[u][k].seq
      PROVE  /\ <<u, k>> \in T
             /\ \A x \in Places(ubs, s, u) : x \in T /\ <<x, <<u, k>>>> \in SoonerPairs
  <2>1. u \in Nat /\ k \in Nat /\ u \in 1..((n + 1) - 1)
    <3>1. ubs[u] \in Seq(ProperToken)
      BY <1>2 DEF ProperUbatches
    <3> QED
      BY <1>2, <3>1
  <2>2. <<u, k>> \in T
    BY <1>8, <2>1 DEF Places
  <2>3. ASSUME NEW x \in Places(ubs, s, u) PROVE x \in T /\ Sooner(x, <<u, k>>)
    <3>1. x \in Nat \X Nat /\ x[1] \in 1..(u - 1) /\ x[1] \in Nat
      BY DEF Places
    <3>2. x[1] \in 1..((n + 1) - 1) /\ x[1] < u
      BY <1>2, <2>1, <3>1
    <3> QED
      BY <3>1, <3>2 DEF Places, Sooner
  <2>4. \A x \in Places(ubs, s, u) : x \in Nat \X Nat
    BY DEF Places
  <2> QED
    BY <2>1, <2>2, <2>3, <2>4 DEF SoonerPairs
<1>9. ASSUME NEW u \in 1..n, NEW k \in DOMAIN ubs[u], s \in ubs[u][k].seq, NEW q \in Span(cells, ubs, s, u)
      PROVE  q < ubs[u][k].pos
  <2> DEFINE y == <<u, k>>
  <2>1. y \in T /\ \A x \in Places(ubs, s, u) : x \in T /\ <<x, y>> \in SoonerPairs
    BY <1>8, <1>9
  <2>2. ubs[u][k].pos = At(y)
    OBVIOUS
  <2>3. q \in P \/ \E x \in Places(ubs, s, u) : q = At(x)
    BY DEF Span
  <2> HIDE DEF P, At, T, max, rank, size, ubs, y
  <2>4. At(y) = max + 1 + rank(y) /\ rank(y) \in Nat
    <3>1. rank(y) \in 0..(size - 1)
      BY <1>6, <2>1
    <3> QED
      BY <1>5, <2>1, <3>1
  <2>5. CASE q \in P
    <3>1. q \in Int /\ q <= max
      BY <1>1, <2>5
    <3>2. q < At(y)
      BY <1>1, <2>4, <3>1
    <3> QED
      BY <2>2, <3>2
  <2>6. CASE \E x \in Places(ubs, s, u) : q = At(x)
    <3>1. PICK x \in Places(ubs, s, u) : q = At(x)
      BY <2>6
    <3>2. x \in T /\ rank(x) < rank(y)
      BY <1>6, <2>1
    <3>3. rank(x) \in 0..(size - 1) /\ q = max + 1 + rank(x)
      BY <1>5, <1>6, <3>1, <3>2
    <3>4. q < At(y)
      BY <1>1, <2>4, <3>2, <3>3
    <3> QED
      BY <2>2, <3>4
  <2> QED
    BY <2>3, <2>5, <2>6
<1> HIDE DEF T, rank, max, size, At
<1>10. ASSUME Gapless(P), NEW p \in P \cup {At(x) : x \in T}, NEW q \in P \cup {At(x) : x \in T}, NEW r \in p..q
       PROVE  r \in P \cup {At(x) : x \in T}
  <2>1. \A x \in T : At(x) \in Int /\ max < At(x) /\ At(x) - (max + 1) < size
    <3> SUFFICES ASSUME NEW x \in T PROVE At(x) \in Int /\ max < At(x) /\ At(x) - (max + 1) < size
      OBVIOUS
    <3>1. At(x) = max + 1 + rank(x) /\ rank(x) \in 0..(size - 1)
      BY <1>5, <1>6
    <3> QED
      BY <1>1, <1>6, <3>1
  <2>2. p \in Int /\ q \in Int /\ r \in Int /\ p <= r /\ r <= q
    BY <1>1, <2>1
  <2>3. CASE r <= max
    <3>1. p \in P
      BY <1>1, <2>1, <2>2, <2>3
    <3>2. max \in P /\ r \in p..max
      BY <1>1, <2>2, <2>3, <3>1
    <3> QED
      BY <1>10, <3>1, <3>2 DEF Gapless
  <2>4. CASE max < r
    <3>1. q \notin P
      BY <1>1, <2>2, <2>4
    <3>2. q - (max + 1) < size
      BY <2>1, <3>1
    <3>3. r - (max + 1) \in 0..(size - 1)
      BY <1>1, <1>6, <2>2, <2>4, <3>2
    <3>4. PICK x \in T : rank(x) = r - (max + 1)
      BY <1>6, <3>3
    <3>5. At(x) = max + 1 + (r - (max + 1))
      BY <1>5, <3>4
    <3>6. At(x) = r
      BY <1>1, <2>2, <3>5
    <3> QED
      BY <3>6
  <2> QED
    BY <1>1, <2>2, <2>3, <2>4
<1>11. Dense(cells, s) => Gapless(Span(cells, ubs, s, Len(ubs) + 1))
  <2>1. Dense(cells, s) => Gapless(P)
    BY DEF Dense, Gapless
  <2> HIDE DEF P
  <2> QED
    BY <1>7, <1>10, <2>1 DEF Gapless
<1>12. \A u \in 1..Len(ubs) : \A k \in DOMAIN ubs[u] :
          s \in ubs[u][k].seq => \A q \in Span(cells, ubs, s, u) : q < ubs[u][k].pos
  BY <1>2, <1>9
<1> QED
  BY <1>11, <1>12 DEF SpanOK

-----------------------------------------------------------------------------
\* The invariant of the positions

\* of what a sequence has in the cells when the trial begins, and gets from the ubatches, the trial only
\* takes the lowest
DenseInv ==
    job.phase # "idle" => \A s \in Seqs :
        /\ SpanOK(trial[1], job.ubatches, s)
        /\ \A u \in 1..Len(trial) : TopOf(PositionsOf(trial[u], s), Span(trial[1], job.ubatches, s, u))

LEMMA DenseStutters ==
    ASSUME DenseInv, job'.phase = "idle" \/ (trial' = trial /\ job'.ubatches = job.ubatches /\ ~Idle)
    PROVE  DenseInv'
  BY DEF DenseInv, Idle

LEMMA DecodeBeginDense ==
    ASSUME KvInv, NEW b \in Batches, NEW shiftOk \in BOOLEAN, DecodeBegin(b, shiftOk), KvInv'
    PROVE  DenseInv'
<1>1. trial' = <<kv'.cells>> /\ job'.ubatches = Ubatches(b) /\ ValidBatch(b)
  BY DEF DecodeBegin, NoJob
<1>2. Ubatches(b) \in ProperUbatches
  BY <1>1 DEF KvInv, JobOK
<1>3. ASSUME NEW s \in Seqs PROVE PositionsOf(kv'.cells, s) = PositionsOf(kv.cells, s)
  <2>1. \A i \in Cells : kv'.cells[i].pos = kv.cells[i].pos /\ kv'.cells[i].seq = kv.cells[i].seq
    <3>1. CASE kv.hasShift /\ shiftOk
      <4>1. kv' = ResetShift(kv)
        BY <3>1 DEF DecodeBegin, KShift
      <4>2. kv \in KvType /\ kv.cells \in [Cells -> Cell]
        BY DEF KvInv, Good, KvType
      <4>3. kv'.cells = [i \in Cells |-> [kv.cells[i] EXCEPT !.shift = 0]]
        BY <4>1, <4>2 DEF ResetShift, KvType
      <4> QED
        BY <4>2, <4>3 DEF Cell
    <3>2. CASE ~(kv.hasShift /\ shiftOk)
      BY <3>2 DEF DecodeBegin, KShift
    <3> QED
      BY <3>1, <3>2
  <2> QED
    BY <2>1 DEF PositionsOf
<1>4. trial'[1] = kv'.cells /\ Len(trial') = 1
  BY <1>1
<1>5. ASSUME NEW s \in Seqs
      PROVE  /\ SpanOK(trial'[1], job'.ubatches, s)
             /\ \A u \in 1..Len(trial') :
                   TopOf(PositionsOf(trial'[u], s), Span(trial'[1], job'.ubatches, s, u))
  <2>1. SpanOK(kv'.cells, Ubatches(b), s)
    BY <1>1, <1>2, <1>3, BatchSpan
  <2>2. Places(Ubatches(b), s, 1) = {}
    BY DEF Places
  <2>3. Span(kv'.cells, Ubatches(b), s, 1) = PositionsOf(kv'.cells, s)
    BY <2>2 DEF Span
  <2>4. TopOf(PositionsOf(kv'.cells, s), PositionsOf(kv'.cells, s))
    BY DEF TopOf
  <2>5. \A u \in 1..1 : u = 1
    OBVIOUS
  <2> QED
    BY <1>1, <1>4, <2>1, <2>3, <2>4, <2>5
<1> QED
  BY <1>5 DEF DenseInv

LEMMA PrepareUbatchDense ==
    ASSUME KvInv, TrialInv, DenseInv, PrepareUbatch, KvInv'
    PROVE  DenseInv'
<1> DEFINE slot == FindSlot(kv, Len(Current))
           n == Len(job.slots)
           after == kv'.cells
<1>1. Good(kv) /\ Clean(kv.cells) /\ JobOK /\ JobShape(job) /\ trial \in Seq([Cells -> Cell])
        /\ Good(kv')
  BY DEF KvInv, TrialInv
<1>2. Current \in Seq(ProperToken) /\ Len(Current) \in Nat
  BY CurrentType DEF PrepareUbatch
<1>3. SlotFor(slot, Current) /\ \A k \in DOMAIN Current : \E i \in DOMAIN slot : slot[i] = k
  <2>1. DOMAIN slot # {} /\ DOMAIN Current = 1..Len(Current)
    BY <1>2 DEF PrepareUbatch
  <2>2. SlotFor(slot, Current)
    BY <1>2, <2>1, FindSlotRange DEF SlotFor
  <2> QED
    BY <1>1, <1>2, <2>1, <2>2, SlotOnto
<1>4. kv' = ApplyUbatch(kv, slot, Current) /\ trial' = Append(trial, kv'.cells) /\ job.phase = "prepare"
  BY DEF PrepareUbatch
<1>5. job'.ubatches = job.ubatches /\ job'.phase = "prepare"
  <2>1. job' = [job EXCEPT !.slots = Append(@, slot),
                           !.saved = Append(@, [cells |-> Copy(kv, slot), head |-> kv.head]),
                           !.cur = @ + 1]
    BY DEF PrepareUbatch
  <2> HIDE DEF slot
  <2> QED
    BY <1>1, <1>4, <2>1 DEF JobShape
<1> HIDE DEF slot
<1>6. \A i \in Cells : after[i] = Placed(kv.cells, slot, Current, i)
  BY <1>1, <1>2, <1>3, <1>4, PlacedCells
<1>7. /\ n \in Nat /\ Len(trial) = n + 1 /\ trial[n + 1] = kv.cells
      /\ job.ubatches \in ProperUbatches /\ Len(job.ubatches) \in Nat
      /\ job.cur = n + 1 /\ n + 1 \in 1..Len(job.ubatches) /\ Current = job.ubatches[n + 1]
  <2>1. n \in Nat
    BY <1>1 DEF JobOK
  <2>2. Len(trial) = n + 1 /\ trial[n + 1] = kv.cells
    BY <1>4 DEF TrialInv, TrialOK
  <2>3. job.ubatches \in ProperUbatches /\ Len(job.ubatches) \in Nat /\ job.cur = n + 1
    BY <1>1, <1>4 DEF JobOK, ProperUbatches
  <2>4. job.cur <= Len(job.ubatches)
    BY DEF PrepareUbatch
  <2> QED
    BY <2>1, <2>2, <2>3, <2>4 DEF Current
<1> HIDE DEF n
<1>8. Len(trial') = n + 2 /\ trial'[n + 2] = after /\ \A u \in 1..(n + 1) : trial'[u] = trial[u]
  <2> HIDE DEF after
  <2>1. trial' = Append(trial, after)
    BY <1>4 DEF after
  <2> QED
    BY <1>1, <1>7, <2>1
<1>9. after \in [Cells -> Cell] /\ kv.cells \in [Cells -> Cell] /\ \A i \in Cells : Owned(kv.cells[i])
  BY <1>1 DEF Good, KvType
<1> HIDE DEF after
<1>10. trial[1] \in [Cells -> Cell] /\ trial'[1] = trial[1]
  BY <1>1, <1>7, <1>8
<1>11. ASSUME NEW s \in Seqs
       PROVE  /\ SpanOK(trial[1], job.ubatches, s)
              /\ \A u \in 1..(n + 2) : TopOf(PositionsOf(trial'[u], s), Span(trial[1], job.ubatches, s, u))
  <2> DEFINE S(u) == Span(trial[1], job.ubatches, s, u)
             New == {Current[k].pos : k \in {l \in DOMAIN Current : s \in Current[l].seq}}
  <2>1. SpanOK(trial[1], job.ubatches, s) /\ \A u \in 1..(n + 1) : TopOf(PositionsOf(trial[u], s), S(u))
    BY <1>4, <1>7 DEF DenseInv
  <2>2. S(n + 1) \subseteq Int /\ S((n + 1) + 1) = S(n + 1) \cup New
    <3>1. n + 1 \in 1..(Len(job.ubatches) + 1) /\ n + 1 <= Len(job.ubatches)
      BY <1>7
    <3>2. /\ S(n + 1) \subseteq Int
          /\ S((n + 1) + 1) = S(n + 1) \cup
                {job.ubatches[n + 1][k].pos : k \in {l \in DOMAIN job.ubatches[n + 1] : s \in job.ubatches[n + 1][l].seq}}
      <4> DEFINE m == n + 1
                 ubs == job.ubatches
                 first == trial[1]
      <4>1. m \in 1..(Len(ubs) + 1) /\ m <= Len(ubs) /\ ubs \in ProperUbatches /\ first \in [Cells -> Cell]
        BY <1>7, <1>10, <3>1
      <4> HIDE DEF m, ubs, first
      <4>2. /\ Span(first, ubs, s, m) \subseteq Int
            /\ Span(first, ubs, s, m + 1) = Span(first, ubs, s, m)
                  \cup {ubs[m][k].pos : k \in {l \in DOMAIN ubs[m] : s \in ubs[m][l].seq}}
        BY <4>1, SpanType
      <4> QED
        BY <4>2 DEF m, ubs, first
    <3> HIDE DEF S
    <3> QED
      BY <1>7, <3>2
  <2>3. \A k \in DOMAIN Current : s \in Current[k].seq => \A q \in S(n + 1) : q < Current[k].pos
    BY <1>7, <2>1 DEF SpanOK
  <2>4. TopOf(PositionsOf(kv.cells, s), S(n + 1))
    BY <1>7, <2>1
  <2> DEFINE B == S(n + 1)
  <2>5. TopOf(PositionsOf(after, s), B \cup New)
    <3>1. B \in SUBSET Int /\ TopOf(PositionsOf(kv.cells, s), B)
            /\ \A k \in DOMAIN Current : s \in Current[k].seq => \A q \in B : q < Current[k].pos
      BY <2>2, <2>3, <2>4
    <3> DEFINE old == kv.cells
               cur == Current
    <3>2. /\ old \in [Cells -> Cell] /\ \A i \in Cells : Owned(old[i])
          /\ cur \in Seq(ProperToken) /\ SlotFor(slot, cur) /\ \A k \in DOMAIN cur : \E i \in DOMAIN slot : slot[i] = k
          /\ after \in [Cells -> Cell] /\ \A i \in Cells : after[i] = Placed(old, slot, cur, i)
      BY <1>2, <1>3, <1>6, <1>9
    <3>3. /\ B \in SUBSET Int /\ TopOf(PositionsOf(old, s), B)
          /\ \A k \in DOMAIN cur : s \in cur[k].seq => \A q \in B : q < cur[k].pos
      BY <3>1
    <3> HIDE DEF B, old, cur
    <3>4. TopOf(PositionsOf(after, s), B \cup {cur[k].pos : k \in {l \in DOMAIN cur : s \in cur[l].seq}})
      BY <3>2, <3>3, PlacedTop
    <3> QED
      BY <3>4 DEF cur
  <2>6. TopOf(PositionsOf(trial'[n + 2], s), S(n + 2))
    <3>1. (n + 1) + 1 = n + 2
      BY <1>7
    <3> QED
      BY <1>8, <2>2, <2>5, <3>1
  <2> HIDE DEF S
  <2>7. ASSUME NEW u \in 1..(n + 2) PROVE TopOf(PositionsOf(trial'[u], s), S(u))
    <3>1. CASE u = n + 2
      BY <2>6, <3>1
    <3>2. CASE u \in 1..(n + 1)
      BY <1>8, <2>1, <3>2
    <3> QED
      BY <1>7, <3>1, <3>2
  <2> QED
    BY <2>1, <2>7 DEF S
<1> QED
  BY <1>5, <1>8, <1>10, <1>11 DEF DenseInv

LEMMA DenseStep ==
    ASSUME KvInv, TrialInv, DenseInv, Next, KvInv'
    PROVE  DenseInv'
<1>1. CASE \E b \in Batches, shiftOk \in BOOLEAN : DecodeBegin(b, shiftOk)
  BY <1>1, DecodeBeginDense
<1>2. CASE PrepareUbatch
  BY <1>2, PrepareUbatchDense
<1>3. CASE PrepareEnds \/ RestoreOne \/ PrepareDone \/ ApplyCurrent
  <2>1. JobShape(job)
    BY DEF KvInv
  <2>2. trial' = trial /\ job'.ubatches = job.ubatches /\ ~Idle
    <3>1. CASE PrepareEnds
      BY <2>1, <3>1 DEF PrepareEnds, JobShape, Idle
    <3>2. CASE RestoreOne
      BY <2>1, <3>2 DEF RestoreOne, JobShape, Idle
    <3>3. CASE PrepareDone
      BY <2>1, <3>3 DEF PrepareDone, JobShape, Idle
    <3>4. CASE ApplyCurrent
      BY <2>1, <3>4 DEF ApplyCurrent, JobShape, Idle
    <3> QED
      BY <1>3, <3>1, <3>2, <3>3, <3>4
  <2> QED
    BY <2>2, DenseStutters
<1>4. CASE PrepareFailed \/ ComputeFails
  <2>1. job'.phase = "idle"
    BY <1>4 DEF PrepareFailed, ComputeFails, NoJob
  <2> QED
    BY <2>1, DenseStutters
<1>5. CASE ComputeOk
  <2>1. JobShape(job)
    BY DEF KvInv
  <2>2. CASE job.cur = Len(job.ubatches)
    <3>1. job'.phase = "idle"
      BY <1>5, <2>2 DEF ComputeOk, NoJob
    <3> QED
      BY <3>1, DenseStutters
  <2>3. CASE job.cur # Len(job.ubatches)
    <3>1. trial' = trial /\ job'.ubatches = job.ubatches /\ ~Idle
      BY <1>5, <2>1, <2>3 DEF ComputeOk, JobShape, Idle
    <3> QED
      BY <3>1, DenseStutters
  <2> QED
    BY <2>2, <2>3
<1>6. CASE \/ Clear
           \/ \E s \in Seqs, r \in Ranges : SeqRmCall(s, r)
           \/ \E r \in Ranges : SeqRmAnyCall(r)
           \/ \E src, dst \in Seqs, r \in Ranges : SeqCpCall(src, dst, r)
           \/ \E s \in Seqs : SeqKeepCall(s)
           \/ \E s \in Seqs, r \in Ranges, d \in Shifts : SeqAddCall(s, r, d)
           \/ \E s \in Seqs, r \in Ranges, d \in Divisors : SeqDivCall(s, r, d)
           \/ \E s \in Seqs, p0 \in Pos, n \in 1..Size, readOk \in BOOLEAN : StateRead(s, p0, n, readOk)
  <2>1. Idle /\ job' = job
    BY <1>6 DEF Clear, SeqRmCall, SeqRmAnyCall, SeqCpCall, SeqKeepCall, SeqAddCall, SeqDivCall, StateRead, Metadata
  <2>2. job'.phase = "idle"
    BY <2>1 DEF Idle
  <2> QED
    BY <2>2, DenseStutters
<1> QED
  BY <1>1, <1>2, <1>3, <1>4, <1>5, <1>6 DEF Next

\* The positions of every trial are the highest of a span without holes, if there was no hole before.
THEOREM DenseInvariant == Spec => [](KvInv /\ TrialInv /\ DenseInv)
<1>1. Init => DenseInv
  BY DEF Init, NoJob, DenseInv
<1>2. KvInv /\ TrialInv /\ DenseInv /\ KvInv' /\ [Next]_vars => DenseInv'
  <2>1. ASSUME DenseInv, UNCHANGED vars PROVE DenseInv'
    BY <2>1 DEF vars, DenseInv
  <2> QED
    BY <2>1, DenseStep
<1> QED
  BY <1>1, <1>2, TrialInvariant, PTL DEF Spec

\* When the last ubatch of a batch has been placed, the cells are those that the trial had reached.
LEMMA LastPlacement ==
    ASSUME KvInv, TrialInv, ApplyCurrent, job.cur = Len(job.ubatches), TrialInv', NEW i \in Cells
    PROVE  Same(kv'.cells[i], trial[Len(job.slots) + 1][i])
<1> DEFINE a == Len(job.slots) + 1
<1>1. /\ JobOK /\ JobShape(job) /\ job.phase = "apply"
      /\ job.slots \in Seq(SlotType) /\ Len(job.slots) \in Nat /\ Len(job.slots) = Len(job.ubatches)
  BY DEF KvInv, JobOK, ApplyCurrent
<1>2. /\ job'.phase = "compute" /\ job'.cur = job.cur /\ job'.slots = job.slots
      /\ trial' = trial /\ job'.cur + 1 = a
  BY <1>1 DEF ApplyCurrent, JobShape
<1>3. AppliedOK(kv'.cells, job.slots, trial, a)
  BY <1>2 DEF TrialInv
<1>4. CASE Untouched(job.slots, i, 1, a)
  <2>1. Returns(kv'.cells, job.slots, trial, i, a)
    BY <1>3, <1>4 DEF AppliedOK
  <2>2. NextSlot(job.slots, i, a, a) /\ a \in a..(Len(job.slots) + 1)
    BY <1>1 DEF NextSlot, Untouched
  <2> QED
    BY <2>1, <2>2 DEF Returns
<1>5. CASE ~Untouched(job.slots, i, 1, a)
  BY <1>3, <1>5 DEF AppliedOK
<1> QED
  BY <1>4, <1>5

\* A batch makes no hole: when its last ubatch has been placed, the positions of a sequence that had none
\* when the decode began have none, whatever cells of it the trial forgot and the ubatches overwrote and
\* purged (llama-kv-cache.cpp:3870).
THEOREM BatchStaysDense == Spec => BatchKeepsDense
<1>1. ASSUME KvInv, TrialInv, DenseInv, TrialInv', ApplyCurrent, job.cur = Len(job.ubatches),
             NEW s \in Seqs, Dense(trial[1], s)
      PROVE  Dense(kv'.cells, s)
  <2> DEFINE n == Len(job.ubatches)
             B == Span(trial[1], job.ubatches, s, n + 1)
             P == PositionsOf(trial[n + 1], s)
  <2>1. /\ job.phase = "apply" /\ n \in Nat /\ Len(job.slots) = n /\ Len(trial) = n + 1
        /\ trial[1] \in [Cells -> Cell] /\ job.ubatches \in ProperUbatches
    <3>1. job.phase = "apply"
      BY <1>1 DEF ApplyCurrent
    <3>2. n \in Nat /\ Len(job.slots) = n /\ job.ubatches \in ProperUbatches /\ trial \in Seq([Cells -> Cell])
      BY <1>1, <3>1 DEF KvInv, JobOK, ProperUbatches
    <3>3. Len(trial) = n + 1
      BY <1>1, <3>1, <3>2 DEF TrialInv, TrialOK
    <3> QED
      BY <3>1, <3>2, <3>3
  <2>2. Gapless(B) /\ TopOf(P, B)
    <3>1. n + 1 \in 1..Len(trial)
      BY <2>1
    <3> QED
      BY <1>1, <2>1, <3>1 DEF DenseInv, SpanOK
  <2>3. B \subseteq Int
    <3>1. n + 1 \in 1..(Len(job.ubatches) + 1)
      BY <2>1
    <3> QED
      BY <2>1, <3>1, SpanType
  <2>4. PositionsOf(kv'.cells, s) = P
    <3>1. \A i \in Cells : Same(kv'.cells[i], trial[n + 1][i])
      BY <1>1, <2>1, LastPlacement
    <3> QED
      BY <3>1 DEF Same, PositionsOf
  <2> HIDE DEF B, P
  <2>5. ASSUME NEW p \in P, NEW q \in P, NEW r \in p..q PROVE r \in P
    <3>1. p \in B /\ q \in B
      BY <2>2 DEF TopOf
    <3>2. r \in B
      BY <2>2, <3>1 DEF Gapless
    <3>3. p \in Int /\ q \in Int
      BY <2>3, <3>1
    <3>4. p <= r
      BY <3>3
    <3> QED
      BY <2>2, <3>2, <3>4 DEF TopOf
  <2> QED
    BY <2>4, <2>5 DEF Dense
<1>2. KvInv /\ TrialInv /\ DenseInv /\ TrialInv' /\ [Next]_vars =>
          [ApplyCurrent /\ job.cur = Len(job.ubatches) =>
              \A s \in Seqs : Dense(trial[1], s) => Dense(kv'.cells, s)]_vars
  BY <1>1
<1> QED
  BY <1>2, DenseInvariant, PTL DEF BatchKeepsDense, Spec
=============================================================================
