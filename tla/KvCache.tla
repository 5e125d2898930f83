------------------------------- MODULE KvCache -------------------------------
(***************************************************************************)
(* llama_kv_cache as llama_context drives it: the memory calls of the      *)
(* program (seq_rm, seq_cp, ...), and llama_decode, which applies pending  *)
(* shifts, finds a slot for every ubatch by placing them for trial and     *)
(* putting everything back (prepare), then places and computes them one by *)
(* one, and takes a failed one out again. One thread calls all of it, so   *)
(* the loops of llama_decode are steps only to be followed, not to be      *)
(* interleaved with other calls.                                           *)
(*                                                                         *)
(* row[i] stands for the K row of cell i: the position it is rotated for,  *)
(* NoPos when it holds no computed K. One stream (kv_unified), one position*)
(* per token.                                                              *)
(***************************************************************************)
EXTENDS KvCells, Sequences

CONSTANTS
    Batches,    \* the batches to decode: sequences of ubatches, sequences of tokens, sets of sequence ids
    Ranges,     \* pairs of positions p0 < p1: the ranges [p0, p1) that the callers give
    Shifts,     \* deltas of seq_add
    MaxShift,   \* bound on the shift that accumulates in a cell
    Divisors    \* divisors of seq_div

Token == [pos : Pos, seq : SUBSET Seqs]

ASSUME BatchesAssumption ==
    /\ Batches \subseteq Seq(Seq(SUBSET Seqs))
    /\ \A b \in Batches : /\ b # <<>>
                          /\ \A u \in DOMAIN b : b[u] # <<>> /\ \A k \in DOMAIN b[u] : b[u][k] # {}
ASSUME RangesAssumption == Ranges \subseteq Pos \X (Pos \cup {Infinity})
ASSUME ShiftsAssumption == Shifts \subseteq Int /\ Divisors \subseteq Nat \ {0} /\ MaxShift \in Nat

VARIABLES
    kv,         \* v_cells[0] and v_heads[0]
    row,        \* the K rows
    job,        \* the llama_decode in progress
    drifted,    \* history: cells whose shift is known to be wrong: seq_div, or lost by a trial (see RowMatchesCell)
    trial       \* history: the cells when the decode in progress began and after every trial placement

vars == <<kv, row, job, drifted, trial>>

\* what llama_decode keeps: the ubatches, the slot of each, the recovery stack of prepare, its result,
\* the ubatch at work
NoJob == [phase |-> "idle", ubatches |-> <<>>, slots |-> <<>>, saved |-> <<>>, ok |-> TRUE, cur |-> 1]

Idle == job.phase = "idle"
Current == job.ubatches[job.cur]

Init ==
    /\ kv = InitKv
    /\ row = [i \in Cells |-> NoPos]
    /\ job = NoJob
    /\ drifted = {}
    /\ trial = <<>>

-----------------------------------------------------------------------------
\* The memory API, between two calls of llama_decode

\* nobody reads the K row of an empty cell: it counts as forgotten, so that equal states are equal
Forget(cells, rows) == [i \in Cells |-> IF IsEmpty(cells[i]) THEN NoPos ELSE rows[i]]
InUse(cells, S) == {i \in S : ~IsEmpty(cells[i])}

\* a call that changes the cells only
Metadata(new) ==
    /\ kv' = new
    /\ row' = Forget(new.cells, row)
    /\ drifted' = InUse(new.cells, drifted)
    /\ UNCHANGED <<job, trial>>

Clear ==
    /\ Idle
    /\ kv' = InitKv
    /\ row' = [i \in Cells |-> NoPos]
    /\ drifted' = {}
    /\ UNCHANGED <<job, trial>>

SeqRmCall(s, r) == Idle /\ Metadata(SeqRm(kv, s, r[1], r[2]))

SeqRmAnyCall(r) == Idle /\ Metadata(SeqRmAny(kv, r[1], r[2]))

\* the callers empty the destination first: "call only if ... the seq_id is not in the cell"
SeqCpCall(src, dst, r) ==
    /\ Idle
    /\ src # dst
    /\ Present(kv, dst) = {}
    /\ Metadata(SeqCp(kv, src, dst, r[1], r[2]))

SeqKeepCall(s) == Idle /\ Metadata(SeqKeep(kv, s))

\* the cells of [r[1], r[2]) that sequence s owns: those a shift or a division moves
Moved(s, r) == {i \in Cells : PosIn(kv.cells[i], r[1], r[2]) /\ s \in kv.cells[i].seq}

\* the callers first remove what the shifted positions would meet (context shift, cache reuse)
SeqAddCall(s, r, d) ==
    /\ Idle
    /\ d # 0
    /\ \A i \in Cells \ Moved(s, r), j \in Moved(s, r) :
          s \in kv.cells[i].seq => kv.cells[i].pos # kv.cells[j].pos + d
    /\ \A i \in Moved(s, r) : /\ kv.cells[i].pos + d <= MaxPos
                              /\ kv.cells[i].shift + d \in (-MaxShift)..MaxShift
    /\ Metadata(SeqAdd(kv, s, r[1], r[2], d))

SeqDivCall(s, r, d) ==
    /\ Idle
    /\ d # 1
    /\ drifted = {}     \* bound: one division at a time
    /\ \A i \in Moved(s, r) : PosDiv(kv.cells[i], d).cell.shift <= MaxShift
    /\ kv' = SeqDiv(kv, s, r[1], r[2], d)
    /\ drifted' = drifted \cup Moved(s, r)
    /\ UNCHANGED <<row, job, trial>>

\* the K rows after the tokens of a ubatch were computed (or read) into their cells
Written(slot, ubatch) ==
    [i \in Cells |-> IF i \in DOMAIN slot THEN ubatch[slot[i]].pos ELSE row[i]]

\* state_read of n cells at the positions p0, p0 + 1, ... into sequence s: the sequence is removed, a
\* slot found, the tokens placed and their K read; whatever fails, the sequence is removed again
StateRead(s, p0, n, readOk) ==
    /\ Idle
    /\ p0 + n <= MaxPos + 1
    /\ LET ubatch == [k \in 1..n |-> [pos |-> p0 + k - 1, seq |-> {s}]]
           removed == SeqRm(kv, s, 0, Infinity)
           slot == FindSlot(removed, n)
           placed == ApplyUbatch(removed, slot, ubatch)
           found == DOMAIN slot # {}
       IN  /\ kv' = IF ~found THEN removed
                    ELSE IF readOk THEN placed ELSE SeqRm(placed, s, 0, Infinity)
           /\ row' = Forget(kv'.cells, Written(slot, ubatch))
           /\ drifted' = InUse(kv'.cells, drifted \ DOMAIN slot)
    /\ UNCHANGED <<job, trial>>

-----------------------------------------------------------------------------
\* llama_decode

\* the number of tokens before token k of ubatch u that belong to sequence s
Earlier(b, u, k, s) ==
    LET Mine(v) == {l \in DOMAIN b[v] : s \in b[v][l] /\ (v < u \/ l < k)}
    IN  Cardinality(UNION {{v} \X Mine(v) : v \in 1..u})

\* the batch: positions go on from the largest one of each sequence in the cache. A token of several
\* sequences needs the same position in all of them ("coupled ... but have diverged")
TokenPos(b, u, k, s) == SeqPosMax(kv, s) + 1 + Earlier(b, u, k, s)
ValidBatch(b) ==
    \A u \in DOMAIN b : \A k \in DOMAIN b[u] :
        /\ \A s \in b[u][k] : TokenPos(b, u, k, s) \in Pos
        /\ \A s, t \in b[u][k] : TokenPos(b, u, k, s) = TokenPos(b, u, k, t)
                                 /\ SeqPosMin(kv, s) = SeqPosMin(kv, t)
Ubatches(b) ==
    [u \in DOMAIN b |-> [k \in DOMAIN b[u] |->
        [pos |-> TokenPos(b, u, k, CHOOSE s \in b[u][k] : TRUE), seq |-> b[u][k]]]]

\* memory_update(false): the K-shift turns every row by its shift and the shifts are reset; when its
\* graph fails the shifts stay and are tried again by the next decode
KShift(ok) ==
    IF kv.hasShift /\ ok
    THEN /\ kv' = ResetShift(kv)
         /\ row' = [i \in Cells |-> IF row[i] = NoPos THEN NoPos ELSE row[i] + kv.cells[i].shift]
    ELSE UNCHANGED <<kv, row>>

DecodeBegin(b, shiftOk) ==
    /\ Idle
    /\ ValidBatch(b)
    /\ KShift(shiftOk)
    /\ job' = [NoJob EXCEPT !.phase = "prepare", !.ubatches = Ubatches(b)]
    /\ trial' = <<kv'.cells>>
    /\ UNCHANGED drifted

\* mutant: the ubatch is not placed for trial
PrepareUbatchNoTrial ==
    /\ job.phase = "prepare"
    /\ job.cur <= Len(job.ubatches)
    /\ LET slot == FindSlot(kv, Len(Current)) IN
       /\ DOMAIN slot # {}
       /\ job' = [job EXCEPT !.slots = Append(@, slot),
                             !.saved = Append(@, [cells |-> Copy(kv, slot), head |-> kv.head]),
                             !.cur = @ + 1]
       /\ trial' = Append(trial, kv.cells)
    /\ UNCHANGED <<kv, row, drifted>>

\* prepare(): find a slot, save its cells, place the ubatch for trial
PrepareUbatch ==
    /\ job.phase = "prepare"
    /\ job.cur <= Len(job.ubatches)
    /\ LET slot == FindSlot(kv, Len(Current)) IN
       /\ DOMAIN slot # {}
       /\ job' = [job EXCEPT !.slots = Append(@, slot),
                             !.saved = Append(@, [cells |-> Copy(kv, slot), head |-> kv.head]),
                             !.cur = @ + 1]
       /\ kv' = ApplyUbatch(kv, slot, Current)
       /\ drifted' = drifted \cup {i \in DOMAIN slot : kv.cells[i].shift # 0}
       /\ trial' = Append(trial, kv'.cells)
    /\ UNCHANGED row

PrepareEnds ==
    /\ job.phase = "prepare"
    /\ \/ /\ job.cur > Len(job.ubatches)
          /\ job' = [job EXCEPT !.phase = "restore"]
       \/ /\ job.cur <= Len(job.ubatches)
          /\ DOMAIN FindSlot(kv, Len(Current)) = {}
          /\ job' = [job EXCEPT !.phase = "restore", !.ok = FALSE]
    /\ UNCHANGED <<kv, row, drifted, trial>>

\* "iterate backwards and restore the cells to their original state"
RestoreOne ==
    /\ job.phase = "restore"
    /\ job.saved # <<>>
    /\ kv' = Restore(kv, job.saved[Len(job.saved)])
    /\ job' = [job EXCEPT !.saved = SubSeq(@, 1, Len(@) - 1)]
    /\ UNCHANGED <<row, drifted, trial>>

\* llama_decode returns 1 when there is no slot, -2 when the output buffer cannot be reserved
PrepareFailed ==
    /\ job.phase = "restore"
    /\ job.saved = <<>>
    /\ job' = NoJob
    /\ trial' = <<>>
    /\ row' = Forget(kv.cells, row)
    /\ drifted' = InUse(kv.cells, drifted)
    /\ UNCHANGED kv

PrepareDone ==
    /\ job.phase = "restore"
    /\ job.saved = <<>>
    /\ job.ok
    /\ job' = [job EXCEPT !.phase = "apply", !.cur = 1]
    /\ UNCHANGED <<kv, row, drifted, trial>>

\* llama_kv_cache_context::apply
ApplyCurrent ==
    /\ job.phase = "apply"
    /\ kv' = ApplyUbatch(kv, job.slots[job.cur], Current)
    /\ job' = [job EXCEPT !.phase = "compute"]
    /\ UNCHANGED <<row, drifted, trial>>

\* the graph of the ubatch writes the K rows of its cells
ComputeOk ==
    /\ job.phase = "compute"
    /\ LET slot == job.slots[job.cur] IN
       /\ row' = Forget(kv.cells, Written(slot, Current))
       /\ drifted' = InUse(kv.cells, drifted \ DOMAIN slot)
    /\ IF job.cur = Len(job.ubatches)
       THEN job' = NoJob /\ trial' = <<>>
       ELSE job' = [job EXCEPT !.phase = "apply", !.cur = @ + 1] /\ UNCHANGED trial
    /\ UNCHANGED kv

\* "the last ubatch failed or was aborted -> remove all positions of that ubatch from the memory module":
\* of each token, the first sequence counts; its positions from the smallest of the ubatch on are removed
FirstSeq(tok) == CHOOSE s \in tok.seq : TRUE

\* mutant: the smallest position of the failed ubatch stays
RemovedAbove(ubatch) ==
    LET s == FirstSeq(ubatch[1])
    IN  SeqRm(kv, s, ubatch[1].pos + 1, Infinity)

Removed(ubatch) ==
    LET firsts == {FirstSeq(ubatch[k]) : k \in DOMAIN ubatch}
        from == [s \in firsts |-> Least({ubatch[k].pos : k \in {l \in DOMAIN ubatch : FirstSeq(ubatch[l]) = s}})]
        Gone(i) == {s \in firsts \cap kv.cells[i].seq : kv.cells[i].pos >= from[s]}
        J == {i \in Cells : Gone(i) # {}}
        left(i) == kv.cells[i].seq \ Gone(i)
        eff == [i \in J |-> Effect(IF left(i) = {} THEN Empty ELSE [kv.cells[i] EXCEPT !.seq = left(i)],
                                   Gone(i) \X {kv.cells[i].pos}, {}, left(i) = {}, FALSE)]
    IN  LowerHead(Apply(kv, eff), Freed(eff))

ComputeFails ==
    /\ job.phase = "compute"
    /\ kv' = Removed(Current)
    /\ LET lost == DOMAIN job.slots[job.cur] IN
       /\ row' = Forget(kv'.cells, [i \in Cells |-> IF i \in lost THEN NoPos ELSE row[i]])
       /\ drifted' = InUse(kv'.cells, drifted \ lost)
    /\ job' = NoJob
    /\ trial' = <<>>

Next ==
    \/ Clear
    \/ \E s \in Seqs, r \in Ranges : SeqRmCall(s, r)
    \/ \E r \in Ranges : SeqRmAnyCall(r)
    \/ \E src, dst \in Seqs, r \in Ranges : SeqCpCall(src, dst, r)
    \/ \E s \in Seqs : SeqKeepCall(s)
    \/ \E s \in Seqs, r \in Ranges, d \in Shifts : SeqAddCall(s, r, d)
    \/ \E s \in Seqs, r \in Ranges, d \in Divisors : SeqDivCall(s, r, d)
    \/ \E s \in Seqs, p0 \in Pos, n \in 1..Size, readOk \in BOOLEAN : StateRead(s, p0, n, readOk)
    \/ \E b \in Batches, shiftOk \in BOOLEAN : DecodeBegin(b, shiftOk)
    \/ PrepareUbatch
    \/ PrepareEnds
    \/ RestoreOne
    \/ PrepareFailed
    \/ PrepareDone
    \/ ApplyCurrent
    \/ ComputeOk
    \/ ComputeFails

Spec == Init /\ [][Next]_vars

-----------------------------------------------------------------------------
\* Types

SlotType == UNION {[S -> Nat] : S \in SUBSET Cells}
SavedType == [cells : UNION {[S -> Cell] : S \in SUBSET Cells}, head : 0..Size]

TypeOK ==
    /\ kv \in KvType
    /\ row \in [Cells -> Int]
    /\ drifted \subseteq Cells
    /\ \A t \in DOMAIN trial : trial[t] \in [Cells -> Cell]
    /\ job.phase \in {"idle", "prepare", "restore", "apply", "compute"}
    /\ job.cur \in 1..(Len(job.ubatches) + 1)
    /\ Len(job.slots) <= Len(job.ubatches)

-----------------------------------------------------------------------------
\* Properties

\* The index of positions and the set of used cells agree with the cells, so that seq_pos_min and
\* seq_pos_max, on which batch validation, find_slot and the server rely, tell the truth: every
\* increment and decrement of seq_pos in llama_kv_cells is matched, on every path.
IndexOK ==
    /\ \A e \in Seqs \X Pos : kv.index[e] = Cardinality({i \in Cells : e \in Entries(kv.cells[i])})
    /\ kv.used = {i \in Cells : ~IsEmpty(kv.cells[i])}

\* No cell leaks: a cell with a position belongs to a sequence. One without could neither be removed
\* (seq_rm asks for a sequence) nor reused (find_slot asks for exactly one sequence).
NoLeakedCell == \A i \in Cells : IsEmpty(kv.cells[i]) <=> kv.cells[i].seq = {}

\* no difference that llama_kv_cells::set does not restore
Same(c, d) == c.pos = d.pos /\ c.seq = d.seq

\* A ubatch is applied to the cells that find_slot chose for it: after the trial was undone and the
\* ubatches before it were applied, every cell of its slot is what it was when it was found usable, so
\* that apply_ubatch overwrites empty cells and masked cells of one sequence only (its assertion).
SlotStillFits ==
    job.phase = "apply" => \A i \in DOMAIN job.slots[job.cur] :
        /\ Same(kv.cells[i], trial[job.cur][i])
        /\ IsEmpty(kv.cells[i]) \/ \E s \in Seqs : kv.cells[i].seq = {s}

\* Between two calls, the K row of every used cell was computed and, turned by the pending shift, is
\* rotated for the position of the cell: no failed or trial ubatch stays in the cache, no shift is
\* lost or applied twice. Cells that seq_div changed are left out (see ShiftAccumulates).
RowMatchesCell ==
    Idle => \A i \in kv.used \ drifted : row[i] # NoPos /\ row[i] + kv.cells[i].shift = kv.cells[i].pos

\* A failed prepare changes no cell into another: after the trial placements are undone in reverse
\* order a cell has the position it had, and at most lost owners; and that only under a sliding
\* window, where apply_ubatch purges (see FailedPrepareRestores).
FailedPrepareOnlyForgets ==
    [][PrepareFailed => \A i \in Cells :
        /\ kv.cells[i].seq \subseteq trial[1][i].seq
        /\ kv.cells[i].seq # {} => kv.cells[i].pos = trial[1][i].pos
        /\ SwaType = "none" => Same(kv.cells[i], trial[1][i])]_vars

\* "all positions between [pos_min, pos_max] for each sequence will be present": when the last ubatch
\* of a batch has been placed, no sequence has a hole that it had not when the decode began, although
\* the trial may have forgotten cells and every ubatch overwrites and purges some.
BatchKeepsDense ==
    [][ApplyCurrent /\ job.cur = Len(job.ubatches) =>
        \A s \in Seqs : Dense(trial[1], s) => Dense(kv'.cells, s)]_vars

\* "restore the cells to their original state": prepare, when it fails, leaves the cells as they were
FailedPrepareRestores ==
    [][PrepareFailed => \A i \in Cells : Same(kv.cells[i], trial[1][i])]_vars

\* The same of every ubatch, as the comment says it. It fails when the trial of the last ubatch purged
\* a cell outside of the slots, which is not put back: the ubatches before it are computed with a
\* hole below their tokens, until the last one purges what is below the hole, too.
ApplyKeepsDense ==
    [][ApplyCurrent => \A s \in Seqs : Dense(kv.cells, s) => Dense(kv'.cells, s)]_vars

\* "this array accumulates any applied shifts to the pos array": the shift is what the position moved
\* by since the K row was computed
ShiftAccumulates ==
    Idle => \A i \in kv.used : row[i] + kv.cells[i].shift = kv.cells[i].pos

=============================================================================
