------------------------------- MODULE KvCells -------------------------------
(***************************************************************************)
(* The metadata of one stream of the KV cache: class llama_kv_cells and    *)
(* the functions of llama_kv_cache that change it, as operators on a       *)
(* record kv. src/llama-kv-cells.h, src/llama-kv-cache.cpp.                *)
(*                                                                         *)
(* A cell holds a position (NoPos when empty), the set of the sequences    *)
(* that own it and the shift not yet applied to its K row. kv.index counts,*)
(* for every sequence and position, the cells that hold it; the class keeps*)
(* it apart from the cells (seq_pos) and updates it by hand, one increment *)
(* or decrement at a time, as it does kv.used.                             *)
(*                                                                         *)
(* Every operation of llama_kv_cells acts on one cell; its effect is a     *)
(* record [cell, dec, inc, freed, filled]: the new cell, the entries of the*)
(* index it decrements and increments, whether it erases the cell from     *)
(* "used" or inserts it. The loops of llama_kv_cache apply one operation to*)
(* the cells that match: Apply takes the effects of all of them.           *)
(***************************************************************************)
EXTENDS Integers, FiniteSets

CONSTANTS
    Size,       \* number of cells
    Seqs,       \* sequence ids
    MaxPos,     \* bound on positions (llama_pos is an int32)
    SwaType,    \* "none", "standard", "chunked" or "symmetric": llama_swa_type
    NSwa        \* n_swa, the window

ASSUME SizeAssumption == Size \in Nat \ {0}
ASSUME SeqsAssumption == IsFiniteSet(Seqs)
ASSUME MaxPosAssumption == MaxPos \in Nat
ASSUME SwaAssumption == SwaType \in {"none", "standard", "chunked", "symmetric"} /\ NSwa \in Nat \ {0}

Cells == 0..(Size - 1)
Pos == 0..MaxPos
NoPos == -1
Infinity == MaxPos + 1      \* std::numeric_limits<llama_pos>::max(): no position reaches it

Cell == [pos : Pos \cup {NoPos}, seq : SUBSET Seqs, shift : Int]
KvType == [cells : [Cells -> Cell], index : [Seqs \X Pos -> Int], used : SUBSET Cells,
           head : 0..Size, hasShift : BOOLEAN]

Empty == [pos |-> NoPos, seq |-> {}, shift |-> 0]
IsEmpty(c) == c.pos = NoPos
PosIn(c, p0, p1) == c.pos >= p0 /\ c.pos < p1

\* the entries of the index that cell c accounts for: seq_pos_rm and seq_pos_add go over them
Entries(c) == {<<s, c.pos>> : s \in c.seq}

Least(S) == CHOOSE x \in S : \A y \in S : x <= y
Greatest(S) == CHOOSE x \in S : \A y \in S : y <= x

-----------------------------------------------------------------------------
\* llama_kv_cells, one cell at a time

Effect(cell, dec, inc, freed, filled) ==
    [cell |-> cell, dec |-> dec, inc |-> inc, freed |-> freed, filled |-> filled]

Rm(c) == Effect(Empty, Entries(c), {}, TRUE, FALSE)

\* mutant: a cell without sequences keeps its position
RmSeqKeepsPos(c, s) == Effect([c EXCEPT !.seq = @ \ {s}], {<<s, c.pos>>}, {}, FALSE, FALSE)

RmSeq(c, s) ==
    IF c.seq \ {s} = {} THEN Effect(Empty, {<<s, c.pos>>}, {}, TRUE, FALSE)
                        ELSE Effect([c EXCEPT !.seq = @ \ {s}], {<<s, c.pos>>}, {}, FALSE, FALSE)

\* mutant: the index keeps the sequences that lost the cell
KeepSeqStaleIndex(c, s) ==
    IF s \in c.seq THEN Effect([c EXCEPT !.seq = {s}], {}, {}, FALSE, FALSE)
    ELSE IF c.seq # {} THEN Rm(c)
    ELSE Effect(c, {}, {}, FALSE, FALSE)

KeepSeq(c, s) ==
    IF s \in c.seq THEN Effect([c EXCEPT !.seq = {s}], Entries(c), {<<s, c.pos>>}, FALSE, FALSE)
    ELSE IF c.seq # {} THEN Rm(c)
    ELSE Effect(c, {}, {}, FALSE, FALSE)

AddSeq(c, s) == Effect([c EXCEPT !.seq = @ \cup {s}], {}, {<<s, c.pos>>}, FALSE, FALSE)

\* pos_set on an empty cell, then seq_add for each sequence of the token
Place(c, p, S) == Effect([c EXCEPT !.pos = p, !.seq = S], {}, S \X {p}, FALSE, TRUE)

PosAdd(c, d) ==
    IF c.pos + d < 0 THEN Effect(Empty, Entries(c), {}, TRUE, FALSE)
    ELSE LET moved == [c EXCEPT !.pos = @ + d, !.shift = @ + d]
         IN  Effect(moved, Entries(c), Entries(moved), FALSE, FALSE)

\* the shift grows by the old position minus the new one
PosDiv(c, d) ==
    LET moved == [c EXCEPT !.pos = @ \div d, !.shift = @ + (c.pos - c.pos \div d)]
    IN  Effect(moved, Entries(c), Entries(moved), FALSE, FALSE)

\* mutant: a cell that was empty is not emptied again
SetFromKeepsTrial(c, old) ==
    IF IsEmpty(old) THEN Effect(c, {}, {}, FALSE, FALSE)
    ELSE Effect([c EXCEPT !.pos = old.pos, !.seq = old.seq],
                IF IsEmpty(c) THEN {} ELSE Entries(c), Entries(old), FALSE, IsEmpty(c))

\* set(): the position and the sequences of a copy; the copy (cp) has no shift and set leaves it alone
SetFrom(c, old) ==
    Effect([c EXCEPT !.pos = old.pos, !.seq = old.seq],
           IF IsEmpty(c) THEN {} ELSE Entries(c),
           IF IsEmpty(old) THEN {} ELSE Entries(old),
           ~IsEmpty(c) /\ IsEmpty(old), IsEmpty(c) /\ ~IsEmpty(old))

\* a loop over the cells in DOMAIN eff
Apply(kv, eff) ==
    LET J == DOMAIN eff IN
    [kv EXCEPT
        !.cells = [i \in Cells |-> IF i \in J THEN eff[i].cell ELSE kv.cells[i]],
        !.index = [e \in Seqs \X Pos |-> kv.index[e] - Cardinality({i \in J : e \in eff[i].dec})
                                                     + Cardinality({i \in J : e \in eff[i].inc})],
        !.used = (@ \ {i \in J : eff[i].freed}) \cup {i \in J : eff[i].filled}]

Freed(eff) == {i \in DOMAIN eff : eff[i].freed}

-----------------------------------------------------------------------------
\* what the cells tell: seq_pos_min, seq_pos_max (from the index), -1 when the sequence is absent

Present(kv, s) == {p \in Pos : kv.index[<<s, p>>] > 0}
SeqPosMin(kv, s) == IF Present(kv, s) = {} THEN NoPos ELSE Least(Present(kv, s))
SeqPosMax(kv, s) == IF Present(kv, s) = {} THEN NoPos ELSE Greatest(Present(kv, s))

\* every position between the minimum and the maximum of the sequence is present
PositionsOf(cells, s) == {cells[i].pos : i \in {j \in Cells : s \in cells[j].seq}}
Dense(cells, s) ==
    \A p, q \in PositionsOf(cells, s) : p..q \subseteq PositionsOf(cells, s)

\* llama_hparams::is_masked_swa: a token at p1 does not attend to one at p0
IsMaskedSwa(p0, p1) ==
    \/ SwaType = "standard" /\ p1 - p0 >= NSwa
    \/ SwaType = "chunked" /\ p0 < (p1 \div NSwa) * NSwa
    \/ SwaType = "symmetric" /\ (p1 - p0 > NSwa \div 2 \/ p0 - p1 > NSwa \div 2)

-----------------------------------------------------------------------------
\* llama_kv_cache, memory API

\* mutant: the head goes before the freed cell
LowerHeadBefore(kv, freed) ==
    IF freed # {} /\ Least(freed) < kv.head THEN [kv EXCEPT !.head = Least(freed) - 1] ELSE kv

\* "If we freed up a slot, set head to it so searching can start there."
LowerHead(kv, freed) ==
    IF freed # {} /\ Least(freed) < kv.head THEN [kv EXCEPT !.head = Least(freed)] ELSE kv

InitKv ==
    [cells |-> [i \in Cells |-> Empty], index |-> [e \in Seqs \X Pos |-> 0], used |-> {},
     head |-> 0, hasShift |-> FALSE]

SeqRm(kv, s, p0, p1) ==
    LET J == {i \in Cells : PosIn(kv.cells[i], p0, p1) /\ s \in kv.cells[i].seq}
        eff == [i \in J |-> RmSeq(kv.cells[i], s)]
    IN  LowerHead(Apply(kv, eff), Freed(eff))

\* seq_id = -1: any sequence
SeqRmAny(kv, p0, p1) ==
    LET J == {i \in Cells : PosIn(kv.cells[i], p0, p1)}
        eff == [i \in J |-> Rm(kv.cells[i])]
    IN  LowerHead(Apply(kv, eff), Freed(eff))

SeqCp(kv, src, dst, p0, p1) ==
    LET J == {i \in Cells : PosIn(kv.cells[i], p0, p1) /\ src \in kv.cells[i].seq}
    IN  Apply(kv, [i \in J |-> AddSeq(kv.cells[i], dst)])

SeqKeep(kv, s) ==
    LET eff == [i \in Cells |-> KeepSeq(kv.cells[i], s)]
    IN  LowerHead(Apply(kv, eff), Freed(eff))

\* "Otherwise we just start the next search from the beginning."
SeqAdd(kv, s, p0, p1, d) ==
    LET J == {i \in Cells : PosIn(kv.cells[i], p0, p1) /\ s \in kv.cells[i].seq}
        eff == [i \in J |-> PosAdd(kv.cells[i], d)]
    IN  [Apply(kv, eff) EXCEPT !.head = IF Freed(eff) # {} THEN Least(Freed(eff)) ELSE 0,
                               !.hasShift = @ \/ J # {}]

SeqDiv(kv, s, p0, p1, d) ==
    LET J == {i \in Cells : PosIn(kv.cells[i], p0, p1) /\ s \in kv.cells[i].seq}
    IN  [Apply(kv, [i \in J |-> PosDiv(kv.cells[i], d)]) EXCEPT !.hasShift = @ \/ J # {}]

ResetShift(kv) ==
    [kv EXCEPT !.cells = [i \in Cells |-> [kv.cells[i] EXCEPT !.shift = 0]], !.hasShift = FALSE]

-----------------------------------------------------------------------------
\* finding a slot and placing a ubatch

\* an empty cell, or one of a single sequence that is masked for that sequence's next token
Usable(kv, i) ==
    LET c == kv.cells[i] IN
    \/ IsEmpty(c)
    \/ \E s \in Seqs : c.seq = {s} /\ IsMaskedSwa(c.pos, SeqPosMax(kv, s) + 1)

\* find_slot, not contiguous: the first n usable cells, going round from the head; the number of the
\* token each of them gets. The search starts at 0 when enough cells before the head are unused. The
\* empty function: no slot.
NoSlot == [i \in {} |-> 0]
FindSlot(kv, n) ==
    LET start == IF kv.head > Cardinality(kv.used) + 2 * n THEN 0 ELSE kv.head
        usable == {i \in Cells : Usable(kv, i)}
        Before(i) == {j \in usable : (j - start) % Size < (i - start) % Size}
        chosen == {i \in usable : Cardinality(Before(i)) < n}
    IN  IF Cardinality(usable) < n THEN NoSlot
        ELSE [i \in chosen |-> Cardinality(Before(i)) + 1]

\* mutant: nothing is purged
PurgeNothing(kv, over) == kv

\* the positions of sequence s, not above the largest one that the slot overwrites, are purged
Purge(kv, over) ==
    LET Gone(i) == {s \in kv.cells[i].seq : \E c \in over : s \in c.seq /\ kv.cells[i].pos <= c.pos}
        J == {i \in Cells : Gone(i) # {}}
        left(i) == kv.cells[i].seq \ Gone(i)
    IN  Apply(kv, [i \in J |->
            Effect(IF left(i) = {} THEN Empty ELSE [kv.cells[i] EXCEPT !.seq = left(i)],
                   Gone(i) \X {kv.cells[i].pos}, {}, left(i) = {}, FALSE)])

\* apply_ubatch: the cells of the slot that are in use are cleared, the tokens placed, the sequences
\* that lost a position purged, and the head moved behind the last token
ApplyUbatch(kv, slot, ubatch) ==
    LET full == {i \in DOMAIN slot : ~IsEmpty(kv.cells[i])}
        cleared == Apply(kv, [i \in full |-> Rm(kv.cells[i])])
        placed == Apply(cleared, [i \in DOMAIN slot |->
                      Place(cleared.cells[i], ubatch[slot[i]].pos, ubatch[slot[i]].seq)])
        last == CHOOSE i \in DOMAIN slot : \A j \in DOMAIN slot : slot[j] <= slot[i]
    IN  [Purge(placed, {kv.cells[i] : i \in full}) EXCEPT !.head = last + 1]

\* prepare(): copy of the cells of a slot, and putting it back
Copy(kv, slot) == [i \in DOMAIN slot |-> [kv.cells[i] EXCEPT !.shift = 0]]
Restore(kv, saved) ==
    [Apply(kv, [i \in DOMAIN saved.cells |-> SetFrom(kv.cells[i], saved.cells[i])])
        EXCEPT !.head = saved.head]

=============================================================================
