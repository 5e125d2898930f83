---------------------------- MODULE KvCacheProofs ----------------------------
(***************************************************************************)
(* For every number of cells, sequences, positions, every window and every *)
(* batch: the index of positions and the set of used cells agree with the  *)
(* cells, and no cell is left with a position and without a sequence. Then *)
(* what prepare leaves behind, and that the real placements fit.           *)
(*                                                                         *)
(* Good is the invariant of one kv record. CountLemma is the arithmetic of *)
(* the index; ApplyGood says that a loop over any cells preserves Good when*)
(* the effect on each of them is coherent: what it decrements and          *)
(* increments is the difference between the entries of the old and of the  *)
(* new cell. Each operation of llama_kv_cells is coherent, each function of*)
(* llama_kv_cache is one Apply or a composition of them.                   *)
(***************************************************************************)
EXTENDS KvCache, TLAPS, FiniteSetTheorems, WellFoundedInduction

Owned(c) == IsEmpty(c) <=> c.seq = {}
Count(cells, e) == Cardinality({i \in Cells : e \in Entries(cells[i])})

Good(k) ==
    /\ k \in KvType
    /\ \A i \in Cells : Owned(k.cells[i])
    /\ \A e \in Seqs \X Pos : k.index[e] = Count(k.cells, e)
    /\ k.used = {i \in Cells : ~IsEmpty(k.cells[i])}

Coherent(c, eff) ==
    /\ eff.cell \in Cell
    /\ Owned(eff.cell)
    /\ eff.dec \subseteq Entries(c)
    /\ eff.inc \cap (Entries(c) \ eff.dec) = {}
    /\ Entries(eff.cell) = (Entries(c) \ eff.dec) \cup eff.inc
    /\ ~IsEmpty(eff.cell) <=> (~IsEmpty(c) /\ ~eff.freed) \/ eff.filled

-----------------------------------------------------------------------------
\* Finite sets and numbers

LEMMA CellsFinite == IsFiniteSet(Cells)
  BY FS_Interval, SizeAssumption DEF Cells

\* taking D out of A and putting G in changes the size of A by as much
LEMMA CountLemma ==
    ASSUME NEW S, IsFiniteSet(S), NEW A \in SUBSET S, NEW D \in SUBSET A, NEW G \in SUBSET S,
           G \cap (A \ D) = {}
    PROVE  Cardinality((A \ D) \cup G) = Cardinality(A) - Cardinality(D) + Cardinality(G)
<1>1. IsFiniteSet(A) /\ IsFiniteSet(D) /\ IsFiniteSet(G) /\ IsFiniteSet(A \ D)
  BY FS_Subset
<1>2. Cardinality(A) \in Nat /\ Cardinality(D) \in Nat /\ Cardinality(G) \in Nat
        /\ Cardinality(A \ D) \in Nat
  BY <1>1, FS_CardinalityType
<1>3. Cardinality(A \ D) = Cardinality(A) - Cardinality(A \cap D)
  BY <1>1, FS_Difference
<1>4. Cardinality(A \cap D) = Cardinality(D)
  <2>1. A \cap D = D
    OBVIOUS
  <2> QED
    BY <2>1, Zenon
<1>5. Cardinality((A \ D) \cup G)
        = Cardinality(A \ D) + Cardinality(G) - Cardinality((A \ D) \cap G)
  BY <1>1, FS_Union
<1>6. Cardinality((A \ D) \cap G) = 0
  <2>1. (A \ D) \cap G = {}
    OBVIOUS
  <2> QED
    BY <2>1, FS_EmptySet, Zenon
<1> DEFINE cA == Cardinality(A)  cD == Cardinality(D)  cG == Cardinality(G)
           cR == Cardinality(A \ D)  cU == Cardinality((A \ D) \cup G)
<1>7. cA \in Nat /\ cD \in Nat /\ cG \in Nat /\ cR = cA - cD /\ cU = cR + cG - 0
  BY <1>2, <1>3, <1>4, <1>5, <1>6, Zenon
<1> HIDE DEF cA, cD, cG, cR, cU
<1>8. cU = cA - cD + cG
  BY <1>7
<1> QED
  BY <1>8, Zenon DEF cA, cD, cG, cU

\* a nonempty set of numbers up to n has a least element: the sets {y \in S : y <= x} have a minimal one
LEMMA LeastExists ==
    ASSUME NEW n \in Nat, NEW S \in SUBSET (0..n), S # {}
    PROVE  Least(S) \in S /\ \A y \in S : Least(S) <= y
<1> DEFINE Below(x) == {y \in S : y <= x}
           T == {Below(x) : x \in S}
<1>1. IsFiniteSet(S)
  <2>1. IsFiniteSet(0..n)
    BY FS_Interval
  <2> QED
    BY <2>1, FS_Subset
<1>2. T \subseteq FiniteSubsetsOf(S) /\ T # {}
  <2>1. \A x \in S : IsFiniteSet(Below(x)) /\ Below(x) \subseteq S
    BY <1>1, FS_Subset
  <2> QED
    BY <2>1 DEF FiniteSubsetsOf
<1>3. PICK B \in T : \A C \in T : ~ (<<C, B>> \in StrictSubsetOrdering(S))
  <2>1. IsWellFoundedOn(StrictSubsetOrdering(S), FiniteSubsetsOf(S))
    BY FS_StrictSubsetOrderingWellFounded
  <2> HIDE DEF T
  <2> QED
    BY <1>2, <2>1, WFMin
<1>4. PICK x \in S : B = Below(x)
  BY <1>3
<1>5. \A y \in S : x <= y
  <2>1. SUFFICES ASSUME NEW y \in S, ~ (x <= y) PROVE FALSE
    OBVIOUS
  <2>2. x \in Nat /\ y \in Nat /\ y < x
    BY <2>1
  <2>3. \A z \in S : z <= y => z <= x
    <3>1. S \subseteq Int
      OBVIOUS
    <3> QED
      BY <2>2, <3>1
  <2>4. x <= x /\ ~ (x <= y)
    BY <2>2
  <2>5. Below(y) \subseteq Below(x) /\ x \in Below(x) /\ x \notin Below(y)
    BY <2>3, <2>4
  <2>6. Below(y) \in T
    OBVIOUS
  <2>7. <<Below(y), Below(x)>> \in StrictSubsetOrdering(S)
    BY <2>5 DEF StrictSubsetOrdering
  <2> QED
    BY <1>3, <1>4, <2>6, <2>7
<1> QED
  BY <1>4, <1>5 DEF Least

\* a nonempty set of numbers up to n has a greatest one: n minus the least of the differences
LEMMA GreatestExists ==
    ASSUME NEW n \in Nat, NEW S \in SUBSET (0..n), S # {}
    PROVE  \E x \in S : \A y \in S : y <= x
<1> DEFINE T == {n - y : y \in S}
<1>1. T \in SUBSET (0..n) /\ T # {}
  OBVIOUS
<1>2. Least(T) \in T /\ \A m \in T : Least(T) <= m
  <2> HIDE DEF T
  <2> QED
    BY <1>1, LeastExists
<1>3. PICK x \in S : Least(T) = n - x
  BY <1>2
<1>4. \A y \in S : y <= x
  <2>1. TAKE y \in S
  <2>2. n - y \in T
    OBVIOUS
  <2>3. n - x <= n - y
    BY <1>2, <1>3, <2>2
  <2>4. x \in Nat /\ y \in Nat
    OBVIOUS
  <2> HIDE DEF T
  <2> QED
    BY <2>3, <2>4
<1> QED
  BY <1>4

-----------------------------------------------------------------------------
\* A loop of coherent effects

LEMMA ApplyGood ==
    ASSUME NEW k, Good(k), NEW J \in SUBSET Cells, NEW eff, DOMAIN eff = J,
           \A i \in J : Coherent(k.cells[i], eff[i])
    PROVE  Good(Apply(k, eff))
<1> DEFINE new == Apply(k, eff)
<1>1. /\ new.cells = [i \in Cells |-> IF i \in J THEN eff[i].cell ELSE k.cells[i]]
      /\ new.used = (k.used \ {i \in J : eff[i].freed}) \cup {i \in J : eff[i].filled}
      /\ new.head = k.head /\ new.hasShift = k.hasShift
      /\ \A e \in Seqs \X Pos :
            new.index[e] = k.index[e] - Cardinality({i \in J : e \in eff[i].dec})
                                      + Cardinality({i \in J : e \in eff[i].inc})
  BY Zenon DEF Apply, Good, KvType
<1>0. new.index = [e \in Seqs \X Pos |-> new.index[e]]
  BY Zenon DEF Apply, Good, KvType
<1>2. new \in [cells : {new.cells}, index : {new.index}, used : {new.used},
               head : {k.head}, hasShift : {k.hasShift}]
  BY DEF Apply, Good, KvType
<1>3. \A i \in Cells : k.cells[i] \in Cell /\ Owned(k.cells[i])
  BY DEF Good, KvType
<1> HIDE DEF new
<1>4. \A i \in Cells : /\ new.cells[i] = IF i \in J THEN eff[i].cell ELSE k.cells[i]
                       /\ new.cells[i] \in Cell
                       /\ Owned(new.cells[i])
  BY <1>1, <1>3 DEF Coherent
<1>5. ASSUME NEW e \in Seqs \X Pos
      PROVE  new.index[e] = Count(new.cells, e) /\ new.index[e] \in Int
  <2> DEFINE A == {i \in Cells : e \in Entries(k.cells[i])}
             D == {i \in J : e \in eff[i].dec}
             G == {i \in J : e \in eff[i].inc}
             B == {i \in Cells : e \in Entries(new.cells[i])}
  <2>1. D \subseteq A /\ G \subseteq Cells /\ G \cap (A \ D) = {}
    BY DEF Coherent
  <2>2. B = (A \ D) \cup G
    <3>1. ASSUME NEW i \in J PROVE i \in B <=> i \in (A \ D) \cup G
      BY <1>4 DEF Coherent
    <3>2. ASSUME NEW i \in Cells \ J PROVE i \in B <=> i \in (A \ D) \cup G
      BY <1>4
    <3> QED
      BY <3>1, <3>2
  <2>3. k.index[e] = Cardinality(A)
    BY DEF Good, Count
  <2>4. A \subseteq Cells
    OBVIOUS
  <2>5. new.index[e] = k.index[e] - Cardinality(D) + Cardinality(G)
    BY <1>1
  <2>6. Count(new.cells, e) = Cardinality(B)
    BY DEF Count
  <2> HIDE DEF A, B, D, G
  <2>7. Cardinality((A \ D) \cup G) = Cardinality(A) - Cardinality(D) + Cardinality(G)
    BY <2>1, <2>4, CellsFinite, CountLemma
  <2>8. IsFiniteSet(B)
    <3>1. B \subseteq Cells
      BY DEF B
    <3> QED
      BY <3>1, CellsFinite, FS_Subset
  <2>9. Cardinality(B) \in Nat
    BY <2>8, FS_CardinalityType
  <2>10. new.index[e] = Cardinality(B)
    BY <2>2, <2>3, <2>5, <2>7, Zenon
  <2> QED
    BY <2>6, <2>9, <2>10
<1>6. new.used = {i \in Cells : ~IsEmpty(new.cells[i])}
  <2>1. k.used = {i \in Cells : ~IsEmpty(k.cells[i])}
    BY DEF Good
  <2>2. ASSUME NEW i \in J PROVE i \in new.used <=> ~IsEmpty(new.cells[i])
    BY <1>1, <1>4, <2>1 DEF Coherent
  <2>3. ASSUME NEW i \in Cells \ J PROVE i \in new.used <=> ~IsEmpty(new.cells[i])
    BY <1>1, <1>4, <2>1
  <2>4. new.used \subseteq Cells
    BY <1>1, <2>1
  <2> QED
    BY <2>2, <2>3, <2>4
<1>7. new \in KvType
  <2>1. new.cells \in [Cells -> Cell]
    BY <1>1, <1>4
  <2>2. new.index \in [Seqs \X Pos -> Int]
    <3>1. \A e \in Seqs \X Pos : new.index[e] \in Int
      BY <1>5
    <3>2. new.index = [e \in Seqs \X Pos |-> new.index[e]]
      BY <1>0
    <3> QED
      BY <3>1, <3>2
  <2>3. new.used \subseteq Cells
    BY <1>6
  <2>4. k.head \in 0..Size /\ k.hasShift \in BOOLEAN
    BY DEF Good, KvType
  <2> QED
    BY <1>2, <2>1, <2>2, <2>3, <2>4 DEF KvType
<1> QED
  BY <1>4, <1>5, <1>6, <1>7 DEF Good, new

-----------------------------------------------------------------------------
\* The operations of llama_kv_cells are coherent

LEMMA EmptyCell == Empty \in Cell /\ Owned(Empty) /\ IsEmpty(Empty) /\ Entries(Empty) = {}
  BY DEF Empty, Cell, Owned, IsEmpty, Entries, NoPos

LEMMA RmCoherent ==
    ASSUME NEW c \in Cell, Owned(c)
    PROVE  Coherent(c, Rm(c))
  BY EmptyCell DEF Coherent, Rm, Effect

\* the sequences G of a cell leave it
Leave(c, G) ==
    Effect(IF c.seq \ G = {} THEN Empty ELSE [c EXCEPT !.seq = c.seq \ G],
           G \X {c.pos}, {}, c.seq \ G = {}, FALSE)

LEMMA LeaveCoherent ==
    ASSUME NEW c \in Cell, Owned(c), NEW G \in SUBSET c.seq, G # {}
    PROVE  Coherent(c, Leave(c, G))
<1>1. ~IsEmpty(c)
  BY DEF Owned
<1>2. G \X {c.pos} \subseteq Entries(c)
  BY DEF Entries
<1>3. CASE c.seq \ G = {}
  <2>1. Entries(c) \ (G \X {c.pos}) = {}
    BY <1>3 DEF Entries
  <2> QED
    BY <1>2, <1>3, <2>1, EmptyCell DEF Coherent, Leave, Effect
<1>4. CASE c.seq \ G # {}
  <2> DEFINE n == [c EXCEPT !.seq = c.seq \ G]
  <2>1. n \in Cell /\ n.pos = c.pos /\ n.seq = c.seq \ G
    BY DEF Cell
  <2>2. Owned(n) /\ ~IsEmpty(n)
    BY <1>1, <1>4, <2>1 DEF Owned, IsEmpty
  <2>3. Entries(n) = Entries(c) \ (G \X {c.pos})
    BY <2>1 DEF Entries
  <2> HIDE DEF n
  <2>4. Leave(c, G) = Effect(n, G \X {c.pos}, {}, FALSE, FALSE)
    BY <1>4 DEF Leave, n
  <2> QED
    BY <1>1, <1>2, <2>1, <2>2, <2>3, <2>4 DEF Coherent, Effect
<1> QED
  BY <1>3, <1>4

LEMMA RmSeqCoherent ==
    ASSUME NEW c \in Cell, Owned(c), NEW s \in c.seq
    PROVE  Coherent(c, RmSeq(c, s))
<1>1. RmSeq(c, s) = Leave(c, {s})
  <2>1. {<<s, c.pos>>} = {s} \X {c.pos}
    OBVIOUS
  <2>2. [c EXCEPT !.seq = @ \ {s}] = [c EXCEPT !.seq = c.seq \ {s}]
    OBVIOUS
  <2> QED
    BY <2>1, <2>2 DEF RmSeq, Leave, Effect
<1> QED
  BY <1>1, LeaveCoherent

LEMMA KeepSeqCoherent ==
    ASSUME NEW c \in Cell, Owned(c), NEW s \in Seqs
    PROVE  Coherent(c, KeepSeq(c, s))
<1>1. CASE s \in c.seq
  <2> DEFINE n == [c EXCEPT !.seq = {s}]
  <2>1. n \in Cell /\ n.pos = c.pos /\ n.seq = {s}
    BY DEF Cell
  <2>2. Owned(n) /\ ~IsEmpty(n) /\ ~IsEmpty(c)
    BY <1>1, <2>1 DEF Owned, IsEmpty
  <2>3. Entries(n) = {<<s, c.pos>>}
    BY <2>1 DEF Entries
  <2> HIDE DEF n
  <2>4. KeepSeq(c, s) = Effect(n, Entries(c), {<<s, c.pos>>}, FALSE, FALSE)
    BY <1>1 DEF KeepSeq, n
  <2> QED
    BY <2>1, <2>2, <2>3, <2>4 DEF Coherent, Effect
<1>2. CASE s \notin c.seq /\ c.seq # {}
  BY <1>2, RmCoherent DEF KeepSeq
<1>3. CASE c.seq = {}
  BY <1>3 DEF KeepSeq, Coherent, Effect, Entries
<1> QED
  BY <1>1, <1>2, <1>3

LEMMA AddSeqCoherent ==
    ASSUME NEW c \in Cell, Owned(c), ~IsEmpty(c), NEW s \in Seqs, s \notin c.seq
    PROVE  Coherent(c, AddSeq(c, s))
<1> DEFINE n == [c EXCEPT !.seq = @ \cup {s}]
<1>1. n \in Cell /\ n.pos = c.pos /\ n.seq = c.seq \cup {s}
  BY DEF Cell
<1>2. Owned(n) /\ ~IsEmpty(n)
  BY <1>1 DEF Owned, IsEmpty
<1>3. Entries(n) = Entries(c) \cup {<<s, c.pos>>} /\ <<s, c.pos>> \notin Entries(c)
  BY <1>1 DEF Entries
<1> HIDE DEF n
<1>4. AddSeq(c, s) = Effect(n, {}, {<<s, c.pos>>}, FALSE, FALSE)
  BY DEF AddSeq, n
<1> QED
  BY <1>1, <1>2, <1>3, <1>4 DEF Coherent, Effect

LEMMA PlaceCoherent ==
    ASSUME NEW c \in Cell, Owned(c), IsEmpty(c), NEW p \in Pos, NEW S \in SUBSET Seqs, S # {}
    PROVE  Coherent(c, Place(c, p, S))
<1> DEFINE n == [c EXCEPT !.pos = p, !.seq = S]
<1>1. n \in Cell /\ n.pos = p /\ n.seq = S
  BY DEF Cell
<1>2. Owned(n) /\ ~IsEmpty(n)
  BY <1>1, MaxPosAssumption DEF Owned, IsEmpty, NoPos, Pos
<1>3. Entries(n) = S \X {p} /\ Entries(c) = {}
  BY <1>1 DEF Entries, Owned
<1> HIDE DEF n
<1>4. Place(c, p, S) = Effect(n, {}, S \X {p}, FALSE, TRUE)
  BY DEF Place, n
<1> QED
  BY <1>1, <1>2, <1>3, <1>4 DEF Coherent, Effect

\* a cell that keeps its sequences and moves to position p
LEMMA MoveCoherent ==
    ASSUME NEW c \in Cell, Owned(c), ~IsEmpty(c), NEW p \in Pos, NEW d \in Int,
           NEW n, n = [c EXCEPT !.pos = p, !.shift = d]
    PROVE  Coherent(c, Effect(n, Entries(c), Entries(n), FALSE, FALSE))
<1>1. n \in Cell /\ n.pos = p /\ n.seq = c.seq
  BY DEF Cell
<1>2. Owned(n) /\ ~IsEmpty(n)
  BY <1>1, MaxPosAssumption DEF Owned, IsEmpty, NoPos, Pos
<1> QED
  BY <1>1, <1>2 DEF Coherent, Effect

LEMMA PosAddCoherent ==
    ASSUME NEW c \in Cell, Owned(c), ~IsEmpty(c), NEW d \in Int, c.pos + d <= MaxPos
    PROVE  Coherent(c, PosAdd(c, d))
<1>1. CASE c.pos + d < 0
  BY <1>1, RmCoherent DEF PosAdd, Rm
<1>2. CASE ~(c.pos + d < 0)
  <2>1. c.pos + d \in Pos /\ c.shift + d \in Int
    BY <1>2, MaxPosAssumption DEF Cell, Pos, NoPos
  <2> DEFINE n == [c EXCEPT !.pos = c.pos + d, !.shift = c.shift + d]
  <2>2. Coherent(c, Effect(n, Entries(c), Entries(n), FALSE, FALSE))
    BY <2>1, MoveCoherent
  <2>3. n = [c EXCEPT !.pos = @ + d, !.shift = @ + d]
    OBVIOUS
  <2> HIDE DEF n
  <2>4. PosAdd(c, d) = Effect(n, Entries(c), Entries(n), FALSE, FALSE)
    BY <1>2, <2>3 DEF PosAdd
  <2> QED
    BY <2>2, <2>4
<1> QED
  BY <1>1, <1>2

LEMMA PosDivCoherent ==
    ASSUME NEW c \in Cell, Owned(c), ~IsEmpty(c), NEW d \in Nat \ {0}
    PROVE  Coherent(c, PosDiv(c, d))
<1>1. c.pos \in Nat /\ c.pos <= MaxPos /\ c.shift \in Int
  BY MaxPosAssumption DEF Cell, IsEmpty, Pos, NoPos
<1>2. c.pos \div d \in Nat /\ c.pos \div d <= c.pos
  BY <1>1
<1>3. c.pos \div d \in Pos /\ c.shift + (c.pos - c.pos \div d) \in Int
  BY <1>1, <1>2, MaxPosAssumption DEF Pos
<1> DEFINE n == [c EXCEPT !.pos = c.pos \div d, !.shift = c.shift + (c.pos - c.pos \div d)]
<1>4. Coherent(c, Effect(n, Entries(c), Entries(n), FALSE, FALSE))
  BY <1>3, MoveCoherent
<1>5. n = [c EXCEPT !.pos = @ \div d, !.shift = @ + (c.pos - c.pos \div d)]
  OBVIOUS
<1> HIDE DEF n
<1>6. PosDiv(c, d) = Effect(n, Entries(c), Entries(n), FALSE, FALSE)
  BY <1>5 DEF PosDiv
<1> QED
  BY <1>4, <1>6

LEMMA SetFromCoherent ==
    ASSUME NEW c \in Cell, Owned(c), NEW old \in Cell, Owned(old)
    PROVE  Coherent(c, SetFrom(c, old))
<1> DEFINE n == [c EXCEPT !.pos = old.pos, !.seq = old.seq]
<1>1. n \in Cell /\ n.pos = old.pos /\ n.seq = old.seq
  BY DEF Cell
<1>2. Owned(n) /\ (IsEmpty(n) <=> IsEmpty(old)) /\ Entries(n) = Entries(old)
  BY <1>1 DEF Owned, IsEmpty, Entries
<1>3. (IsEmpty(c) => Entries(c) = {}) /\ (IsEmpty(old) => Entries(old) = {})
  BY DEF Owned, Entries
<1> HIDE DEF n
<1>4. SetFrom(c, old) = Effect(n, Entries(c), Entries(old),
                               ~IsEmpty(c) /\ IsEmpty(old), IsEmpty(c) /\ ~IsEmpty(old))
  BY <1>3 DEF SetFrom, n
<1> DEFINE e == SetFrom(c, old)
<1>5. e.cell = n /\ e.dec = Entries(c) /\ e.inc = Entries(n)
        /\ e.freed = (~IsEmpty(c) /\ IsEmpty(old)) /\ e.filled = (IsEmpty(c) /\ ~IsEmpty(old))
  BY <1>2, <1>4 DEF Effect
<1> HIDE DEF e
<1>6. ~IsEmpty(n) <=> (~IsEmpty(c) /\ ~e.freed) \/ e.filled
  BY <1>2, <1>5
<1>7. Coherent(c, e)
  BY <1>1, <1>2, <1>5, <1>6 DEF Coherent
<1> QED
  BY <1>7 DEF e

-----------------------------------------------------------------------------
\* The functions of llama_kv_cache preserve Good

LEMMA GoodCell ==
    ASSUME NEW k, Good(k), NEW i \in Cells
    PROVE  k.cells[i] \in Cell /\ Owned(k.cells[i])
  BY DEF Good, KvType

\* a new head and a new flag
LEMMA HeadGood ==
    ASSUME NEW k, Good(k), NEW h \in 0..Size, NEW f \in BOOLEAN
    PROVE  Good([k EXCEPT !.head = h, !.hasShift = f])
  BY DEF Good, KvType

LEMMA LowerHeadGood ==
    ASSUME NEW k, Good(k), NEW F \in SUBSET Cells
    PROVE  Good(LowerHead(k, F))
<1>1. ASSUME F # {} PROVE Least(F) \in 0..Size
  <2>1. F \in SUBSET (0..Size) /\ Size \in Nat
    BY SizeAssumption DEF Cells
  <2> QED
    BY <1>1, <2>1, LeastExists
<1>2. CASE F # {} /\ Least(F) < k.head
  <2>1. LowerHead(k, F) = [k EXCEPT !.head = Least(F), !.hasShift = k.hasShift]
    BY <1>2 DEF LowerHead, Good, KvType
  <2>2. k.hasShift \in BOOLEAN
    BY DEF Good, KvType
  <2>3. Least(F) \in 0..Size
    BY <1>1, <1>2
  <2>4. Good([k EXCEPT !.head = Least(F), !.hasShift = k.hasShift])
    BY <2>2, <2>3, HeadGood
  <2> QED
    BY <2>1, <2>4, Zenon
<1>3. CASE ~(F # {} /\ Least(F) < k.head)
  BY <1>3 DEF LowerHead
<1> QED
  BY <1>2, <1>3

LEMMA FreedInCells ==
    ASSUME NEW J \in SUBSET Cells, NEW eff, DOMAIN eff = J
    PROVE  Freed(eff) \in SUBSET Cells
  BY DEF Freed

LEMMA SeqRmGood ==
    ASSUME NEW k, Good(k), NEW s \in Seqs, NEW p0, NEW p1
    PROVE  Good(SeqRm(k, s, p0, p1))
<1> DEFINE J == {i \in Cells : PosIn(k.cells[i], p0, p1) /\ s \in k.cells[i].seq}
           eff == [i \in J |-> RmSeq(k.cells[i], s)]
<1>1. J \in SUBSET Cells /\ DOMAIN eff = J
  OBVIOUS
<1>2. \A i \in J : Coherent(k.cells[i], eff[i])
  BY GoodCell, RmSeqCoherent
<1>3. SeqRm(k, s, p0, p1) = LowerHead(Apply(k, eff), Freed(eff))
  BY DEF SeqRm
<1> HIDE DEF J, eff
<1> QED
  BY <1>1, <1>2, <1>3, ApplyGood, FreedInCells, LowerHeadGood

LEMMA SeqRmAnyGood ==
    ASSUME NEW k, Good(k), NEW p0, NEW p1
    PROVE  Good(SeqRmAny(k, p0, p1))
<1> DEFINE J == {i \in Cells : PosIn(k.cells[i], p0, p1)}
           eff == [i \in J |-> Rm(k.cells[i])]
<1>1. J \in SUBSET Cells /\ DOMAIN eff = J
  OBVIOUS
<1>2. \A i \in J : Coherent(k.cells[i], eff[i])
  BY GoodCell, RmCoherent
<1>3. SeqRmAny(k, p0, p1) = LowerHead(Apply(k, eff), Freed(eff))
  BY DEF SeqRmAny
<1> HIDE DEF J, eff
<1> QED
  BY <1>1, <1>2, <1>3, ApplyGood, FreedInCells, LowerHeadGood

\* a sequence that the index does not know owns no cell
LEMMA AbsentOwnsNothing ==
    ASSUME NEW k, Good(k), NEW s \in Seqs, Present(k, s) = {}, NEW i \in Cells
    PROVE  s \notin k.cells[i].seq
<1> SUFFICES ASSUME s \in k.cells[i].seq PROVE FALSE
  OBVIOUS
<1>1. k.cells[i] \in Cell /\ k.cells[i].pos \in Pos
  BY GoodCell DEF Cell, Owned, IsEmpty
<1> DEFINE e == <<s, k.cells[i].pos>>
           A == {j \in Cells : e \in Entries(k.cells[j])}
<1>2. i \in A
  BY DEF Entries
<1>3. k.index[e] = Cardinality(A)
  BY <1>1 DEF Good, Count
<1>4. IsFiniteSet(A)
  BY CellsFinite, FS_Subset
<1>5. Cardinality(A) \in Nat /\ Cardinality(A) # 0
  BY <1>2, <1>4, FS_CardinalityType, FS_EmptySet
<1>6. ~(k.index[e] > 0)
  BY <1>1 DEF Present
<1> QED
  BY <1>3, <1>5, <1>6

LEMMA SeqCpGood ==
    ASSUME NEW k, Good(k), NEW src \in Seqs, NEW dst \in Seqs, NEW p0, NEW p1,
           Present(k, dst) = {}
    PROVE  Good(SeqCp(k, src, dst, p0, p1))
<1> DEFINE J == {i \in Cells : PosIn(k.cells[i], p0, p1) /\ src \in k.cells[i].seq}
           eff == [i \in J |-> AddSeq(k.cells[i], dst)]
<1>1. J \in SUBSET Cells /\ DOMAIN eff = J
  OBVIOUS
<1>2. ASSUME NEW i \in J PROVE Coherent(k.cells[i], eff[i])
  <2>1. k.cells[i] \in Cell /\ Owned(k.cells[i]) /\ ~IsEmpty(k.cells[i])
    BY GoodCell DEF Owned
  <2>2. dst \notin k.cells[i].seq
    BY AbsentOwnsNothing
  <2> QED
    BY <2>1, <2>2, AddSeqCoherent
<1>3. SeqCp(k, src, dst, p0, p1) = Apply(k, eff)
  BY DEF SeqCp
<1> HIDE DEF J, eff
<1> QED
  BY <1>1, <1>2, <1>3, ApplyGood

LEMMA SeqKeepGood ==
    ASSUME NEW k, Good(k), NEW s \in Seqs
    PROVE  Good(SeqKeep(k, s))
<1> DEFINE eff == [i \in Cells |-> KeepSeq(k.cells[i], s)]
<1>1. DOMAIN eff = Cells /\ \A i \in Cells : Coherent(k.cells[i], eff[i])
  BY GoodCell, KeepSeqCoherent
<1>2. SeqKeep(k, s) = LowerHead(Apply(k, eff), Freed(eff))
  BY DEF SeqKeep
<1> HIDE DEF eff
<1> QED
  BY <1>1, <1>2, ApplyGood, FreedInCells, LowerHeadGood

LEMMA SeqAddGood ==
    ASSUME NEW k, Good(k), NEW s \in Seqs, NEW p0, NEW p1, NEW d \in Int,
           \A i \in Cells : PosIn(k.cells[i], p0, p1) /\ s \in k.cells[i].seq
                             => k.cells[i].pos + d <= MaxPos
    PROVE  Good(SeqAdd(k, s, p0, p1, d))
<1> DEFINE J == {i \in Cells : PosIn(k.cells[i], p0, p1) /\ s \in k.cells[i].seq}
           eff == [i \in J |-> PosAdd(k.cells[i], d)]
           h == IF Freed(eff) # {} THEN Least(Freed(eff)) ELSE 0
           f == k.hasShift \/ J # {}
<1>1. J \in SUBSET Cells /\ DOMAIN eff = J
  OBVIOUS
<1>2. ASSUME NEW i \in J PROVE Coherent(k.cells[i], eff[i])
  <2>1. k.cells[i] \in Cell /\ Owned(k.cells[i]) /\ ~IsEmpty(k.cells[i])
    BY GoodCell DEF Owned
  <2> QED
    BY <2>1, PosAddCoherent
<1>3. Apply(k, eff).hasShift = k.hasShift
  BY DEF Apply, Good, KvType
<1>4. SeqAdd(k, s, p0, p1, d) = [Apply(k, eff) EXCEPT !.head = h, !.hasShift = f]
  BY <1>3 DEF SeqAdd
<1>5. f \in BOOLEAN
  OBVIOUS
<1>6. Freed(eff) \in SUBSET Cells
  <2> HIDE DEF J, eff
  <2> QED
    BY <1>1, FreedInCells
<1>7. h \in 0..Size
  <2> HIDE DEF J, eff
  <2>1. Freed(eff) \in SUBSET (0..Size) /\ Size \in Nat
    BY <1>6, SizeAssumption DEF Cells
  <2>2. Freed(eff) # {} => Least(Freed(eff)) \in Freed(eff)
    BY <2>1, LeastExists
  <2>3. Freed(eff) # {} => Least(Freed(eff)) \in 0..Size
    BY <2>1, <2>2
  <2> QED
    BY <2>1, <2>3
<1> HIDE DEF J, eff, h, f
<1>8. Good(Apply(k, eff))
  BY <1>1, <1>2, ApplyGood
<1>9. Good([Apply(k, eff) EXCEPT !.head = h, !.hasShift = f])
  BY <1>5, <1>7, <1>8, HeadGood
<1> QED
  BY <1>4, <1>9, Zenon

LEMMA SeqDivGood ==
    ASSUME NEW k, Good(k), NEW s \in Seqs, NEW p0, NEW p1, NEW d \in Nat \ {0}
    PROVE  Good(SeqDiv(k, s, p0, p1, d))
<1> DEFINE J == {i \in Cells : PosIn(k.cells[i], p0, p1) /\ s \in k.cells[i].seq}
           eff == [i \in J |-> PosDiv(k.cells[i], d)]
           f == k.hasShift \/ J # {}
<1>1. J \in SUBSET Cells /\ DOMAIN eff = J
  OBVIOUS
<1>2. ASSUME NEW i \in J PROVE Coherent(k.cells[i], eff[i])
  <2>1. k.cells[i] \in Cell /\ Owned(k.cells[i]) /\ ~IsEmpty(k.cells[i])
    BY GoodCell DEF Owned
  <2> QED
    BY <2>1, PosDivCoherent
<1>3. Apply(k, eff).hasShift = k.hasShift /\ Apply(k, eff).head = k.head
  BY DEF Apply, Good, KvType
<1>4. f \in BOOLEAN /\ k.head \in 0..Size
  BY DEF Good, KvType
<1>5. SeqDiv(k, s, p0, p1, d) = [Apply(k, eff) EXCEPT !.hasShift = f]
  BY <1>3 DEF SeqDiv
<1> HIDE DEF J, eff, f
<1>6. Good(Apply(k, eff))
  BY <1>1, <1>2, ApplyGood
<1>7. [Apply(k, eff) EXCEPT !.hasShift = f] = [Apply(k, eff) EXCEPT !.head = k.head, !.hasShift = f]
  BY <1>3, <1>6 DEF Good, KvType
<1>8. Good([Apply(k, eff) EXCEPT !.head = k.head, !.hasShift = f])
  BY <1>4, <1>6, HeadGood
<1> QED
  BY <1>5, <1>7, <1>8, Zenon

LEMMA ResetShiftGood ==
    ASSUME NEW k, Good(k)
    PROVE  Good(ResetShift(k))
<1> DEFINE new == ResetShift(k)
<1>1. /\ new.cells = [i \in Cells |-> [k.cells[i] EXCEPT !.shift = 0]]
      /\ new.index = k.index /\ new.used = k.used
  BY DEF ResetShift, Good, KvType
<1>2. \A i \in Cells : /\ new.cells[i] \in Cell
                       /\ new.cells[i].pos = k.cells[i].pos /\ new.cells[i].seq = k.cells[i].seq
  BY <1>1, GoodCell DEF Cell
<1>3. \A i \in Cells : /\ Entries(new.cells[i]) = Entries(k.cells[i])
                       /\ IsEmpty(new.cells[i]) = IsEmpty(k.cells[i])
                       /\ Owned(new.cells[i])
  BY <1>2, GoodCell DEF Entries, IsEmpty, Owned
<1>4. new \in KvType
  BY <1>2, <1>1 DEF ResetShift, Good, KvType
<1> HIDE DEF new
<1>5. \A e : Count(new.cells, e) = Count(k.cells, e)
  <2>1. TAKE e
  <2>2. {i \in Cells : e \in Entries(new.cells[i])} = {i \in Cells : e \in Entries(k.cells[i])}
    BY <1>3
  <2> QED
    BY <2>2, Zenon DEF Count
<1>6. {i \in Cells : ~IsEmpty(new.cells[i])} = {i \in Cells : ~IsEmpty(k.cells[i])}
  BY <1>3
<1> QED
  BY <1>1, <1>3, <1>4, <1>5, <1>6 DEF Good, new

-----------------------------------------------------------------------------
\* Slots and ubatches

ProperToken == [pos : Pos, seq : (SUBSET Seqs) \ {{}}]
ProperUbatches == Seq(Seq(ProperToken) \ {<<>>})

\* the cells of a slot, each with the number of a token of the ubatch
SlotFor(slot, ubatch) ==
    /\ DOMAIN slot \in SUBSET Cells /\ DOMAIN slot # {}
    /\ \A i \in DOMAIN slot : slot[i] \in 1..Len(ubatch)

LEMMA FindSlotRange ==
    ASSUME NEW k, NEW n \in Nat
    PROVE  /\ DOMAIN FindSlot(k, n) \in SUBSET Cells
           /\ \A i \in DOMAIN FindSlot(k, n) : FindSlot(k, n)[i] \in 1..n
<1> DEFINE start == IF k.head > Cardinality(k.used) + 2 * n THEN 0 ELSE k.head
           usable == {i \in Cells : Usable(k, i)}
           Before(i) == {j \in usable : (j - start) % Size < (i - start) % Size}
           chosen == {i \in usable : Cardinality(Before(i)) < n}
           slot == [i \in chosen |-> Cardinality(Before(i)) + 1]
<1>1. FindSlot(k, n) = IF Cardinality(usable) < n THEN NoSlot ELSE slot
  BY DEF FindSlot
<1>2. ASSUME NEW i \in chosen PROVE Cardinality(Before(i)) + 1 \in 1..n
  <2>1. IsFiniteSet(Before(i))
    <3>1. Before(i) \subseteq Cells
      OBVIOUS
    <3> QED
      BY <3>1, CellsFinite, FS_Subset
  <2>2. Cardinality(Before(i)) \in Nat /\ Cardinality(Before(i)) < n
    BY <2>1, FS_CardinalityType
  <2> HIDE DEF Before
  <2> QED
    BY <2>2
<1>3. chosen \in SUBSET Cells
  OBVIOUS
<1>4. DOMAIN slot = chosen /\ \A i \in chosen : slot[i] \in 1..n
  BY <1>2
<1>5. DOMAIN NoSlot = {}
  BY DEF NoSlot
<1> HIDE DEF chosen, slot, usable
<1> QED
  BY <1>1, <1>3, <1>4, <1>5

LEMMA FindSlotType ==
    ASSUME NEW k, NEW n \in Nat
    PROVE  FindSlot(k, n) \in SlotType
<1>1. FindSlot(k, n) = [i \in DOMAIN FindSlot(k, n) |-> FindSlot(k, n)[i]]
  BY DEF FindSlot, NoSlot
<1> DEFINE slot == FindSlot(k, n)
<1>2. DOMAIN slot \in SUBSET Cells /\ \A i \in DOMAIN slot : slot[i] \in Nat
  <2>1. 1..n \subseteq Nat
    OBVIOUS
  <2> QED
    BY <2>1, FindSlotRange
<1>3. slot = [i \in DOMAIN slot |-> slot[i]]
  BY <1>1
<1> HIDE DEF slot
<1>4. slot \in [DOMAIN slot -> Nat]
  BY <1>2, <1>3
<1>5. slot \in SlotType
  BY <1>2, <1>4 DEF SlotType
<1> QED
  BY <1>5 DEF slot

LEMMA PurgeGood ==
    ASSUME NEW k, Good(k), NEW over
    PROVE  Good(Purge(k, over))
<1> DEFINE Gone(i) == {s \in k.cells[i].seq : \E c \in over : s \in c.seq /\ k.cells[i].pos <= c.pos}
           J == {i \in Cells : Gone(i) # {}}
           eff == [i \in J |-> Leave(k.cells[i], Gone(i))]
<1>1. J \in SUBSET Cells /\ DOMAIN eff = J
  OBVIOUS
<1>2. ASSUME NEW i \in J PROVE Coherent(k.cells[i], eff[i])
  <2>1. Gone(i) \in SUBSET k.cells[i].seq /\ Gone(i) # {}
    OBVIOUS
  <2>2. eff[i] = Leave(k.cells[i], Gone(i))
    OBVIOUS
  <2> HIDE DEF Gone
  <2> QED
    BY <2>1, <2>2, GoodCell, LeaveCoherent
<1>3. Purge(k, over) = Apply(k, eff)
  BY DEF Purge, Leave
<1> HIDE DEF J, eff
<1> QED
  BY <1>1, <1>2, <1>3, ApplyGood

LEMMA ApplyUbatchGood ==
    ASSUME NEW k, Good(k), NEW ubatch \in Seq(ProperToken), NEW slot, SlotFor(slot, ubatch)
    PROVE  Good(ApplyUbatch(k, slot, ubatch))
<1> DEFINE full == {i \in DOMAIN slot : ~IsEmpty(k.cells[i])}
           effc == [i \in full |-> Rm(k.cells[i])]
           cleared == Apply(k, effc)
           effp == [i \in DOMAIN slot |->
                       Place(cleared.cells[i], ubatch[slot[i]].pos, ubatch[slot[i]].seq)]
           placed == Apply(cleared, effp)
           over == {k.cells[i] : i \in full}
           last == CHOOSE i \in DOMAIN slot : \A j \in DOMAIN slot : slot[j] <= slot[i]
<1>1. full \in SUBSET Cells /\ DOMAIN effc = full
  BY DEF SlotFor
<1>2. \A i \in full : Coherent(k.cells[i], effc[i])
  BY <1>1, GoodCell, RmCoherent
<1>3. Good(cleared)
  <2> HIDE DEF full, effc
  <2> QED
    BY <1>1, <1>2, ApplyGood
<1>4. \A i \in Cells : cleared.cells[i] = IF i \in full THEN Empty ELSE k.cells[i]
  BY <1>1 DEF Apply, Good, KvType, Rm, Effect
<1>5. \A i \in DOMAIN slot : i \in Cells /\ IsEmpty(cleared.cells[i])
  BY <1>4, EmptyCell DEF SlotFor
<1>6. ASSUME NEW i \in DOMAIN slot
      PROVE  ubatch[slot[i]].pos \in Pos /\ ubatch[slot[i]].seq \in (SUBSET Seqs) \ {{}}
  <2>1. ubatch[slot[i]] \in ProperToken
    BY DEF SlotFor
  <2> QED
    BY <2>1 DEF ProperToken
<1> HIDE DEF cleared
<1>7. ASSUME NEW i \in DOMAIN slot PROVE Coherent(cleared.cells[i], effp[i])
  <2>1. cleared.cells[i] \in Cell /\ Owned(cleared.cells[i]) /\ IsEmpty(cleared.cells[i])
    BY <1>3, <1>5, GoodCell
  <2> DEFINE p == ubatch[slot[i]].pos
             S == ubatch[slot[i]].seq
  <2>2. effp[i] = Place(cleared.cells[i], p, S)
    OBVIOUS
  <2>3. p \in Pos /\ S \in SUBSET Seqs /\ S # {}
    BY <1>6
  <2> HIDE DEF p, S
  <2>4. Coherent(cleared.cells[i], Place(cleared.cells[i], p, S))
    BY <2>1, <2>3, PlaceCoherent
  <2> QED
    BY <2>2, <2>4, Zenon
<1>8. DOMAIN effp = DOMAIN slot /\ DOMAIN slot \in SUBSET Cells
  BY DEF SlotFor
<1>9. Good(placed)
  <2> HIDE DEF effp
  <2> QED
    BY <1>3, <1>7, <1>8, ApplyGood
<1> HIDE DEF placed
<1>10. Good(Purge(placed, over))
  BY <1>9, PurgeGood
<1>11. last \in DOMAIN slot
  <2> DEFINE V == {slot[i] : i \in DOMAIN slot}
  <2>1. V \in SUBSET (0..Len(ubatch)) /\ V # {} /\ Len(ubatch) \in Nat
    BY DEF SlotFor
  <2>2. \E v \in V : \A w \in V : w <= v
    <3> HIDE DEF V
    <3> QED
      BY <2>1, GreatestExists
  <2>3. \E i \in DOMAIN slot : \A j \in DOMAIN slot : slot[j] <= slot[i]
    BY <2>2
  <2> QED
    BY <2>3
<1>12. last + 1 \in 0..Size
  <2> HIDE DEF last
  <2> QED
    BY <1>8, <1>11, SizeAssumption DEF Cells
<1>13. ApplyUbatch(k, slot, ubatch) = [Purge(placed, over) EXCEPT !.head = last + 1]
  BY DEF ApplyUbatch, placed, cleared
<1> DEFINE new == Purge(placed, over)
<1>14. new.hasShift \in BOOLEAN
         /\ [new EXCEPT !.head = last + 1] = [new EXCEPT !.head = last + 1, !.hasShift = new.hasShift]
  <2>1. new \in KvType
    BY <1>10 DEF Good
  <2> HIDE DEF last, new
  <2> QED
    BY <2>1 DEF KvType
<1>15. Good([new EXCEPT !.head = last + 1, !.hasShift = new.hasShift])
  <2> HIDE DEF last, new
  <2>1. Good(new)
    BY <1>10 DEF new
  <2> QED
    BY <1>12, <1>14, <2>1, HeadGood
<1> QED
  BY <1>13, <1>14, <1>15, Zenon

\* an entry of the recovery stack of prepare
SavedOK(saved) ==
    /\ DOMAIN saved.cells \in SUBSET Cells
    /\ \A i \in DOMAIN saved.cells : saved.cells[i] \in Cell /\ Owned(saved.cells[i])
    /\ saved.head \in 0..Size

LEMMA CopyOK ==
    ASSUME NEW k, Good(k), NEW slot, DOMAIN slot \in SUBSET Cells
    PROVE  /\ SavedOK([cells |-> Copy(k, slot), head |-> k.head])
           /\ [cells |-> Copy(k, slot), head |-> k.head] \in SavedType
<1>1. DOMAIN Copy(k, slot) = DOMAIN slot
  BY DEF Copy
<1>2. ASSUME NEW i \in DOMAIN slot PROVE Copy(k, slot)[i] \in Cell /\ Owned(Copy(k, slot)[i])
  <2>1. k.cells[i] \in Cell /\ Owned(k.cells[i])
    BY GoodCell
  <2>2. Copy(k, slot)[i] = [k.cells[i] EXCEPT !.shift = 0]
    BY DEF Copy
  <2> QED
    BY <2>1, <2>2 DEF Cell, Owned, IsEmpty
<1>3. Copy(k, slot) \in [DOMAIN slot -> Cell]
  BY <1>2 DEF Copy
<1>4. k.head \in 0..Size
  BY DEF Good, KvType
<1> QED
  BY <1>1, <1>2, <1>3, <1>4 DEF SavedOK, SavedType

LEMMA RestoreGood ==
    ASSUME NEW k, Good(k), NEW saved, SavedOK(saved)
    PROVE  Good(Restore(k, saved))
<1> DEFINE J == DOMAIN saved.cells
           eff == [i \in J |-> SetFrom(k.cells[i], saved.cells[i])]
           new == Apply(k, eff)
<1>1. J \in SUBSET Cells /\ DOMAIN eff = J
  BY DEF SavedOK
<1>2. ASSUME NEW i \in J PROVE Coherent(k.cells[i], eff[i])
  BY <1>1, GoodCell, SetFromCoherent DEF SavedOK
<1>3. Good(new)
  <2> HIDE DEF J, eff
  <2> QED
    BY <1>1, <1>2, ApplyGood
<1>4. Restore(k, saved) = [new EXCEPT !.head = saved.head]
  BY DEF Restore
<1> HIDE DEF new
<1>5. new.hasShift \in BOOLEAN
        /\ [new EXCEPT !.head = saved.head] = [new EXCEPT !.head = saved.head, !.hasShift = new.hasShift]
  BY <1>3 DEF Good, KvType
<1>6. Good([new EXCEPT !.head = saved.head, !.hasShift = new.hasShift])
  BY <1>3, <1>5, HeadGood DEF SavedOK
<1> QED
  BY <1>4, <1>5, <1>6, Zenon

LEMMA RemovedGood ==
    ASSUME Good(kv), NEW ubatch
    PROVE  Good(Removed(ubatch))
<1> DEFINE firsts == {FirstSeq(ubatch[k]) : k \in DOMAIN ubatch}
           from == [s \in firsts |->
               Least({ubatch[k].pos : k \in {l \in DOMAIN ubatch : FirstSeq(ubatch[l]) = s}})]
           Gone(i) == {s \in firsts \cap kv.cells[i].seq : kv.cells[i].pos >= from[s]}
           J == {i \in Cells : Gone(i) # {}}
           eff == [i \in J |-> Leave(kv.cells[i], Gone(i))]
<1>1. J \in SUBSET Cells /\ DOMAIN eff = J
  OBVIOUS
<1>2. ASSUME NEW i \in J PROVE Coherent(kv.cells[i], eff[i])
  <2> HIDE DEF from, firsts
  <2>1. Gone(i) \in SUBSET kv.cells[i].seq /\ Gone(i) # {}
    OBVIOUS
  <2>2. eff[i] = Leave(kv.cells[i], Gone(i))
    OBVIOUS
  <2> HIDE DEF Gone
  <2> QED
    BY <2>1, <2>2, GoodCell, LeaveCoherent
<1>3. Removed(ubatch) = LowerHead(Apply(kv, eff), Freed(eff))
  BY DEF Removed, Leave
<1> HIDE DEF J, eff
<1> QED
  BY <1>1, <1>2, <1>3, ApplyGood, FreedInCells, LowerHeadGood

LEMMA InitGood == Good(InitKv)
<1>1. \A i \in Cells : InitKv.cells[i] = Empty
  BY DEF InitKv
<1>2. ASSUME NEW e PROVE Count(InitKv.cells, e) = 0
  <2>1. {i \in Cells : e \in Entries(InitKv.cells[i])} = {}
    BY <1>1, EmptyCell
  <2> QED
    BY <2>1, FS_EmptySet, Zenon DEF Count
<1>3. InitKv \in KvType
  BY EmptyCell, SizeAssumption DEF InitKv, KvType
<1>4. \A e \in Seqs \X Pos : InitKv.index[e] = 0
  BY DEF InitKv
<1>5. InitKv.used = {i \in Cells : ~IsEmpty(InitKv.cells[i])}
  BY <1>1, EmptyCell DEF InitKv
<1> QED
  BY <1>1, <1>2, <1>3, <1>4, <1>5, EmptyCell DEF Good

-----------------------------------------------------------------------------
\* The invariant of llama_decode and of the memory calls

\* what the steps of llama_decode may rely on
JobOK ==
    /\ job.phase \in {"idle", "prepare", "restore", "apply", "compute"}
    /\ job.ubatches \in ProperUbatches
    /\ job.ok \in BOOLEAN
    /\ job.cur \in 1..(Len(job.ubatches) + 1)
    /\ job.slots \in Seq(SlotType) /\ Len(job.slots) <= Len(job.ubatches)
    /\ \A u \in 1..Len(job.slots) : SlotFor(job.slots[u], job.ubatches[u])
    /\ job.saved \in Seq(SavedType) /\ \A l \in 1..Len(job.saved) : SavedOK(job.saved[l])
    /\ job.phase = "prepare" => job.cur = Len(job.slots) + 1
    /\ job.phase \in {"prepare", "restore"} => job.ubatches # <<>>
    /\ job.phase = "restore" /\ job.ok => Len(job.slots) = Len(job.ubatches)
    /\ job.phase \in {"apply", "compute"} =>
          job.cur <= Len(job.ubatches) /\ Len(job.slots) = Len(job.ubatches)

\* the record of the decode in progress keeps its fields
JobShape(j) == j = [phase |-> j.phase, ubatches |-> j.ubatches, slots |-> j.slots,
                    saved |-> j.saved, ok |-> j.ok, cur |-> j.cur]

KvInv ==
    /\ Good(kv)
    /\ row \in [Cells -> Int]
    /\ drifted \subseteq Cells
    /\ trial \in Seq([Cells -> Cell])
    /\ JobShape(job)
    /\ JobOK

LEMMA KvInvImplies == KvInv => TypeOK /\ IndexOK /\ NoLeakedCell
  BY DEF KvInv, JobOK, TypeOK, IndexOK, NoLeakedCell, Good, Count, Owned

LEMMA ForgetType ==
    ASSUME NEW cells, NEW rows, \A i \in Cells : rows[i] \in Int
    PROVE  Forget(cells, rows) \in [Cells -> Int]
  BY DEF Forget, NoPos

LEMMA NoJobOK ==
    ASSUME job' = NoJob
    PROVE  JobOK' /\ JobShape(job')
  BY DEF NoJob, JobOK, JobShape, ProperUbatches

LEMMA KvInvInit == Init => KvInv
<1> SUFFICES ASSUME Init PROVE KvInv
  OBVIOUS
<1>1. JobOK
  BY DEF Init, NoJob, JobOK, ProperUbatches
<1>2. trial \in Seq([Cells -> Cell]) /\ row \in [Cells -> Int]
  BY InitGood DEF Init, Good, KvType, NoPos
<1> QED
  BY <1>1, <1>2, InitGood DEF Init, KvInv, NoJob, JobShape

\* a memory call
LEMMA MetadataKeeps ==
    ASSUME KvInv, NEW new, Good(new), Metadata(new)
    PROVE  KvInv'
<1>1. row' \in [Cells -> Int]
  BY ForgetType DEF KvInv, Metadata
<1>2. drifted' \subseteq Cells
  BY DEF KvInv, Metadata, InUse
<1> QED
  BY <1>1, <1>2 DEF KvInv, Metadata, JobOK

LEMMA WrittenType ==
    ASSUME KvInv, NEW ubatch \in Seq(ProperToken), NEW slot, SlotFor(slot, ubatch)
    PROVE  \A i \in Cells : Written(slot, ubatch)[i] \in Int
<1>1. ASSUME NEW i \in Cells, i \in DOMAIN slot PROVE ubatch[slot[i]].pos \in Int
  <2>1. ubatch[slot[i]] \in ProperToken
    BY <1>1 DEF SlotFor
  <2> QED
    BY <2>1 DEF ProperToken, Pos
<1> QED
  BY <1>1 DEF Written, KvInv

\* the tokens that state_read places
LEMMA StateReadUbatch ==
    ASSUME NEW s \in Seqs, NEW p0 \in Pos, NEW n \in 1..Size, p0 + n <= MaxPos + 1
    PROVE  LET ubatch == [k \in 1..n |-> [pos |-> p0 + k - 1, seq |-> {s}]]
           IN  ubatch \in Seq(ProperToken) /\ Len(ubatch) = n
<1> DEFINE ubatch == [k \in 1..n |-> [pos |-> p0 + k - 1, seq |-> {s}]]
<1>1. n \in Nat /\ p0 \in Nat
  BY SizeAssumption DEF Pos
<1>2. ASSUME NEW k \in 1..n PROVE p0 + k - 1 \in Pos
  BY <1>1, MaxPosAssumption DEF Pos
<1>3. \A k \in 1..n : [pos |-> p0 + k - 1, seq |-> {s}] \in ProperToken
  BY <1>2 DEF ProperToken
<1>4. ubatch \in [1..n -> ProperToken]
  BY <1>3
<1>5. ubatch \in Seq(ProperToken) /\ Len(ubatch) = n
  <2> HIDE DEF ubatch
  <2> QED
    BY <1>1, <1>4
<1> QED
  BY <1>5

LEMMA StateReadKeeps ==
    ASSUME KvInv, NEW s \in Seqs, NEW p0 \in Pos, NEW n \in 1..Size, NEW readOk \in BOOLEAN,
           StateRead(s, p0, n, readOk)
    PROVE  KvInv'
<1> DEFINE ubatch == [k \in 1..n |-> [pos |-> p0 + k - 1, seq |-> {s}]]
           removed == SeqRm(kv, s, 0, Infinity)
           slot == FindSlot(removed, n)
           placed == ApplyUbatch(removed, slot, ubatch)
<1>1. Good(kv)
  BY DEF KvInv
<1>2. Good(removed)
  BY <1>1, SeqRmGood
<1>3. ubatch \in Seq(ProperToken) /\ Len(ubatch) = n
  BY StateReadUbatch DEF StateRead
<1>4. n \in Nat
  BY SizeAssumption
<1> HIDE DEF removed, ubatch
<1>5. DOMAIN slot # {} => SlotFor(slot, ubatch)
  BY <1>3, <1>4, FindSlotRange DEF SlotFor
<1> HIDE DEF slot
<1>6. DOMAIN slot # {} => Good(placed)
  BY <1>2, <1>3, <1>5, ApplyUbatchGood
<1>7. /\ kv' = IF ~(DOMAIN slot # {}) THEN removed
              ELSE IF readOk THEN placed ELSE SeqRm(placed, s, 0, Infinity)
      /\ row' = Forget(kv'.cells, Written(slot, ubatch))
      /\ drifted' = InUse(kv'.cells, drifted \ DOMAIN slot)
      /\ UNCHANGED <<job, trial>>
  BY DEF StateRead, removed, slot, ubatch
<1> HIDE DEF placed
<1>8. Good(kv')
  BY <1>2, <1>6, <1>7, SeqRmGood
<1>9. row' \in [Cells -> Int]
  <2>1. ASSUME DOMAIN slot = {} PROVE \A i \in Cells : Written(slot, ubatch)[i] \in Int
    BY <2>1 DEF Written, KvInv
  <2>2. \A i \in Cells : Written(slot, ubatch)[i] \in Int
    BY <1>3, <1>5, <2>1, WrittenType
  <2> QED
    BY <1>7, <2>2, ForgetType
<1>10. drifted' \subseteq Cells
  BY <1>7 DEF InUse, KvInv
<1> QED
  BY <1>7, <1>8, <1>9, <1>10 DEF KvInv, JobOK

LEMMA MemoryCallKeeps ==
    ASSUME KvInv,
           \/ Clear
           \/ \E s \in Seqs, r \in Ranges : SeqRmCall(s, r)
           \/ \E r \in Ranges : SeqRmAnyCall(r)
           \/ \E src, dst \in Seqs, r \in Ranges : SeqCpCall(src, dst, r)
           \/ \E s \in Seqs : SeqKeepCall(s)
           \/ \E s \in Seqs, r \in Ranges, d \in Shifts : SeqAddCall(s, r, d)
           \/ \E s \in Seqs, r \in Ranges, d \in Divisors : SeqDivCall(s, r, d)
    PROVE  KvInv'
<1>0. Good(kv)
  BY DEF KvInv
<1>1. CASE Clear
  BY <1>1, InitGood DEF Clear, KvInv, JobOK, NoPos
<1>2. CASE \E s \in Seqs, r \in Ranges : SeqRmCall(s, r)
  <2>1. PICK s \in Seqs, r \in Ranges : SeqRmCall(s, r)
    BY <1>2
  <2> QED
    BY <1>0, <2>1, SeqRmGood, MetadataKeeps DEF SeqRmCall
<1>3. CASE \E r \in Ranges : SeqRmAnyCall(r)
  <2>1. PICK r \in Ranges : SeqRmAnyCall(r)
    BY <1>3
  <2> QED
    BY <1>0, <2>1, SeqRmAnyGood, MetadataKeeps DEF SeqRmAnyCall
<1>4. CASE \E src, dst \in Seqs, r \in Ranges : SeqCpCall(src, dst, r)
  <2>1. PICK src \in Seqs, dst \in Seqs, r \in Ranges : SeqCpCall(src, dst, r)
    BY <1>4
  <2>2. Good(SeqCp(kv, src, dst, r[1], r[2]))
    BY <1>0, <2>1, SeqCpGood DEF SeqCpCall
  <2> QED
    BY <2>1, <2>2, MetadataKeeps DEF SeqCpCall
<1>5. CASE \E s \in Seqs : SeqKeepCall(s)
  <2>1. PICK s \in Seqs : SeqKeepCall(s)
    BY <1>5
  <2> QED
    BY <1>0, <2>1, SeqKeepGood, MetadataKeeps DEF SeqKeepCall
<1>6. CASE \E s \in Seqs, r \in Ranges, d \in Shifts : SeqAddCall(s, r, d)
  <2>1. PICK s \in Seqs, r \in Ranges, d \in Shifts : SeqAddCall(s, r, d)
    BY <1>6
  <2>2. d \in Int
    BY ShiftsAssumption
  <2>3. \A i \in Cells : PosIn(kv.cells[i], r[1], r[2]) /\ s \in kv.cells[i].seq
                          => kv.cells[i].pos + d <= MaxPos
    BY <2>1 DEF SeqAddCall, Moved
  <2>4. Good(SeqAdd(kv, s, r[1], r[2], d))
    BY <1>0, <2>2, <2>3, SeqAddGood
  <2> QED
    BY <2>1, <2>4, MetadataKeeps DEF SeqAddCall
<1>7. CASE \E s \in Seqs, r \in Ranges, d \in Divisors : SeqDivCall(s, r, d)
  <2>1. PICK s \in Seqs, r \in Ranges, d \in Divisors : SeqDivCall(s, r, d)
    BY <1>7
  <2>2. Good(kv')
    BY <1>0, <2>1, SeqDivGood, ShiftsAssumption DEF SeqDivCall
  <2> QED
    BY <2>1, <2>2 DEF SeqDivCall, KvInv, JobOK, Moved
<1> QED
  BY <1>1, <1>2, <1>3, <1>4, <1>5, <1>6, <1>7

LEMMA DecodeBeginKeeps ==
    ASSUME KvInv, NEW b \in Batches, NEW shiftOk \in BOOLEAN, DecodeBegin(b, shiftOk)
    PROVE  KvInv'
<1>1. Good(kv') /\ row' \in [Cells -> Int]
  <2>1. CASE kv.hasShift /\ shiftOk
    <3>1. Good(ResetShift(kv))
      BY ResetShiftGood DEF KvInv
    <3>2. \A i \in Cells : kv.cells[i].shift \in Int
      <4> SUFFICES ASSUME NEW i \in Cells PROVE kv.cells[i].shift \in Int
        OBVIOUS
      <4>1. Good(kv)
        BY DEF KvInv
      <4>2. kv.cells[i] \in Cell
        BY <4>1, GoodCell
      <4> QED
        BY <4>2 DEF Cell
    <3>3. /\ kv' = ResetShift(kv)
          /\ row' = [i \in Cells |-> IF row[i] = NoPos THEN NoPos ELSE row[i] + kv.cells[i].shift]
      BY <2>1 DEF DecodeBegin, KShift
    <3>4. row \in [Cells -> Int] /\ NoPos \in Int
      BY DEF KvInv, NoPos
    <3>5. row' \in [Cells -> Int]
      BY <3>2, <3>3, <3>4
    <3> QED
      BY <3>1, <3>3, <3>5
  <2>2. CASE ~(kv.hasShift /\ shiftOk)
    BY <2>2 DEF DecodeBegin, KShift, KvInv
  <2> QED
    BY <2>1, <2>2
<1>2. trial' \in Seq([Cells -> Cell])
  BY <1>1 DEF DecodeBegin, Good, KvType
<1>3. Ubatches(b) \in ProperUbatches /\ Len(Ubatches(b)) = Len(b) /\ b # <<>>
  <2>1. b \in Seq(Seq(SUBSET Seqs)) /\ b # <<>>
    BY BatchesAssumption
  <2>2. ASSUME NEW u \in DOMAIN b PROVE Ubatches(b)[u] \in Seq(ProperToken) \ {<<>>}
    <3> DEFINE tok(k) == [pos |-> TokenPos(b, u, k, CHOOSE s \in b[u][k] : TRUE), seq |-> b[u][k]]
    <3>1. b[u] \in Seq(SUBSET Seqs) /\ b[u] # <<>>
      BY <2>1, BatchesAssumption
    <3>2. ASSUME NEW k \in DOMAIN b[u] PROVE tok(k) \in ProperToken
      <4>1. b[u][k] \in (SUBSET Seqs) \ {{}}
        BY <3>1, BatchesAssumption
      <4>2. TokenPos(b, u, k, CHOOSE s \in b[u][k] : TRUE) \in Pos
        BY <4>1 DEF DecodeBegin, ValidBatch
      <4> QED
        BY <4>1, <4>2 DEF ProperToken
    <3>3. Ubatches(b)[u] = [k \in DOMAIN b[u] |-> tok(k)]
      BY DEF Ubatches
    <3>4. DOMAIN b[u] = 1..Len(b[u]) /\ Len(b[u]) \in Nat /\ Len(b[u]) # 0
      BY <3>1
    <3> HIDE DEF tok
    <3>5. Ubatches(b)[u] \in [1..Len(b[u]) -> ProperToken]
      BY <3>2, <3>3, <3>4
    <3> QED
      BY <3>4, <3>5
  <2>3. DOMAIN b = 1..Len(b) /\ Len(b) \in Nat
    BY <2>1
  <2>4. Ubatches(b) \in [1..Len(b) -> Seq(ProperToken) \ {<<>>}]
    BY <2>2, <2>3 DEF Ubatches
  <2> QED
    BY <2>1, <2>3, <2>4 DEF ProperUbatches
<1>4. job' = [phase |-> "prepare", ubatches |-> Ubatches(b), slots |-> <<>>, saved |-> <<>>,
              ok |-> TRUE, cur |-> 1]
  BY DEF DecodeBegin, NoJob
<1>5. JobOK'
  <2>1. Len(b) \in Nat /\ Ubatches(b) # <<>>
    BY <1>3 DEF ProperUbatches
  <2> QED
    BY <1>3, <1>4, <2>1 DEF JobOK
<1> QED
  BY <1>1, <1>2, <1>4, <1>5 DEF KvInv, DecodeBegin, JobShape

\* the ubatch at work
LEMMA CurrentType ==
    ASSUME KvInv, job.cur <= Len(job.ubatches)
    PROVE  Current \in Seq(ProperToken) /\ Len(Current) \in Nat
<1>1. job.ubatches \in ProperUbatches /\ job.cur \in 1..Len(job.ubatches)
  BY DEF KvInv, JobOK, ProperUbatches
<1> QED
  BY <1>1 DEF Current, ProperUbatches

LEMMA PrepareUbatchKeeps ==
    ASSUME KvInv, PrepareUbatch
    PROVE  KvInv'
<1> DEFINE slot == FindSlot(kv, Len(Current))
           entry == [cells |-> Copy(kv, slot), head |-> kv.head]
<1>1. Good(kv) /\ JobOK /\ JobShape(job)
  BY DEF KvInv
<1>2. Current \in Seq(ProperToken) /\ Len(Current) \in Nat
  BY CurrentType DEF PrepareUbatch
<1>3. SlotFor(slot, Current) /\ slot \in SlotType
  BY <1>2, FindSlotRange, FindSlotType DEF SlotFor, PrepareUbatch
<1> HIDE DEF slot
<1>4. SavedOK(entry) /\ entry \in SavedType
  BY <1>1, <1>3, CopyOK DEF SlotFor
<1> HIDE DEF entry
<1>5. /\ job.phase = "prepare" /\ job.cur <= Len(job.ubatches)
      /\ job' = [job EXCEPT !.slots = Append(@, slot), !.saved = Append(@, entry), !.cur = @ + 1]
      /\ kv' = ApplyUbatch(kv, slot, Current)
      /\ drifted' = drifted \cup {i \in DOMAIN slot : kv.cells[i].shift # 0}
      /\ trial' = Append(trial, kv'.cells)
      /\ UNCHANGED row
  BY DEF PrepareUbatch, slot, entry
<1>6. Good(kv')
  BY <1>1, <1>2, <1>3, <1>5, ApplyUbatchGood
<1>7. drifted' \subseteq Cells /\ trial' \in Seq([Cells -> Cell])
  <2>1. kv'.cells \in [Cells -> Cell]
    BY <1>6 DEF Good, KvType
  <2> QED
    BY <1>3, <1>5, <2>1 DEF KvInv, SlotFor
<1>8. /\ JobShape(job') /\ job'.phase = "prepare" /\ job'.ubatches = job.ubatches /\ job'.ok = job.ok
      /\ job'.slots = Append(job.slots, slot) /\ job'.saved = Append(job.saved, entry)
      /\ job'.cur = job.cur + 1
  BY <1>1, <1>5 DEF JobShape
<1>9. JobOK'
  <2>1. job.slots \in Seq(SlotType) /\ job.saved \in Seq(SavedType) /\ job.ubatches \in ProperUbatches
          /\ job.cur = Len(job.slots) + 1 /\ Len(job.ubatches) \in Nat
    BY <1>1, <1>5 DEF JobOK, ProperUbatches
  <2>2. job'.slots \in Seq(SlotType) /\ Len(job'.slots) = Len(job.slots) + 1
    BY <1>3, <1>8, <2>1
  <2>3. job'.saved \in Seq(SavedType) /\ \A l \in 1..Len(job'.saved) : SavedOK(job'.saved[l])
    <3>1. ASSUME NEW l \in 1..Len(job'.saved) PROVE SavedOK(job'.saved[l])
      <4>1. CASE l \in 1..Len(job.saved)
        BY <1>1, <1>8, <2>1, <4>1 DEF JobOK
      <4>2. CASE l = Len(job.saved) + 1
        BY <1>4, <1>8, <2>1, <4>2
      <4> QED
        BY <1>4, <1>8, <2>1, <4>1, <4>2
    <3> QED
      BY <1>4, <1>8, <2>1, <3>1
  <2>4. ASSUME NEW u \in 1..Len(job'.slots) PROVE SlotFor(job'.slots[u], job'.ubatches[u])
    <3>1. CASE u \in 1..Len(job.slots)
      BY <1>1, <1>3, <1>8, <2>1, <3>1 DEF JobOK
    <3>2. CASE u = Len(job.slots) + 1
      BY <1>3, <1>8, <2>1, <3>2 DEF Current
    <3> QED
      BY <2>1, <2>2, <3>1, <3>2
  <2>5. job'.cur \in 1..(Len(job'.ubatches) + 1) /\ job'.cur = Len(job'.slots) + 1
          /\ Len(job'.slots) <= Len(job'.ubatches)
    BY <1>5, <1>8, <2>1, <2>2
  <2> QED
    BY <1>1, <1>5, <1>8, <2>1, <2>2, <2>3, <2>4, <2>5 DEF JobOK
<1> QED
  BY <1>5, <1>6, <1>7, <1>8, <1>9 DEF KvInv

LEMMA RestoreOneKeeps ==
    ASSUME KvInv, RestoreOne
    PROVE  KvInv'
<1> DEFINE n == Len(job.saved)
<1>1. Good(kv) /\ JobOK /\ JobShape(job) /\ job.saved \in Seq(SavedType) /\ n \in Nat \ {0}
  BY DEF KvInv, JobOK, RestoreOne
<1>2. Good(kv')
  <2>1. SavedOK(job.saved[n])
    BY <1>1 DEF JobOK
  <2> QED
    BY <1>1, <2>1, RestoreGood DEF RestoreOne
<1>3. /\ JobShape(job') /\ job'.phase = "restore" /\ job'.ubatches = job.ubatches /\ job'.ok = job.ok
      /\ job'.slots = job.slots /\ job'.saved = SubSeq(job.saved, 1, n - 1) /\ job'.cur = job.cur
  BY <1>1 DEF JobShape, RestoreOne
<1>4. job'.saved \in Seq(SavedType) /\ \A l \in 1..Len(job'.saved) : SavedOK(job'.saved[l])
  BY <1>1, <1>3 DEF JobOK
<1>5. JobOK'
  BY <1>1, <1>3, <1>4 DEF JobOK, RestoreOne
<1> QED
  BY <1>2, <1>3, <1>5 DEF KvInv, RestoreOne

\* the steps that only change the phase, or end the decode
LEMMA PhaseKeeps ==
    ASSUME KvInv, PrepareEnds \/ PrepareFailed \/ PrepareDone
    PROVE  KvInv'
<1>1. Good(kv) /\ JobOK /\ JobShape(job) /\ Len(job.ubatches) \in Nat
  BY DEF KvInv, JobOK, ProperUbatches
<1>2. CASE PrepareEnds
  <2>1. /\ JobShape(job') /\ job'.phase = "restore" /\ job'.ubatches = job.ubatches
        /\ job'.ok \in BOOLEAN /\ (job'.ok => job.cur > Len(job.ubatches))
        /\ job'.slots = job.slots /\ job'.saved = job.saved /\ job'.cur = job.cur
    BY <1>1, <1>2 DEF JobShape, PrepareEnds, JobOK
  <2>2. JobOK'
    BY <1>1, <1>2, <2>1 DEF JobOK, PrepareEnds
  <2> QED
    BY <1>2, <2>1, <2>2 DEF KvInv, PrepareEnds
<1>3. CASE PrepareFailed
  <2>1. JobOK' /\ JobShape(job')
    BY <1>3, NoJobOK DEF PrepareFailed
  <2>2. row' \in [Cells -> Int] /\ drifted' \subseteq Cells
    BY <1>3, ForgetType DEF KvInv, PrepareFailed, InUse
  <2>3. trial' \in Seq([Cells -> Cell])
    BY <1>3 DEF PrepareFailed
  <2> QED
    BY <1>1, <1>3, <2>1, <2>2, <2>3 DEF KvInv, PrepareFailed
<1>4. CASE PrepareDone
  <2>1. /\ JobShape(job') /\ job'.phase = "apply" /\ job'.ubatches = job.ubatches /\ job'.ok = job.ok
        /\ job'.slots = job.slots /\ job'.saved = job.saved /\ job'.cur = 1
    BY <1>1, <1>4 DEF JobShape, PrepareDone
  <2>2. Len(job.ubatches) >= 1
    BY <1>1, <1>4 DEF PrepareDone, JobOK, ProperUbatches
  <2>3. Len(job.slots) = Len(job.ubatches)
    BY <1>1, <1>4 DEF JobOK, PrepareDone
  <2>4. 1 \in 1..(Len(job.ubatches) + 1)
    BY <1>1
  <2>5. JobOK'
    BY <1>1, <2>1, <2>2, <2>3, <2>4 DEF JobOK
  <2> QED
    BY <1>4, <2>1, <2>5 DEF KvInv, PrepareDone
<1> QED
  BY <1>2, <1>3, <1>4

LEMMA ApplyCurrentKeeps ==
    ASSUME KvInv, ApplyCurrent
    PROVE  KvInv'
<1>1. Good(kv) /\ JobOK /\ JobShape(job) /\ job.cur \in 1..Len(job.slots)
        /\ job.cur <= Len(job.ubatches)
  BY DEF KvInv, JobOK, ApplyCurrent, ProperUbatches
<1>2. Current \in Seq(ProperToken) /\ SlotFor(job.slots[job.cur], Current)
  BY <1>1, CurrentType DEF JobOK, Current
<1>3. Good(kv')
  BY <1>1, <1>2, ApplyUbatchGood DEF ApplyCurrent
<1>4. /\ JobShape(job') /\ job'.phase = "compute" /\ job'.ubatches = job.ubatches /\ job'.ok = job.ok
      /\ job'.slots = job.slots /\ job'.saved = job.saved /\ job'.cur = job.cur
  BY <1>1 DEF JobShape, ApplyCurrent
<1>5. JobOK'
  BY <1>1, <1>4 DEF JobOK, ApplyCurrent
<1> QED
  BY <1>3, <1>4, <1>5 DEF KvInv, ApplyCurrent

LEMMA ComputeKeeps ==
    ASSUME KvInv, ComputeOk \/ ComputeFails
    PROVE  KvInv'
<1>1. Good(kv) /\ JobOK /\ JobShape(job) /\ job.cur \in 1..Len(job.slots)
        /\ job.cur <= Len(job.ubatches) /\ Len(job.ubatches) \in Nat
  BY DEF KvInv, JobOK, ComputeOk, ComputeFails, ProperUbatches
<1>2. Current \in Seq(ProperToken) /\ SlotFor(job.slots[job.cur], Current)
  BY <1>1, CurrentType DEF JobOK, Current
<1>3. CASE ComputeOk
  <2>1. row' \in [Cells -> Int]
    <3>1. \A i \in Cells : Written(job.slots[job.cur], Current)[i] \in Int
      BY <1>2, WrittenType
    <3> QED
      BY <1>3, <3>1, ForgetType DEF ComputeOk
  <2>2. drifted' \subseteq Cells
    BY <1>3 DEF ComputeOk, InUse, KvInv
  <2>3. JobOK' /\ JobShape(job')
    <3>1. CASE job' = NoJob
      BY <3>1, NoJobOK
    <3>2. CASE job.cur # Len(job.ubatches)
      <4>1. /\ JobShape(job') /\ job'.phase = "apply" /\ job'.ubatches = job.ubatches /\ job'.ok = job.ok
            /\ job'.slots = job.slots /\ job'.saved = job.saved /\ job'.cur = job.cur + 1
        BY <1>1, <1>3, <3>2 DEF JobShape, ComputeOk
      <4> QED
        BY <1>1, <1>3, <3>2, <4>1 DEF JobOK, ComputeOk
    <3> QED
      BY <1>3, <3>1, <3>2 DEF ComputeOk
  <2>4. trial' \in Seq([Cells -> Cell])
    <3>1. trial \in Seq([Cells -> Cell])
      BY DEF KvInv
    <3>2. trial' = <<>> \/ trial' = trial
      BY <1>3 DEF ComputeOk
    <3>3. <<>> \in Seq([Cells -> Cell])
      OBVIOUS
    <3> QED
      BY <3>1, <3>2, <3>3, Zenon
  <2> QED
    <3>1. kv' = kv
      BY <1>3 DEF ComputeOk
    <3> QED
      BY <1>1, <2>1, <2>2, <2>3, <2>4, <3>1 DEF KvInv
<1>4. CASE ComputeFails
  <2>1. Good(kv')
    BY <1>1, <1>4, RemovedGood DEF ComputeFails
  <2>2. row' \in [Cells -> Int] /\ drifted' \subseteq Cells
    <3> DEFINE rows == [i \in Cells |-> IF i \in DOMAIN job.slots[job.cur] THEN NoPos ELSE row[i]]
    <3>1. \A i \in Cells : rows[i] \in Int
      BY DEF KvInv, NoPos
    <3>2. row' = Forget(kv'.cells, rows)
      BY <1>4 DEF ComputeFails
    <3> HIDE DEF rows
    <3>3. row' \in [Cells -> Int]
      BY <3>1, <3>2, ForgetType
    <3>4. drifted \subseteq Cells
      BY DEF KvInv
    <3>5. drifted' \subseteq drifted
      BY <1>4 DEF ComputeFails, InUse
    <3> QED
      BY <3>3, <3>4, <3>5
  <2>3. JobOK' /\ JobShape(job')
    BY <1>4, NoJobOK DEF ComputeFails
  <2>4. trial' \in Seq([Cells -> Cell])
    BY <1>4 DEF ComputeFails
  <2> QED
    BY <1>4, <2>1, <2>2, <2>3, <2>4 DEF KvInv, ComputeFails
<1> QED
  BY <1>3, <1>4

LEMMA KvInvStutters ==
    ASSUME KvInv, UNCHANGED vars
    PROVE  KvInv'
  BY DEF KvInv, JobOK, vars

\* The invariant holds in every reachable state.
THEOREM KvInvariant == Spec => []KvInv
<1>1. ASSUME KvInv, Next PROVE KvInv'
  <2>1. CASE \E s \in Seqs, p0 \in Pos, n \in 1..Size, readOk \in BOOLEAN : StateRead(s, p0, n, readOk)
    BY <1>1, <2>1, StateReadKeeps
  <2>2. CASE \E b \in Batches, shiftOk \in BOOLEAN : DecodeBegin(b, shiftOk)
    BY <1>1, <2>2, DecodeBeginKeeps
  <2> QED
    BY <1>1, <2>1, <2>2, MemoryCallKeeps, PrepareUbatchKeeps, RestoreOneKeeps, PhaseKeeps,
       ApplyCurrentKeeps, ComputeKeeps DEF Next
<1> QED
  BY <1>1, KvInvInit, KvInvStutters, PTL DEF Spec

\* The state of the cache and of a decode in progress is well typed, in particular heads and positions
\* stay in their ranges, whatever calls and batches come.
THEOREM KvTypeCorrect == Spec => []TypeOK
  BY KvInvariant, KvInvImplies, PTL

\* The index of positions and the set of used cells agree with the cells after every call, every trial
\* placement, every restore and every failed ubatch.
THEOREM IndexHolds == Spec => []IndexOK
  BY KvInvariant, KvInvImplies, PTL

\* No cell ever keeps a position without a sequence.
THEOREM NoCellLeaks == Spec => []NoLeakedCell
  BY KvInvariant, KvInvImplies, PTL

-----------------------------------------------------------------------------
(***************************************************************************)
(* What prepare leaves behind, for every cache, window and batch. prepare  *)
(* places the ubatches for trial and puts the cells of their slots back; it*)
(* does not put back what apply_ubatch purged elsewhere. TrialInv follows  *)
(* every cell through that: once the slots from m on were put back, a cell *)
(* is what it was before the first of them that contains it (Returns), and *)
(* what happens to it between two slots is only that it loses sequences    *)
(* (Forgets). The real placements then meet in every slot the cells that   *)
(* the trial met there (AppliedOK), and after the last one the cache       *)
(* is what the trial had predicted.                                        *)
(***************************************************************************)

-----------------------------------------------------------------------------
\* What apply_ubatch does to one cell

Overwritten(cells, slot) == {cells[i] : i \in {j \in DOMAIN slot : ~IsEmpty(cells[j])}}
GoneFrom(c, over) == {s \in c.seq : \E d \in over : s \in d.seq /\ c.pos <= d.pos}
Purged(c, over) ==
    IF GoneFrom(c, over) = {} THEN c
    ELSE IF c.seq \ GoneFrom(c, over) = {} THEN Empty
    ELSE [c EXCEPT !.seq = c.seq \ GoneFrom(c, over)]
TokenCell(t) == [pos |-> t.pos, seq |-> t.seq, shift |-> 0]
Placed(cells, slot, ubatch, i) ==
    Purged(IF i \in DOMAIN slot THEN TokenCell(ubatch[slot[i]]) ELSE cells[i],
           Overwritten(cells, slot))

\* no empty cell has a pending shift
Clean(cells) == \A i \in Cells : IsEmpty(cells[i]) => cells[i].shift = 0

LEMMA ApplyCells ==
    ASSUME NEW k, Good(k), NEW J \in SUBSET Cells, NEW eff, DOMAIN eff = J, NEW i \in Cells
    PROVE  Apply(k, eff).cells[i] = IF i \in J THEN eff[i].cell ELSE k.cells[i]
  BY DEF Apply, Good, KvType

\* A purge takes from every cell the sequences that lost a position not below the cell's.
LEMMA PurgeCells ==
    ASSUME NEW k, Good(k), NEW over, NEW i \in Cells
    PROVE  Purge(k, over).cells[i] = Purged(k.cells[i], over)
<1> DEFINE Gone(j) == {s \in k.cells[j].seq : \E c \in over : s \in c.seq /\ k.cells[j].pos <= c.pos}
           J == {j \in Cells : Gone(j) # {}}
           eff == [j \in J |-> Leave(k.cells[j], Gone(j))]
<1>1. J \in SUBSET Cells /\ DOMAIN eff = J
  OBVIOUS
<1>2. Purge(k, over) = Apply(k, eff)
  BY DEF Purge, Leave
<1>3. Gone(i) = GoneFrom(k.cells[i], over)
  BY DEF GoneFrom
<1>4. Purge(k, over).cells[i] = IF i \in J THEN eff[i].cell ELSE k.cells[i]
  <2> HIDE DEF J, eff
  <2> QED
    BY <1>1, <1>2, ApplyCells
<1>5. CASE i \in J
  <2>1. eff[i].cell = IF k.cells[i].seq \ Gone(i) = {} THEN Empty
                      ELSE [k.cells[i] EXCEPT !.seq = k.cells[i].seq \ Gone(i)]
    BY <1>5 DEF Leave, Effect
  <2>2. Gone(i) # {}
    BY <1>5
  <2> HIDE DEF Gone, J, eff
  <2> QED
    BY <1>3, <1>4, <1>5, <2>1, <2>2 DEF Purged
<1>6. CASE i \notin J
  <2>1. Gone(i) = {}
    BY <1>6
  <2> HIDE DEF Gone, J, eff
  <2> QED
    BY <1>3, <1>4, <1>6, <2>1 DEF Purged
<1> QED
  BY <1>5, <1>6

\* apply_ubatch clears the cells of the slot, places the tokens and purges: cell by cell.
LEMMA PlacedCells ==
    ASSUME NEW k, Good(k), Clean(k.cells), NEW ubatch \in Seq(ProperToken),
           NEW slot, SlotFor(slot, ubatch), NEW i \in Cells
    PROVE  ApplyUbatch(k, slot, ubatch).cells[i] = Placed(k.cells, slot, ubatch, i)
<1> DEFINE full == {j \in DOMAIN slot : ~IsEmpty(k.cells[j])}
           effc == [j \in full |-> Rm(k.cells[j])]
           cleared == Apply(k, effc)
           effp == [j \in DOMAIN slot |->
                       Place(cleared.cells[j], ubatch[slot[j]].pos, ubatch[slot[j]].seq)]
           placed == Apply(cleared, effp)
           over == {k.cells[j] : j \in full}
           last == CHOOSE j \in DOMAIN slot : \A l \in DOMAIN slot : slot[l] <= slot[j]
<1>1. full \in SUBSET Cells /\ DOMAIN effc = full /\ DOMAIN slot \in SUBSET Cells
        /\ DOMAIN effp = DOMAIN slot
  BY DEF SlotFor
<1>2. \A j \in full : Coherent(k.cells[j], effc[j])
  BY <1>1, GoodCell, RmCoherent
<1>3. Good(cleared)
  <2> HIDE DEF full, effc
  <2> QED
    BY <1>1, <1>2, ApplyGood
<1>4. \A j \in Cells : cleared.cells[j] = IF j \in full THEN Empty ELSE k.cells[j]
  BY <1>1 DEF Apply, Good, KvType, Rm, Effect
<1>5. over = Overwritten(k.cells, slot)
  BY DEF Overwritten
<1> HIDE DEF cleared
<1>6. ASSUME NEW j \in DOMAIN slot
      PROVE  /\ cleared.cells[j] = Empty
             /\ ubatch[slot[j]] \in ProperToken
             /\ effp[j].cell = TokenCell(ubatch[slot[j]])
             /\ Coherent(cleared.cells[j], effp[j])
  <2>1. j \in Cells /\ cleared.cells[j] \in Cell /\ Owned(cleared.cells[j]) /\ IsEmpty(cleared.cells[j])
          /\ cleared.cells[j].shift = 0
    BY <1>1, <1>3, <1>4, GoodCell, EmptyCell DEF Clean, Empty
  <2>2. cleared.cells[j] = Empty
    BY <2>1 DEF Cell, Empty, Owned, IsEmpty
  <2>3. ubatch[slot[j]] \in ProperToken
    BY DEF SlotFor
  <2> DEFINE p == ubatch[slot[j]].pos
             S == ubatch[slot[j]].seq
  <2>4. effp[j] = Place(cleared.cells[j], p, S) /\ p \in Pos /\ S \in SUBSET Seqs /\ S # {}
    BY <2>3 DEF ProperToken
  <2>5. TokenCell(ubatch[slot[j]]) = [pos |-> p, seq |-> S, shift |-> 0]
    BY DEF TokenCell
  <2> HIDE DEF p, S, effp
  <2>6. Coherent(cleared.cells[j], Place(cleared.cells[j], p, S))
    BY <2>1, <2>4, PlaceCoherent
  <2>7. Place(cleared.cells[j], p, S).cell = [pos |-> p, seq |-> S, shift |-> 0]
    <3>1. Place(Empty, p, S).cell = [Empty EXCEPT !.pos = p, !.seq = S]
      BY DEF Place, Effect
    <3>2. [Empty EXCEPT !.pos = p, !.seq = S] = [pos |-> p, seq |-> S, shift |-> 0]
      <4> DEFINE n == [Empty EXCEPT !.pos = p, !.seq = S]
      <4>1. n \in [pos : {p}, seq : {S}, shift : {0}]
        BY DEF Empty
      <4> HIDE DEF n
      <4>2. n = [pos |-> n.pos, seq |-> n.seq, shift |-> n.shift]
              /\ n.pos = p /\ n.seq = S /\ n.shift = 0
        BY <4>1
      <4> QED
        BY <4>2 DEF n
    <3> QED
      BY <2>2, <3>1, <3>2, Zenon
  <2> QED
    BY <2>2, <2>3, <2>4, <2>5, <2>6, <2>7
<1>7. Good(placed)
  <2> HIDE DEF effp
  <2> QED
    BY <1>1, <1>3, <1>6, ApplyGood
<1>8. placed.cells[i] = IF i \in DOMAIN slot THEN TokenCell(ubatch[slot[i]]) ELSE k.cells[i]
  <2>1. placed.cells[i] = IF i \in DOMAIN slot THEN effp[i].cell ELSE cleared.cells[i]
    <3> HIDE DEF effp
    <3> QED
      BY <1>1, <1>3, ApplyCells, SMTT(20)
  <2>2. i \notin DOMAIN slot => cleared.cells[i] = k.cells[i]
    BY <1>4
  <2> HIDE DEF effp, placed
  <2> QED
    BY <1>6, <2>1, <2>2
<1> HIDE DEF placed, over
<1>9. Good(Purge(placed, over)) /\ Purge(placed, over).cells[i] = Purged(placed.cells[i], over)
  BY <1>7, PurgeGood, PurgeCells
<1>10. ApplyUbatch(k, slot, ubatch) = [Purge(placed, over) EXCEPT !.head = last + 1]
  BY DEF ApplyUbatch, placed, cleared, over
<1>11. ApplyUbatch(k, slot, ubatch).cells = Purge(placed, over).cells
  BY <1>9, <1>10 DEF Good, KvType
<1> QED
  BY <1>5, <1>8, <1>9, <1>11, Zenon DEF Placed

-----------------------------------------------------------------------------
\* Cells that lose sequences

\* c is what is left of d: the same position with fewer sequences, or nothing. Without a window nothing
\* is purged.
Forgets(c, d) ==
    /\ c.seq \subseteq d.seq
    /\ c.seq # {} => c.pos = d.pos /\ c.shift = d.shift
    /\ SwaType = "none" => Same(c, d)

\* the same positions of the same sequences are below those that were overwritten
SameCover(over1, over2) ==
    \A s, p : (\E d \in over1 : s \in d.seq /\ p <= d.pos) <=> (\E d \in over2 : s \in d.seq /\ p <= d.pos)

LEMMA ForgetsTrans ==
    ASSUME NEW c, NEW d, NEW e, Forgets(c, d), Forgets(d, e)
    PROVE  Forgets(c, e)
  BY DEF Forgets, Same

LEMMA PurgedForgets ==
    ASSUME NEW c \in Cell, NEW over, SwaType = "none" => over = {}
    PROVE  Forgets(Purged(c, over), c)
<1>1. CASE GoneFrom(c, over) = {}
  BY <1>1 DEF Purged, Forgets, Same
<1>2. CASE GoneFrom(c, over) # {}
  <2>1. SwaType # "none"
    BY <1>2 DEF GoneFrom
  <2>2. CASE c.seq \ GoneFrom(c, over) = {}
    BY <1>2, <2>1, <2>2 DEF Purged, Forgets, Empty
  <2>3. CASE c.seq \ GoneFrom(c, over) # {}
    <3> DEFINE n == [c EXCEPT !.seq = c.seq \ GoneFrom(c, over)]
    <3>1. n.pos = c.pos /\ n.shift = c.shift /\ n.seq = c.seq \ GoneFrom(c, over)
      BY DEF Cell
    <3>2. Purged(c, over) = n
      BY <1>2, <2>3 DEF Purged
    <3> HIDE DEF n
    <3> QED
      BY <2>1, <3>1, <3>2 DEF Forgets
  <2> QED
    BY <2>2, <2>3
<1> QED
  BY <1>1, <1>2

LEMMA OverwrittenSame ==
    ASSUME NEW c1, NEW c2, NEW slot, \A j \in DOMAIN slot : Same(c1[j], c2[j])
    PROVE  SameCover(Overwritten(c1, slot), Overwritten(c2, slot))
  BY DEF SameCover, Overwritten, Same, IsEmpty

LEMMA PurgedSame ==
    ASSUME NEW c \in Cell, NEW d \in Cell, Same(c, d), NEW over1, NEW over2, SameCover(over1, over2)
    PROVE  Same(Purged(c, over1), Purged(d, over2))
<1>1. GoneFrom(c, over1) = GoneFrom(d, over2)
  BY DEF GoneFrom, SameCover, Same
<1> DEFINE G == GoneFrom(d, over2)
<1>2. \A e \in Cell : [e EXCEPT !.seq = e.seq \ G].pos = e.pos /\ [e EXCEPT !.seq = e.seq \ G].seq = e.seq \ G
  BY DEF Cell
<1> HIDE DEF G
<1>3. Purged(c, over1) = IF G = {} THEN c ELSE IF c.seq \ G = {} THEN Empty ELSE [c EXCEPT !.seq = c.seq \ G]
  BY <1>1 DEF Purged, G
<1>4. Purged(d, over2) = IF G = {} THEN d ELSE IF d.seq \ G = {} THEN Empty ELSE [d EXCEPT !.seq = d.seq \ G]
  BY DEF Purged, G
<1> QED
  BY <1>2, <1>3, <1>4 DEF Same

\* what is left after a purge, or of that, is not purged by it again
LEMMA PurgedOnce ==
    ASSUME NEW c \in Cell, NEW d \in Cell, NEW e \in Cell, NEW over1, NEW over2,
           SameCover(over1, over2), Forgets(d, Purged(c, over1)), Same(e, d)
    PROVE  Purged(e, over2) = e
<1>1. ASSUME NEW s \in GoneFrom(e, over2) PROVE FALSE
  <2>1. s \in d.seq /\ e.pos = d.pos /\ s \in Purged(c, over1).seq /\ d.pos = Purged(c, over1).pos
    BY <1>1 DEF GoneFrom, Same, Forgets
  <2>2. \E x \in over1 : s \in x.seq /\ d.pos <= x.pos
    <3>1. \E x \in over2 : s \in x.seq /\ d.pos <= x.pos
      BY <1>1, <2>1 DEF GoneFrom
    <3> QED
      BY <3>1 DEF SameCover
  <2>3. Purged(c, over1).seq = c.seq \ GoneFrom(c, over1) /\ Purged(c, over1).pos = c.pos
    <3>1. [c EXCEPT !.seq = c.seq \ GoneFrom(c, over1)].pos = c.pos
            /\ [c EXCEPT !.seq = c.seq \ GoneFrom(c, over1)].seq = c.seq \ GoneFrom(c, over1)
      BY DEF Cell
    <3>2. Empty.seq = {}
      BY DEF Empty
    <3> QED
      BY <2>1, <3>1, <3>2 DEF Purged
  <2> QED
    BY <2>1, <2>2, <2>3 DEF GoneFrom
<1> QED
  BY <1>1 DEF Purged

LEMMA PurgedCell ==
    ASSUME NEW c \in Cell, NEW over
    PROVE  Purged(c, over) \in Cell
  BY EmptyCell DEF Purged, Cell, GoneFrom

\* The same slot placed on two caches that agree on it leaves the same in every cell on which they agree.
LEMMA PlacedSame ==
    ASSUME NEW c1 \in [Cells -> Cell], NEW c2 \in [Cells -> Cell],
           NEW ubatch \in Seq(ProperToken), NEW slot, SlotFor(slot, ubatch),
           \A j \in DOMAIN slot : Same(c1[j], c2[j]),
           NEW i \in Cells, i \in DOMAIN slot \/ Same(c1[i], c2[i])
    PROVE  Same(Placed(c1, slot, ubatch, i), Placed(c2, slot, ubatch, i))
<1>1. SameCover(Overwritten(c1, slot), Overwritten(c2, slot))
  BY OverwrittenSame
<1>2. CASE i \in DOMAIN slot
  <2>1. TokenCell(ubatch[slot[i]]) \in Cell
    <3>1. ubatch[slot[i]] \in ProperToken
      BY <1>2 DEF SlotFor
    <3> QED
      BY <3>1 DEF ProperToken, TokenCell, Cell
  <2>2. Same(TokenCell(ubatch[slot[i]]), TokenCell(ubatch[slot[i]]))
    BY DEF Same
  <2> QED
    BY <1>1, <1>2, <2>1, <2>2, PurgedSame DEF Placed
<1>3. CASE i \notin DOMAIN slot
  BY <1>1, <1>3, PurgedSame DEF Placed
<1> QED
  BY <1>2, <1>3

-----------------------------------------------------------------------------
\* No empty cell has a pending shift

Tidy(eff) == IsEmpty(eff.cell) => eff.cell.shift = 0

LEMMA ApplyClean ==
    ASSUME NEW k, Good(k), Clean(k.cells), NEW J \in SUBSET Cells, NEW eff, DOMAIN eff = J,
           \A i \in J : Tidy(eff[i])
    PROVE  Clean(Apply(k, eff).cells)
<1>1. \A i \in Cells : Apply(k, eff).cells[i] = IF i \in J THEN eff[i].cell ELSE k.cells[i]
  BY ApplyCells
<1> QED
  BY <1>1 DEF Clean, Tidy

LEMMA LowerHeadCells ==
    ASSUME NEW k, Good(k), NEW F
    PROVE  LowerHead(k, F).cells = k.cells
  BY DEF LowerHead, Good, KvType

LEMMA RmTidy ==
    ASSUME NEW c
    PROVE  Tidy(Rm(c))
  BY DEF Tidy, Rm, Effect, Empty

LEMMA LeaveTidy ==
    ASSUME NEW c \in Cell, Owned(c), NEW G, G # {}, G \subseteq c.seq
    PROVE  Tidy(Leave(c, G))
<1>1. ~IsEmpty(c)
  BY DEF Owned
<1>2. [c EXCEPT !.seq = c.seq \ G].pos = c.pos
  BY DEF Cell
<1> QED
  BY <1>1, <1>2 DEF Tidy, Leave, Effect, Empty, IsEmpty

LEMMA RmSeqLeaves ==
    ASSUME NEW c, NEW s
    PROVE  RmSeq(c, s) = Leave(c, {s})
<1>1. {<<s, c.pos>>} = {s} \X {c.pos}
  OBVIOUS
<1>2. [c EXCEPT !.seq = @ \ {s}] = [c EXCEPT !.seq = c.seq \ {s}]
  OBVIOUS
<1> QED
  BY <1>1, <1>2 DEF RmSeq, Leave, Effect

LEMMA SeqRmClean ==
    ASSUME NEW k, Good(k), Clean(k.cells), NEW s \in Seqs, NEW p0, NEW p1
    PROVE  Clean(SeqRm(k, s, p0, p1).cells)
<1> DEFINE J == {i \in Cells : PosIn(k.cells[i], p0, p1) /\ s \in k.cells[i].seq}
           eff == [i \in J |-> RmSeq(k.cells[i], s)]
<1>1. J \in SUBSET Cells /\ DOMAIN eff = J
  OBVIOUS
<1>2. ASSUME NEW i \in J PROVE Tidy(eff[i]) /\ Coherent(k.cells[i], eff[i])
  <2>1. k.cells[i] \in Cell /\ Owned(k.cells[i]) /\ s \in k.cells[i].seq /\ {s} \subseteq k.cells[i].seq
    BY GoodCell
  <2>2. eff[i] = Leave(k.cells[i], {s}) /\ {s} # {}
    BY RmSeqLeaves
  <2>3. Coherent(k.cells[i], RmSeq(k.cells[i], s))
    BY <2>1, RmSeqCoherent
  <2> QED
    BY <2>1, <2>2, <2>3, LeaveTidy
<1>3. SeqRm(k, s, p0, p1) = LowerHead(Apply(k, eff), Freed(eff))
  BY DEF SeqRm
<1> HIDE DEF J, eff
<1>4. Clean(Apply(k, eff).cells) /\ Good(Apply(k, eff))
  BY <1>1, <1>2, ApplyClean, ApplyGood
<1> QED
  BY <1>3, <1>4, LowerHeadCells, Zenon

LEMMA SeqRmAnyClean ==
    ASSUME NEW k, Good(k), Clean(k.cells), NEW p0, NEW p1
    PROVE  Clean(SeqRmAny(k, p0, p1).cells)
<1> DEFINE J == {i \in Cells : PosIn(k.cells[i], p0, p1)}
           eff == [i \in J |-> Rm(k.cells[i])]
<1>1. J \in SUBSET Cells /\ DOMAIN eff = J
  OBVIOUS
<1>2. \A i \in J : Tidy(eff[i]) /\ Coherent(k.cells[i], eff[i])
  BY GoodCell, RmCoherent, RmTidy
<1>3. SeqRmAny(k, p0, p1) = LowerHead(Apply(k, eff), Freed(eff))
  BY DEF SeqRmAny
<1> HIDE DEF J, eff
<1>4. Clean(Apply(k, eff).cells) /\ Good(Apply(k, eff))
  BY <1>1, <1>2, ApplyClean, ApplyGood
<1> QED
  BY <1>3, <1>4, LowerHeadCells, Zenon

LEMMA SeqCpClean ==
    ASSUME NEW k, Good(k), Clean(k.cells), NEW src \in Seqs, NEW dst \in Seqs, NEW p0, NEW p1
    PROVE  Clean(SeqCp(k, src, dst, p0, p1).cells)
<1> DEFINE J == {i \in Cells : PosIn(k.cells[i], p0, p1) /\ src \in k.cells[i].seq}
           eff == [i \in J |-> AddSeq(k.cells[i], dst)]
<1>1. J \in SUBSET Cells /\ DOMAIN eff = J
  OBVIOUS
<1>2. ASSUME NEW i \in J PROVE Tidy(eff[i])
  <2>1. k.cells[i] \in Cell /\ Owned(k.cells[i]) /\ ~IsEmpty(k.cells[i])
    BY GoodCell DEF Owned
  <2>2. eff[i].cell = [k.cells[i] EXCEPT !.seq = @ \cup {dst}]
    BY DEF AddSeq, Effect
  <2> QED
    BY <2>1, <2>2 DEF Tidy, Cell, IsEmpty
<1>3. SeqCp(k, src, dst, p0, p1) = Apply(k, eff)
  BY DEF SeqCp
<1> HIDE DEF J, eff
<1> QED
  BY <1>1, <1>2, <1>3, ApplyClean

LEMMA SeqKeepClean ==
    ASSUME NEW k, Good(k), Clean(k.cells), NEW s \in Seqs
    PROVE  Clean(SeqKeep(k, s).cells)
<1> DEFINE eff == [i \in Cells |-> KeepSeq(k.cells[i], s)]
<1>1. DOMAIN eff = Cells /\ \A i \in Cells : Coherent(k.cells[i], eff[i])
  BY GoodCell, KeepSeqCoherent
<1>2. ASSUME NEW i \in Cells PROVE Tidy(eff[i])
  <2>1. k.cells[i] \in Cell /\ Owned(k.cells[i]) /\ (IsEmpty(k.cells[i]) => k.cells[i].shift = 0)
    BY GoodCell DEF Clean
  <2>2. [k.cells[i] EXCEPT !.seq = {s}].pos = k.cells[i].pos
          /\ [k.cells[i] EXCEPT !.seq = {s}].shift = k.cells[i].shift
    BY <2>1 DEF Cell
  <2>3. Tidy(KeepSeq(k.cells[i], s))
    BY <2>1, <2>2, RmTidy DEF Tidy, KeepSeq, Effect, IsEmpty
  <2> QED
    BY <2>3
<1>3. SeqKeep(k, s) = LowerHead(Apply(k, eff), Freed(eff))
  BY DEF SeqKeep
<1> HIDE DEF eff
<1>4. Clean(Apply(k, eff).cells) /\ Good(Apply(k, eff))
  BY <1>1, <1>2, ApplyClean, ApplyGood
<1> QED
  BY <1>3, <1>4, LowerHeadCells, Zenon

LEMMA SeqAddClean ==
    ASSUME NEW k, Good(k), Clean(k.cells), NEW s \in Seqs, NEW p0, NEW p1, NEW d \in Int
    PROVE  Clean(SeqAdd(k, s, p0, p1, d).cells)
<1> DEFINE J == {i \in Cells : PosIn(k.cells[i], p0, p1) /\ s \in k.cells[i].seq}
           eff == [i \in J |-> PosAdd(k.cells[i], d)]
<1>1. J \in SUBSET Cells /\ DOMAIN eff = J
  OBVIOUS
<1>2. ASSUME NEW i \in J PROVE Tidy(eff[i])
  <2>1. k.cells[i] \in Cell
    BY GoodCell
  <2>2. [k.cells[i] EXCEPT !.pos = @ + d, !.shift = @ + d].pos = k.cells[i].pos + d
    BY <2>1 DEF Cell
  <2>3. k.cells[i].pos \in Int
    BY <2>1, MaxPosAssumption DEF Cell, Pos, NoPos
  <2>4. Tidy(PosAdd(k.cells[i], d))
    BY <2>2, <2>3 DEF Tidy, PosAdd, Effect, Empty, IsEmpty, NoPos
  <2> QED
    BY <2>4
<1>3. SeqAdd(k, s, p0, p1, d).cells = Apply(k, eff).cells
  BY DEF SeqAdd, Apply, Good, KvType
<1> HIDE DEF J, eff
<1> QED
  BY <1>1, <1>2, <1>3, ApplyClean

LEMMA SeqDivClean ==
    ASSUME NEW k, Good(k), Clean(k.cells), NEW s \in Seqs, NEW p0, NEW p1, NEW d \in Nat \ {0}
    PROVE  Clean(SeqDiv(k, s, p0, p1, d).cells)
<1> DEFINE J == {i \in Cells : PosIn(k.cells[i], p0, p1) /\ s \in k.cells[i].seq}
           eff == [i \in J |-> PosDiv(k.cells[i], d)]
<1>1. J \in SUBSET Cells /\ DOMAIN eff = J
  OBVIOUS
<1>2. ASSUME NEW i \in J PROVE Tidy(eff[i])
  <2>1. k.cells[i] \in Cell /\ Owned(k.cells[i]) /\ ~IsEmpty(k.cells[i])
    BY GoodCell DEF Owned
  <2> DEFINE n == [k.cells[i] EXCEPT !.pos = @ \div d, !.shift = @ + (k.cells[i].pos - k.cells[i].pos \div d)]
  <2>2. n.pos = k.cells[i].pos \div d
    BY <2>1 DEF Cell
  <2>3. k.cells[i].pos \in Nat
    BY <2>1, MaxPosAssumption DEF Cell, Pos, NoPos, IsEmpty
  <2>4. k.cells[i].pos \div d # -1
    BY <2>3
  <2>5. eff[i].cell = n
    BY DEF PosDiv, Effect
  <2> HIDE DEF n, eff
  <2> QED
    BY <2>2, <2>4, <2>5 DEF Tidy, IsEmpty, NoPos
<1>3. SeqDiv(k, s, p0, p1, d).cells = Apply(k, eff).cells
  BY DEF SeqDiv, Apply, Good, KvType
<1> HIDE DEF J, eff
<1> QED
  BY <1>1, <1>2, <1>3, ApplyClean

LEMMA PurgedShift ==
    ASSUME NEW c \in Cell, NEW over
    PROVE  /\ Purged(c, over).shift = c.shift \/ Purged(c, over).shift = 0
           /\ (IsEmpty(c) => c.shift = 0) => (IsEmpty(Purged(c, over)) => Purged(c, over).shift = 0)
  BY DEF Purged, Empty, Cell, IsEmpty

LEMMA PlacedClean ==
    ASSUME NEW k, Good(k), Clean(k.cells), NEW ubatch \in Seq(ProperToken),
           NEW slot, SlotFor(slot, ubatch)
    PROVE  Clean(ApplyUbatch(k, slot, ubatch).cells)
<1> SUFFICES ASSUME NEW i \in Cells, IsEmpty(ApplyUbatch(k, slot, ubatch).cells[i])
             PROVE  ApplyUbatch(k, slot, ubatch).cells[i].shift = 0
  BY DEF Clean
<1> DEFINE c == IF i \in DOMAIN slot THEN TokenCell(ubatch[slot[i]]) ELSE k.cells[i]
<1>1. c \in Cell /\ (IsEmpty(c) => c.shift = 0)
  <2>1. i \in DOMAIN slot => ubatch[slot[i]] \in ProperToken
    BY DEF SlotFor
  <2> QED
    BY <2>1, GoodCell DEF Clean, TokenCell, ProperToken, Cell
<1>2. ApplyUbatch(k, slot, ubatch).cells[i] = Purged(c, Overwritten(k.cells, slot))
  BY PlacedCells DEF Placed
<1> HIDE DEF c
<1> QED
  BY <1>1, <1>2, PurgedShift

LEMMA ResetClean ==
    ASSUME NEW k, Good(k)
    PROVE  Clean(ResetShift(k).cells)
<1>1. ResetShift(k).cells = [i \in Cells |-> [k.cells[i] EXCEPT !.shift = 0]]
  BY DEF ResetShift, Good, KvType
<1>2. \A i \in Cells : k.cells[i] \in Cell
  BY GoodCell
<1> QED
  BY <1>1, <1>2 DEF Clean, Cell

LEMMA RemovedClean ==
    ASSUME Good(kv), Clean(kv.cells), NEW ubatch
    PROVE  Clean(Removed(ubatch).cells)
<1> DEFINE firsts == {FirstSeq(ubatch[k]) : k \in DOMAIN ubatch}
           from == [s \in firsts |->
               Least({ubatch[k].pos : k \in {l \in DOMAIN ubatch : FirstSeq(ubatch[l]) = s}})]
           Gone(i) == {s \in firsts \cap kv.cells[i].seq : kv.cells[i].pos >= from[s]}
           J == {i \in Cells : Gone(i) # {}}
           eff == [i \in J |-> Leave(kv.cells[i], Gone(i))]
<1>1. J \in SUBSET Cells /\ DOMAIN eff = J
  OBVIOUS
<1>2. ASSUME NEW i \in J PROVE Tidy(eff[i]) /\ Coherent(kv.cells[i], eff[i])
  <2> HIDE DEF from, firsts
  <2>1. Gone(i) \in SUBSET kv.cells[i].seq /\ Gone(i) # {}
    OBVIOUS
  <2>2. eff[i] = Leave(kv.cells[i], Gone(i))
    OBVIOUS
  <2> HIDE DEF Gone
  <2> QED
    BY <2>1, <2>2, GoodCell, LeaveCoherent, LeaveTidy
<1>3. Removed(ubatch) = LowerHead(Apply(kv, eff), Freed(eff))
  BY DEF Removed, Leave
<1> HIDE DEF J, eff
<1>4. Clean(Apply(kv, eff).cells) /\ Good(Apply(kv, eff))
  BY <1>1, <1>2, ApplyClean, ApplyGood
<1> QED
  BY <1>3, <1>4, LowerHeadCells, Zenon

-----------------------------------------------------------------------------
\* The slots of the decode in progress

\* an empty cell, or under a window one of a single sequence: what find_slot may choose
Lone(c) == IsEmpty(c) \/ (SwaType # "none" /\ \E s \in Seqs : c.seq = {s})

InSlot(slots, i, u) == i \in DOMAIN slots[u]

\* cell i is in no slot from m up to, not including, f
Untouched(slots, i, m, f) == \A v \in m..(f - 1) : ~InSlot(slots, i, v)

\* f is the first slot from m on that contains cell i, or one more than the last slot
NextSlot(slots, i, m, f) ==
    /\ f \in m..(Len(slots) + 1)
    /\ f <= Len(slots) => InSlot(slots, i, f)
    /\ Untouched(slots, i, m, f)

\* cell i is what it was before the first slot from m on that contains it
Returns(cells, slots, before, i, m) ==
    \A f \in m..(Len(slots) + 1) : NextSlot(slots, i, m, f) => Same(cells[i], before[f][i])

LEMMA FindSlotUsable ==
    ASSUME NEW k, NEW n, NEW i \in DOMAIN FindSlot(k, n)
    PROVE  i \in Cells /\ Usable(k, i)
<1> DEFINE start == IF k.head > Cardinality(k.used) + 2 * n THEN 0 ELSE k.head
           usable == {j \in Cells : Usable(k, j)}
           Before(j) == {l \in usable : (l - start) % Size < (j - start) % Size}
           chosen == {j \in usable : Cardinality(Before(j)) < n}
           slot == [j \in chosen |-> Cardinality(Before(j)) + 1]
<1>1. FindSlot(k, n) = IF Cardinality(usable) < n THEN NoSlot ELSE slot
  BY DEF FindSlot
<1>2. DOMAIN NoSlot = {} /\ DOMAIN slot = chosen
  BY DEF NoSlot
<1>3. i \in chosen
  <2> HIDE DEF usable, chosen, slot
  <2> QED
    BY <1>1, <1>2
<1> QED
  BY <1>3

\* find_slot's condition, without a window only empty cells
LEMMA UsableLone ==
    ASSUME NEW k, NEW i, Usable(k, i)
    PROVE  Lone(k.cells[i])
<1>1. \A p, q : SwaType = "none" => ~IsMaskedSwa(p, q)
  BY DEF IsMaskedSwa
<1> QED
  BY <1>1 DEF Usable, Lone

\* every cell has a next slot: the least of the slots that contain it
LEMMA NextExists ==
    ASSUME NEW T, NEW slots \in Seq(T), NEW i, NEW m \in 1..(Len(slots) + 1)
    PROVE  \E f \in m..(Len(slots) + 1) : NextSlot(slots, i, m, f)
<1> DEFINE n == Len(slots)
           S == {f \in m..(n + 1) : f <= n => InSlot(slots, i, f)}
<1>1. n \in Nat /\ m \in Nat /\ m <= n + 1
  OBVIOUS
<1> HIDE DEF n
<1>2. S \in SUBSET (0..(n + 1)) /\ S # {} /\ n + 1 \in Nat
  <2>1. n + 1 \in m..(n + 1) /\ ~(n + 1 <= n)
    BY <1>1
  <2>2. n + 1 \in S
    BY <2>1
  <2>3. m..(n + 1) \subseteq 0..(n + 1) /\ n + 1 \in Nat
    BY <1>1
  <2> QED
    BY <2>2, <2>3
<1>3. Least(S) \in S /\ \A y \in S : Least(S) <= y
  <2> HIDE DEF S
  <2> QED
    BY <1>2, LeastExists
<1>4. PICK f \in S : \A y \in S : f <= y
  BY <1>3
<1>5. Untouched(slots, i, m, f)
  <2>1. SUFFICES ASSUME NEW v \in m..(f - 1), InSlot(slots, i, v) PROVE FALSE
    BY DEF Untouched
  <2>2. v \in S
    BY <1>1, <1>4, <2>1
  <2>3. f \in Nat /\ v \in Nat /\ v < f
    BY <1>1, <1>4, <2>1
  <2> QED
    BY <1>4, <2>2, <2>3
<1> QED
  BY <1>4, <1>5 DEF NextSlot, n

-----------------------------------------------------------------------------
\* What the trial met

\* before[u] are the cells before the u-th trial placement, before[u + 1] those after it
TrialOK(slots, ubatches, before) ==
    /\ Len(before) = Len(slots) + 1
    /\ \A u \in 1..Len(slots), i \in Cells : InSlot(slots, i, u) => Lone(before[u][i])
    /\ \A u \in 1..Len(slots), i \in Cells :
          before[u + 1][i] = Placed(before[u], slots[u], ubatches[u], i)
    /\ \A a \in 1..(Len(slots) + 1) : \A b \in a..(Len(slots) + 1), i \in Cells :
          Untouched(slots, i, a, b) => Forgets(before[b][i], before[a][i])

LEMMA TrialBegins ==
    ASSUME NEW c, NEW ubatches
    PROVE  TrialOK(<<>>, ubatches, <<c>>)
<1>1. Len(<<c>>) = 1 /\ <<c>>[1] = c /\ Len(<<>>) = 0
  OBVIOUS
<1>2. ASSUME NEW a \in 1..1, NEW b \in a..1, NEW i \in Cells
      PROVE  Forgets(<<c>>[b][i], <<c>>[a][i])
  <2>1. a = 1 /\ b = 1
    OBVIOUS
  <2> QED
    BY <2>1 DEF Forgets, Same
<1> QED
  BY <1>1, <1>2 DEF TrialOK

\* A slot chosen and placed on the cells that the trial has reached goes on with it.
LEMMA TrialGoesOn ==
    ASSUME NEW slots \in Seq(SlotType), NEW ubatches, NEW before \in Seq([Cells -> Cell]),
           TrialOK(slots, ubatches, before),
           NEW slot \in SlotType, NEW after \in [Cells -> Cell],
           \A i \in DOMAIN slot : i \in Cells /\ Lone(before[Len(slots) + 1][i]),
           \A i \in Cells : after[i] = Placed(before[Len(slots) + 1], slot, ubatches[Len(slots) + 1], i)
    PROVE  TrialOK(Append(slots, slot), ubatches, Append(before, after))
<1> DEFINE n == Len(slots)
           new == Append(slots, slot)
           next == Append(before, after)
<1>1. n \in Nat /\ Len(before) = n + 1
  BY DEF TrialOK
<1>2. /\ Len(new) = n + 1
      /\ \A u \in 1..n : new[u] = slots[u]
      /\ new[n + 1] = slot
  OBVIOUS
<1>3. /\ Len(next) = n + 2
      /\ \A u \in 1..(n + 1) : next[u] = before[u]
      /\ next[n + 2] = after
  BY <1>1
<1> HIDE DEF n, new, next
<1>4. Len(next) = Len(new) + 1
  BY <1>1, <1>2, <1>3
<1>5. ASSUME NEW u \in 1..(n + 1), NEW i \in Cells, InSlot(new, i, u) PROVE Lone(next[u][i])
  <2>1. CASE u \in 1..n
    BY <1>1, <1>2, <1>3, <1>5, <2>1 DEF TrialOK, InSlot, n
  <2>2. CASE u = n + 1
    BY <1>1, <1>2, <1>3, <1>5, <2>2 DEF InSlot, n
  <2> QED
    BY <1>1, <2>1, <2>2
<1>6. ASSUME NEW u \in 1..(n + 1), NEW i \in Cells
      PROVE  next[u + 1][i] = Placed(next[u], new[u], ubatches[u], i)
  <2>1. CASE u \in 1..n
    <3>1. u + 1 \in 1..(n + 1) /\ u \in 1..(n + 1)
      BY <1>1, <2>1
    <3>2. before[u + 1][i] = Placed(before[u], slots[u], ubatches[u], i)
      BY <2>1 DEF TrialOK, n
    <3> QED
      BY <1>2, <1>3, <2>1, <3>1, <3>2
  <2>2. CASE u = n + 1
    <3>1. u + 1 = n + 2
      BY <1>1, <2>2
    <3> QED
      BY <1>2, <1>3, <2>2, <3>1 DEF n
  <2> QED
    BY <1>1, <2>1, <2>2
<1>7. ASSUME NEW a \in 1..(n + 2), NEW b \in a..(n + 2), NEW i \in Cells, Untouched(new, i, a, b)
      PROVE  Forgets(next[b][i], next[a][i])
  <2>1. \A c : Forgets(c, c)
    BY DEF Forgets, Same
  <2>2. ASSUME b \in 1..(n + 1) PROVE Forgets(next[b][i], next[a][i])
    <3>1. a \in 1..(n + 1) /\ b \in a..(n + 1)
      BY <1>1, <2>2
    <3>2. Untouched(slots, i, a, b)
      <4>1. \A v \in a..(b - 1) : v \in 1..n
        BY <1>1, <3>1
      <4> QED
        BY <1>2, <1>7, <4>1 DEF Untouched, InSlot
    <3>3. Forgets(before[b][i], before[a][i])
      BY <3>1, <3>2 DEF TrialOK, n
    <3> QED
      BY <1>3, <2>2, <3>1, <3>3
  <2>3. ASSUME b = n + 2, a \in 1..(n + 1) PROVE Forgets(next[b][i], next[a][i])
    <3>1. i \notin DOMAIN slot
      <4>1. n + 1 \in a..(b - 1)
        BY <1>1, <2>3
      <4> QED
        BY <1>2, <1>7, <4>1 DEF Untouched, InSlot
    <3>2. Untouched(slots, i, a, n + 1)
      <4>1. \A v \in a..((n + 1) - 1) : v \in a..(b - 1) /\ v \in 1..n
        BY <1>1, <2>3
      <4> QED
        BY <1>2, <1>7, <4>1 DEF Untouched, InSlot
    <3>3. n + 1 \in a..(n + 1)
      BY <1>1, <2>3
    <3>4. Forgets(before[n + 1][i], before[a][i])
      BY <2>3, <3>2, <3>3 DEF TrialOK, n
    <3> DEFINE over == Overwritten(before[n + 1], slot)
    <3>5. SwaType = "none" => over = {}
      BY DEF Overwritten, Lone, n
    <3>6. before[n + 1][i] \in Cell
      BY <1>1
    <3>7. after[i] = Purged(before[n + 1][i], over)
      BY <3>1 DEF Placed, n
    <3> HIDE DEF over
    <3>8. Forgets(after[i], before[n + 1][i])
      BY <3>5, <3>6, <3>7, PurgedForgets
    <3> QED
      BY <1>1, <1>3, <2>3, <3>4, <3>8, ForgetsTrans
  <2>4. b \in 1..(n + 1) \/ (b = n + 2 /\ a \in 1..(n + 1)) \/ (b = n + 2 /\ a = n + 2)
    BY <1>1
  <2> QED
    BY <2>1, <2>2, <2>3, <2>4
<1>8. Len(new) + 1 = n + 2
  BY <1>1, <1>2
<1>9. TrialOK(new, ubatches, next)
  <2>1. \A u \in 1..Len(new), i \in Cells : InSlot(new, i, u) => Lone(next[u][i])
    BY <1>2, <1>5
  <2>2. \A u \in 1..Len(new), i \in Cells :
           next[u + 1][i] = Placed(next[u], new[u], ubatches[u], i)
    BY <1>2, <1>6
  <2>3. \A a \in 1..(Len(new) + 1) : \A b \in a..(Len(new) + 1), i \in Cells :
           Untouched(new, i, a, b) => Forgets(next[b][i], next[a][i])
    BY <1>7, <1>8
  <2> QED
    BY <1>4, <2>1, <2>2, <2>3 DEF TrialOK
<1> QED
  BY <1>9 DEF new, next

-----------------------------------------------------------------------------
\* The invariant of a trial

\* the copies that prepare keeps are the cells that the trial met
SavedMatches(saved, slots, before) ==
    /\ Len(saved) <= Len(slots)
    /\ \A l \in 1..Len(saved) :
          /\ DOMAIN saved[l].cells = DOMAIN slots[l]
          /\ \A i \in DOMAIN slots[l] : Same(saved[l].cells[i], before[l][i])

\* a trial placement loses the shift of the cells of its slot, and nothing puts it back
Unshifted(cells, slots) == \A u \in 1..Len(slots) : \A i \in DOMAIN slots[u] : cells[i].shift = 0

\* the ubatches before a were placed: a cell of their slots is what the trial had made of it, every other
\* one what it was before the next slot that contains it
AppliedOK(cells, slots, before, a) ==
    \A i \in Cells :
        IF Untouched(slots, i, 1, a) THEN Returns(cells, slots, before, i, a)
                                     ELSE Same(cells[i], before[a][i])

TrialInv ==
    /\ Clean(kv.cells)
    /\ job.phase # "idle" => TrialOK(job.slots, job.ubatches, trial)
    /\ job.phase = "prepare" => kv.cells = trial[Len(job.slots) + 1] /\ Len(job.saved) = Len(job.slots)
    /\ job.phase \in {"prepare", "restore"} =>
          /\ SavedMatches(job.saved, job.slots, trial)
          /\ Unshifted(kv.cells, job.slots)
          /\ \A i \in Cells : Returns(kv.cells, job.slots, trial, i, Len(job.saved) + 1)
    /\ job.phase = "apply" => AppliedOK(kv.cells, job.slots, trial, job.cur)
    /\ job.phase = "compute" => AppliedOK(kv.cells, job.slots, trial, job.cur + 1)

LEMMA TrialInvInit == Init => TrialInv
  BY DEF Init, InitKv, Empty, NoJob, Clean, TrialInv

LEMMA StateReadClean ==
    ASSUME KvInv, TrialInv, NEW s \in Seqs, NEW p0 \in Pos, NEW n \in 1..Size, NEW readOk \in BOOLEAN,
           StateRead(s, p0, n, readOk)
    PROVE  Clean(kv'.cells)
<1> DEFINE ubatch == [k \in 1..n |-> [pos |-> p0 + k - 1, seq |-> {s}]]
           removed == SeqRm(kv, s, 0, Infinity)
           slot == FindSlot(removed, n)
           placed == ApplyUbatch(removed, slot, ubatch)
<1>1. Good(kv) /\ Clean(kv.cells)
  BY DEF KvInv, TrialInv
<1>2. Good(removed) /\ Clean(removed.cells)
  BY <1>1, SeqRmGood, SeqRmClean
<1>3. ubatch \in Seq(ProperToken) /\ Len(ubatch) = n
  BY StateReadUbatch DEF StateRead
<1>4. n \in Nat
  BY SizeAssumption
<1> HIDE DEF removed, ubatch
<1>5. DOMAIN slot # {} => SlotFor(slot, ubatch)
  BY <1>3, <1>4, FindSlotRange DEF SlotFor
<1> HIDE DEF slot
<1>6. DOMAIN slot # {} => Good(placed) /\ Clean(placed.cells)
  BY <1>2, <1>3, <1>5, ApplyUbatchGood, PlacedClean
<1>7. kv' = IF ~(DOMAIN slot # {}) THEN removed
            ELSE IF readOk THEN placed ELSE SeqRm(placed, s, 0, Infinity)
  BY DEF StateRead, removed, slot, ubatch
<1> HIDE DEF placed
<1> QED
  BY <1>2, <1>6, <1>7, SeqRmClean

LEMMA MemoryCallTrial ==
    ASSUME KvInv, TrialInv,
           \/ Clear
           \/ \E s \in Seqs, r \in Ranges : SeqRmCall(s, r)
           \/ \E r \in Ranges : SeqRmAnyCall(r)
           \/ \E src, dst \in Seqs, r \in Ranges : SeqCpCall(src, dst, r)
           \/ \E s \in Seqs : SeqKeepCall(s)
           \/ \E s \in Seqs, r \in Ranges, d \in Shifts : SeqAddCall(s, r, d)
           \/ \E s \in Seqs, r \in Ranges, d \in Divisors : SeqDivCall(s, r, d)
           \/ \E s \in Seqs, p0 \in Pos, n \in 1..Size, readOk \in BOOLEAN : StateRead(s, p0, n, readOk)
    PROVE  TrialInv'
<1>0. Good(kv) /\ Clean(kv.cells)
  BY DEF KvInv, TrialInv
<1>1. ASSUME job' = job, Idle, Clean(kv'.cells) PROVE TrialInv'
  BY <1>1 DEF Idle, TrialInv
<1>2. CASE Clear
  BY <1>1, <1>2 DEF Clear, InitKv, Empty, Clean
<1>3. CASE \E s \in Seqs, r \in Ranges : SeqRmCall(s, r)
  <2>1. PICK s \in Seqs, r \in Ranges : SeqRmCall(s, r)
    BY <1>3
  <2> QED
    BY <1>0, <1>1, <2>1, SeqRmClean DEF SeqRmCall, Metadata
<1>4. CASE \E r \in Ranges : SeqRmAnyCall(r)
  <2>1. PICK r \in Ranges : SeqRmAnyCall(r)
    BY <1>4
  <2> QED
    BY <1>0, <1>1, <2>1, SeqRmAnyClean DEF SeqRmAnyCall, Metadata
<1>5. CASE \E src, dst \in Seqs, r \in Ranges : SeqCpCall(src, dst, r)
  <2>1. PICK src \in Seqs, dst \in Seqs, r \in Ranges : SeqCpCall(src, dst, r)
    BY <1>5
  <2> QED
    BY <1>0, <1>1, <2>1, SeqCpClean DEF SeqCpCall, Metadata
<1>6. CASE \E s \in Seqs : SeqKeepCall(s)
  <2>1. PICK s \in Seqs : SeqKeepCall(s)
    BY <1>6
  <2> QED
    BY <1>0, <1>1, <2>1, SeqKeepClean DEF SeqKeepCall, Metadata
<1>7. CASE \E s \in Seqs, r \in Ranges, d \in Shifts : SeqAddCall(s, r, d)
  <2>1. PICK s \in Seqs, r \in Ranges, d \in Shifts : SeqAddCall(s, r, d)
    BY <1>7
  <2>2. d \in Int
    BY ShiftsAssumption
  <2> QED
    BY <1>0, <1>1, <2>1, <2>2, SeqAddClean DEF SeqAddCall, Metadata
<1>8. CASE \E s \in Seqs, r \in Ranges, d \in Divisors : SeqDivCall(s, r, d)
  <2>1. PICK s \in Seqs, r \in Ranges, d \in Divisors : SeqDivCall(s, r, d)
    BY <1>8
  <2>2. d \in Nat \ {0}
    BY ShiftsAssumption
  <2> QED
    BY <1>0, <1>1, <2>1, <2>2, SeqDivClean DEF SeqDivCall
<1>9. CASE \E s \in Seqs, p0 \in Pos, n \in 1..Size, readOk \in BOOLEAN : StateRead(s, p0, n, readOk)
  <2>1. PICK s \in Seqs, p0 \in Pos, n \in 1..Size, readOk \in BOOLEAN : StateRead(s, p0, n, readOk)
    BY <1>9
  <2>2. Clean(kv'.cells)
    BY <2>1, StateReadClean
  <2> QED
    BY <1>1, <2>1, <2>2 DEF StateRead
<1> QED
  BY <1>2, <1>3, <1>4, <1>5, <1>6, <1>7, <1>8, <1>9

LEMMA DecodeBeginTrial ==
    ASSUME KvInv, TrialInv, NEW b \in Batches, NEW shiftOk \in BOOLEAN, DecodeBegin(b, shiftOk)
    PROVE  TrialInv'
<1>1. Clean(kv'.cells)
  <2>1. CASE kv.hasShift /\ shiftOk
    BY <2>1, ResetClean DEF DecodeBegin, KShift, KvInv
  <2>2. CASE ~(kv.hasShift /\ shiftOk)
    BY <2>2 DEF DecodeBegin, KShift, TrialInv
  <2> QED
    BY <2>1, <2>2
<1>2. /\ job'.phase = "prepare" /\ job'.slots = <<>> /\ job'.saved = <<>>
      /\ trial' = <<kv'.cells>>
  BY DEF DecodeBegin, NoJob
<1>3. TrialOK(job'.slots, job'.ubatches, trial')
  BY <1>2, TrialBegins
<1>4. Len(job'.slots) = 0 /\ Len(job'.saved) = 0 /\ trial'[1] = kv'.cells
  BY <1>2
<1>5. SavedMatches(job'.saved, job'.slots, trial') /\ Unshifted(kv'.cells, job'.slots)
  BY <1>4 DEF SavedMatches, Unshifted
<1>6. \A i \in Cells : Returns(kv'.cells, job'.slots, trial', i, Len(job'.saved) + 1)
  BY <1>4 DEF Returns, Same
<1>7. trial'[Len(job'.slots) + 1] = kv'.cells
  BY <1>4
<1> QED
  BY <1>1, <1>2, <1>3, <1>4, <1>5, <1>6, <1>7 DEF TrialInv

LEMMA PrepareUbatchTrial ==
    ASSUME KvInv, TrialInv, PrepareUbatch
    PROVE  TrialInv'
<1> DEFINE slot == FindSlot(kv, Len(Current))
           entry == [cells |-> Copy(kv, slot), head |-> kv.head]
           n == Len(job.slots)
<1>1. Good(kv) /\ Clean(kv.cells) /\ JobOK /\ JobShape(job) /\ trial \in Seq([Cells -> Cell])
  BY DEF KvInv, TrialInv
<1>2. Current \in Seq(ProperToken) /\ Len(Current) \in Nat
  BY CurrentType DEF PrepareUbatch
<1>3. SlotFor(slot, Current) /\ slot \in SlotType /\ \A i \in DOMAIN slot : i \in Cells /\ Lone(kv.cells[i])
  <2>1. SlotFor(slot, Current) /\ slot \in SlotType
    BY <1>2, FindSlotRange, FindSlotType DEF SlotFor, PrepareUbatch
  <2>2. ASSUME NEW i \in DOMAIN slot PROVE i \in Cells /\ Lone(kv.cells[i])
    BY FindSlotUsable, UsableLone
  <2> QED
    BY <2>1, <2>2
<1>4. /\ DOMAIN entry.cells = DOMAIN slot
      /\ \A i \in DOMAIN slot : Same(entry.cells[i], kv.cells[i])
  <2>1. ASSUME NEW i \in DOMAIN slot PROVE Same(Copy(kv, slot)[i], kv.cells[i])
    <3>1. kv.cells[i] \in Cell
      BY <1>1, <1>3, GoodCell
    <3> QED
      BY <3>1 DEF Copy, Same, Cell
  <2> QED
    BY <2>1 DEF Copy
<1> HIDE DEF slot, entry
<1>5. /\ job.phase = "prepare" /\ job.cur <= Len(job.ubatches)
      /\ job' = [job EXCEPT !.slots = Append(@, slot), !.saved = Append(@, entry), !.cur = @ + 1]
      /\ kv' = ApplyUbatch(kv, slot, Current)
      /\ trial' = Append(trial, kv'.cells)
  BY DEF PrepareUbatch, slot, entry
<1>6. /\ job'.phase = "prepare" /\ job'.ubatches = job.ubatches
      /\ job'.slots = Append(job.slots, slot) /\ job'.saved = Append(job.saved, entry)
  BY <1>1, <1>5 DEF JobShape
<1>7. /\ job.slots \in Seq(SlotType) /\ n \in Nat /\ job.saved \in Seq(SavedType)
      /\ Len(job.saved) = n /\ job.cur = n + 1 /\ kv.cells = trial[n + 1]
      /\ TrialOK(job.slots, job.ubatches, trial) /\ Len(trial) = n + 1
      /\ SavedMatches(job.saved, job.slots, trial) /\ Unshifted(kv.cells, job.slots)
  BY <1>1, <1>5 DEF JobOK, TrialInv, TrialOK
<1>8. Good(kv') /\ Clean(kv'.cells) /\ kv'.cells \in [Cells -> Cell]
  <2>1. Good(kv') /\ Clean(kv'.cells)
    BY <1>1, <1>2, <1>3, <1>5, ApplyUbatchGood, PlacedClean
  <2> QED
    BY <2>1 DEF Good, KvType
<1>9. \A i \in Cells : kv'.cells[i] = Placed(trial[n + 1], slot, job.ubatches[n + 1], i)
  BY <1>1, <1>2, <1>3, <1>5, <1>7, PlacedCells DEF Current
<1>10. TrialOK(job'.slots, job'.ubatches, trial')
  <2>1. \A i \in DOMAIN slot : i \in Cells /\ Lone(trial[Len(job.slots) + 1][i])
    BY <1>3, <1>7
  <2>2. TrialOK(Append(job.slots, slot), job.ubatches, Append(trial, kv'.cells))
    BY <1>1, <1>3, <1>7, <1>8, <1>9, <2>1, TrialGoesOn
  <2> QED
    BY <1>5, <1>6, <2>2
<1> HIDE DEF n
<1>11. /\ Len(job'.slots) = n + 1 /\ Len(job'.saved) = n + 1 /\ trial'[n + 2] = kv'.cells
       /\ \A u \in 1..n : job'.slots[u] = job.slots[u] /\ job'.saved[u] = job.saved[u]
                           /\ trial'[u] = trial[u]
       /\ job'.slots[n + 1] = slot /\ job'.saved[n + 1] = entry /\ trial'[n + 1] = trial[n + 1]
  <2>1. /\ Len(job'.slots) = n + 1 /\ job'.slots[n + 1] = slot
        /\ \A u \in 1..n : job'.slots[u] = job.slots[u]
    BY <1>6, <1>7 DEF n
  <2>2. /\ Len(job'.saved) = n + 1 /\ job'.saved[n + 1] = entry
        /\ \A u \in 1..n : job'.saved[u] = job.saved[u]
    BY <1>6, <1>7
  <2>3. /\ trial'[n + 2] = kv'.cells
        /\ \A u \in 1..(n + 1) : trial'[u] = trial[u]
    BY <1>1, <1>5, <1>7
  <2>4. n + 1 \in 1..(n + 1) /\ \A u \in 1..n : u \in 1..(n + 1)
    BY <1>7
  <2> QED
    BY <2>1, <2>2, <2>3, <2>4
<1>12. SavedMatches(job'.saved, job'.slots, trial')
  <2>1. ASSUME NEW l \in 1..(n + 1)
        PROVE  /\ DOMAIN job'.saved[l].cells = DOMAIN job'.slots[l]
               /\ \A i \in DOMAIN job'.slots[l] : Same(job'.saved[l].cells[i], trial'[l][i])
    <3>1. CASE l \in 1..n
      BY <1>7, <1>11, <3>1 DEF SavedMatches
    <3>2. CASE l = n + 1
      <4>1. trial'[l] = kv.cells /\ job'.saved[l] = entry /\ job'.slots[l] = slot
        BY <1>7, <1>11, <3>2
      <4> QED
        BY <1>4, <4>1
    <3> QED
      BY <1>7, <3>1, <3>2
  <2> QED
    BY <1>11, <2>1 DEF SavedMatches
<1>13. Unshifted(kv'.cells, job'.slots)
  <2>1. SUFFICES ASSUME NEW u \in 1..(n + 1), NEW i \in DOMAIN job'.slots[u]
                 PROVE  kv'.cells[i].shift = 0
    BY <1>11 DEF Unshifted
  <2>2. i \in Cells
    <3>1. CASE u \in 1..n
      BY <1>1, <1>11, <3>1 DEF JobOK, SlotFor, n
    <3>2. CASE u = n + 1
      BY <1>3, <1>11, <3>2
    <3> QED
      BY <1>7, <3>1, <3>2
  <2> DEFINE c == IF i \in DOMAIN slot THEN TokenCell(Current[slot[i]]) ELSE kv.cells[i]
  <2>3. kv'.cells[i] = Purged(c, Overwritten(kv.cells, slot))
    BY <1>7, <1>9, <2>2 DEF Placed, Current
  <2>4. c \in Cell /\ c.shift = 0
    <3>1. CASE i \in DOMAIN slot
      <4>1. Current[slot[i]] \in ProperToken
        BY <1>2, <1>3, <3>1 DEF SlotFor
      <4> QED
        BY <3>1, <4>1 DEF TokenCell, ProperToken, Cell
    <3>2. CASE i \notin DOMAIN slot
      <4>1. u # n + 1
        BY <1>11, <3>2
      <4>2. u \in 1..n
        BY <1>7, <4>1
      <4>3. i \in DOMAIN job.slots[u]
        BY <1>11, <4>2
      <4>4. kv.cells[i].shift = 0
        BY <1>7, <4>2, <4>3 DEF Unshifted, n
      <4> QED
        BY <1>1, <2>2, <3>2, <4>4, GoodCell
    <3> QED
      BY <3>1, <3>2
  <2> HIDE DEF c
  <2> QED
    BY <2>3, <2>4, PurgedShift
<1>14. ASSUME NEW i \in Cells PROVE Returns(kv'.cells, job'.slots, trial', i, Len(job'.saved) + 1)
  <2>1. ASSUME NEW f \in (n + 2)..(n + 2) PROVE Same(kv'.cells[i], trial'[f][i])
    BY <1>7, <1>11 DEF Same
  <2>2. Len(job'.saved) + 1 = n + 2 /\ Len(job'.slots) + 1 = n + 2
    BY <1>7, <1>11
  <2> QED
    BY <2>1, <2>2 DEF Returns
<1>15. kv'.cells = trial'[Len(job'.slots) + 1]
  <2>1. Len(job'.slots) + 1 = n + 2
    BY <1>7, <1>11
  <2> QED
    BY <1>11, <2>1
<1> QED
  BY <1>6, <1>8, <1>10, <1>11, <1>12, <1>13, <1>14, <1>15 DEF TrialInv

\* putting one slot back
LEMMA RestoredCells ==
    ASSUME NEW k, Good(k), NEW saved, SavedOK(saved), NEW i \in Cells
    PROVE  /\ Restore(k, saved).cells[i].shift = k.cells[i].shift
           /\ IF i \in DOMAIN saved.cells THEN Same(Restore(k, saved).cells[i], saved.cells[i])
                                          ELSE Restore(k, saved).cells[i] = k.cells[i]
<1> DEFINE J == DOMAIN saved.cells
           eff == [j \in J |-> SetFrom(k.cells[j], saved.cells[j])]
<1>1. J \in SUBSET Cells /\ DOMAIN eff = J
  BY DEF SavedOK
<1>2. Restore(k, saved).cells = Apply(k, eff).cells
  BY DEF Restore, Apply, Good, KvType
<1>3. Apply(k, eff).cells[i] = IF i \in J THEN eff[i].cell ELSE k.cells[i]
  <2> HIDE DEF J, eff
  <2> QED
    BY <1>1, ApplyCells
<1>4. i \in J => eff[i].cell = [k.cells[i] EXCEPT !.pos = saved.cells[i].pos, !.seq = saved.cells[i].seq]
  BY DEF SetFrom, Effect
<1>5. k.cells[i] \in Cell
  BY GoodCell
<1> HIDE DEF eff
<1> QED
  BY <1>2, <1>3, <1>4, <1>5 DEF Same, Cell

LEMMA RestoreOneTrial ==
    ASSUME KvInv, TrialInv, RestoreOne
    PROVE  TrialInv'
<1> DEFINE l == Len(job.saved)
           n == Len(job.slots)
<1>1. /\ Good(kv) /\ Clean(kv.cells) /\ JobOK /\ JobShape(job) /\ job.saved \in Seq(SavedType)
      /\ l \in Nat \ {0} /\ n \in Nat /\ SavedOK(job.saved[l]) /\ job.slots \in Seq(SlotType)
  <2>1. /\ Good(kv) /\ Clean(kv.cells) /\ JobOK /\ JobShape(job) /\ job.saved \in Seq(SavedType)
        /\ job.slots \in Seq(SlotType) /\ job.saved # <<>>
    BY DEF KvInv, TrialInv, JobOK, RestoreOne
  <2>2. l \in Nat \ {0} /\ n \in Nat /\ l \in 1..l
    BY <2>1
  <2> QED
    BY <2>1, <2>2 DEF JobOK
<1>2. /\ job'.phase = "restore" /\ job'.ubatches = job.ubatches
      /\ job'.slots = job.slots /\ job'.saved = SubSeq(job.saved, 1, l - 1)
      /\ trial' = trial /\ kv' = Restore(kv, job.saved[l])
  BY <1>1 DEF JobShape, RestoreOne
<1>3. /\ TrialOK(job.slots, job.ubatches, trial) /\ SavedMatches(job.saved, job.slots, trial)
      /\ Unshifted(kv.cells, job.slots)
      /\ \A i \in Cells : Returns(kv.cells, job.slots, trial, i, l + 1)
  BY DEF TrialInv, RestoreOne
<1>4. l <= n /\ DOMAIN job.saved[l].cells = DOMAIN job.slots[l] /\ l \in 1..n
        /\ \A i \in DOMAIN job.slots[l] : Same(job.saved[l].cells[i], trial[l][i])
  <2>1. l <= n
    BY <1>3 DEF SavedMatches
  <2>2. l \in 1..l /\ l \in 1..n
    BY <1>1, <2>1
  <2> QED
    BY <1>3, <2>1, <2>2 DEF SavedMatches
<1>5. Len(job'.saved) = l - 1 /\ \A m \in 1..(l - 1) : job'.saved[m] = job.saved[m]
  BY <1>1, <1>2
<1>6. ASSUME NEW i \in Cells
      PROVE  /\ kv'.cells[i].shift = kv.cells[i].shift
             /\ IF i \in DOMAIN job.slots[l] THEN Same(kv'.cells[i], trial[l][i])
                                             ELSE kv'.cells[i] = kv.cells[i]
  <2>1. /\ kv'.cells[i].shift = kv.cells[i].shift
        /\ IF i \in DOMAIN job.saved[l].cells THEN Same(kv'.cells[i], job.saved[l].cells[i])
                                              ELSE kv'.cells[i] = kv.cells[i]
    BY <1>1, <1>2, RestoredCells
  <2> QED
    BY <1>4, <2>1 DEF Same
<1>7. ASSUME NEW u \in 1..n, NEW i \in DOMAIN job.slots[u] PROVE i \in Cells
  BY <1>1 DEF JobOK, SlotFor
<1>8. Unshifted(kv'.cells, job'.slots)
  BY <1>2, <1>3, <1>6, <1>7 DEF Unshifted
<1>9. Clean(kv'.cells)
  <2>1. SUFFICES ASSUME NEW i \in Cells, IsEmpty(kv'.cells[i]) PROVE kv'.cells[i].shift = 0
    BY DEF Clean
  <2>2. CASE i \in DOMAIN job.slots[l]
    BY <1>3, <1>4, <1>6, <2>2 DEF Unshifted
  <2>3. CASE i \notin DOMAIN job.slots[l]
    BY <1>1, <1>6, <2>1, <2>3 DEF Clean
  <2> QED
    BY <2>2, <2>3
<1>10. SavedMatches(job'.saved, job'.slots, trial')
  <2>1. \A m \in 1..(l - 1) : m \in 1..l
    BY <1>1
  <2>2. l - 1 <= n
    BY <1>1, <1>4
  <2> QED
    BY <1>2, <1>3, <1>5, <2>1, <2>2 DEF SavedMatches
<1>11. ASSUME NEW i \in Cells PROVE Returns(kv'.cells, job'.slots, trial', i, Len(job'.saved) + 1)
  <2>1. SUFFICES ASSUME NEW f \in l..(n + 1), NextSlot(job.slots, i, l, f)
                 PROVE  Same(kv'.cells[i], trial[f][i])
    <3>1. Len(job'.saved) + 1 = l
      BY <1>1, <1>5
    <3> QED
      BY <1>2, <3>1 DEF Returns
  <2>2. CASE f = l
    BY <1>4, <1>6, <2>1, <2>2 DEF NextSlot, InSlot
  <2>3. CASE f # l
    <3>1. f \in (l + 1)..(n + 1) /\ l \in l..(f - 1)
      BY <1>1, <2>3
    <3>2. i \notin DOMAIN job.slots[l]
      BY <2>1, <3>1 DEF NextSlot, Untouched, InSlot
    <3>3. NextSlot(job.slots, i, l + 1, f)
      <4>1. \A v \in (l + 1)..(f - 1) : v \in l..(f - 1)
        BY <1>1
      <4> QED
        BY <2>1, <3>1, <4>1 DEF NextSlot, Untouched
    <3> QED
      BY <1>3, <1>6, <3>1, <3>2, <3>3 DEF Returns
  <2> QED
    BY <2>2, <2>3
<1> QED
  BY <1>2, <1>3, <1>8, <1>9, <1>10, <1>11 DEF TrialInv

\* The slot of the next ubatch still holds the cells that the trial met.
LEMMA SlotFits ==
    ASSUME KvInv, TrialInv, job.phase = "apply", NEW i \in DOMAIN job.slots[job.cur]
    PROVE  i \in Cells /\ Same(kv.cells[i], trial[job.cur][i]) /\ Lone(trial[job.cur][i])
<1> DEFINE c == job.cur
           n == Len(job.slots)
<1>1. c \in 1..n /\ n \in Nat /\ TrialOK(job.slots, job.ubatches, trial)
        /\ AppliedOK(kv.cells, job.slots, trial, c)
  BY DEF KvInv, TrialInv, JobOK, ProperUbatches
<1>2. i \in Cells
  BY <1>1 DEF KvInv, JobOK, SlotFor
<1>3. NextSlot(job.slots, i, c, c)
  BY <1>1 DEF NextSlot, InSlot, Untouched
<1>4. c \in c..(n + 1)
  BY <1>1
<1>5. Same(kv.cells[i], trial[c][i])
  <2> HIDE DEF c
  <2> QED
    BY <1>1, <1>2, <1>3, <1>4 DEF AppliedOK, Returns
<1> QED
  BY <1>1, <1>2, <1>5 DEF TrialOK, InSlot

LEMMA ApplyCurrentTrial ==
    ASSUME KvInv, TrialInv, ApplyCurrent
    PROVE  TrialInv'
<1> DEFINE c == job.cur
           n == Len(job.slots)
           slot == job.slots[c]
           over == Overwritten(kv.cells, slot)
           met == Overwritten(trial[c], slot)
<1>1. /\ Good(kv) /\ Clean(kv.cells) /\ JobOK /\ JobShape(job) /\ trial \in Seq([Cells -> Cell])
      /\ job.phase = "apply" /\ c \in 1..n /\ n \in Nat /\ c <= Len(job.ubatches)
      /\ TrialOK(job.slots, job.ubatches, trial) /\ AppliedOK(kv.cells, job.slots, trial, c)
      /\ Len(trial) = n + 1
  BY DEF KvInv, TrialInv, JobOK, ApplyCurrent, ProperUbatches, TrialOK
<1>2. Current \in Seq(ProperToken) /\ SlotFor(slot, Current) /\ Current = job.ubatches[c]
  BY <1>1, CurrentType DEF JobOK, Current
<1>3. /\ job'.phase = "compute" /\ job'.ubatches = job.ubatches /\ job'.slots = job.slots
      /\ job'.cur = c /\ trial' = trial /\ kv' = ApplyUbatch(kv, slot, Current)
  BY <1>1 DEF JobShape, ApplyCurrent
<1>4. Clean(kv'.cells)
  <2> HIDE DEF slot
  <2> QED
    BY <1>1, <1>2, <1>3, PlacedClean
<1>5. \A i \in DOMAIN slot : i \in Cells /\ Same(kv.cells[i], trial[c][i])
  BY <1>1, SlotFits
<1>6. kv.cells \in [Cells -> Cell] /\ \A u \in 1..(n + 1) : trial[u] \in [Cells -> Cell]
  BY <1>1 DEF Good, KvType
<1>7. c + 1 \in 1..(n + 1) /\ c \in 1..(n + 1)
  BY <1>1
<1>8. ASSUME NEW i \in Cells
      PROVE  /\ kv'.cells[i] = Placed(kv.cells, slot, Current, i)
             /\ trial[c + 1][i] = Placed(trial[c], slot, Current, i)
  <2>1. trial[c + 1][i] = Placed(trial[c], slot, Current, i)
    BY <1>1, <1>2 DEF TrialOK
  <2> HIDE DEF slot
  <2> QED
    BY <1>1, <1>2, <1>3, <2>1, PlacedCells
<1>9. SameCover(met, over)
  <2>1. \A j \in DOMAIN slot : Same(trial[c][j], kv.cells[j])
    BY <1>5 DEF Same
  <2> HIDE DEF slot
  <2> QED
    BY <2>1, OverwrittenSame
<1> HIDE DEF c, n, slot
<1>10. ASSUME NEW i \in Cells, i \in DOMAIN slot \/ Same(kv.cells[i], trial[c][i])
       PROVE  Same(kv'.cells[i], trial[c + 1][i])
  BY <1>2, <1>5, <1>6, <1>7, <1>8, <1>10, PlacedSame
<1>11. ASSUME NEW i \in Cells, Untouched(job.slots, i, 1, c + 1)
       PROVE  Returns(kv'.cells, job.slots, trial, i, c + 1)
  <2>1. SUFFICES ASSUME NEW f \in (c + 1)..(n + 1), NextSlot(job.slots, i, c + 1, f)
                 PROVE  Same(kv'.cells[i], trial[f][i])
    BY DEF Returns, n
  <2>2. i \notin DOMAIN slot /\ Untouched(job.slots, i, 1, c)
    <3>1. c \in 1..((c + 1) - 1) /\ \A v \in 1..(c - 1) : v \in 1..((c + 1) - 1)
      BY <1>1
    <3> QED
      BY <1>11, <3>1 DEF Untouched, InSlot, slot
  <2>3. Untouched(job.slots, i, c + 1, f)
    BY <2>1 DEF NextSlot
  <2>4. NextSlot(job.slots, i, c, f) /\ f \in c..(n + 1)
    <3>1. f \in c..(n + 1)
      BY <1>1
    <3>2. ASSUME NEW v \in c..(f - 1) PROVE ~InSlot(job.slots, i, v)
      <4>1. v = c \/ v \in (c + 1)..(f - 1)
        BY <1>1
      <4> QED
        BY <2>2, <2>3, <4>1 DEF Untouched, InSlot, slot
    <3>3. Untouched(job.slots, i, c, f)
      BY <3>2 DEF Untouched
    <3> QED
      BY <2>1, <3>1, <3>3 DEF NextSlot, n
  <2>5. Same(kv.cells[i], trial[f][i])
    BY <1>1, <2>2, <2>4 DEF AppliedOK, Returns, n
  <2>6. Forgets(trial[f][i], trial[c + 1][i])
    BY <1>1, <1>7, <2>1, <2>3 DEF TrialOK, n
  <2>7. trial[c + 1][i] = Purged(trial[c][i], met) /\ kv'.cells[i] = Purged(kv.cells[i], over)
    BY <1>8, <2>2 DEF Placed
  <2>8. f \in 1..(n + 1)
    BY <1>1
  <2>9. kv.cells[i] \in Cell /\ trial[f][i] \in Cell /\ trial[c][i] \in Cell
    BY <1>6, <1>7, <2>8
  <2> HIDE DEF met, over
  <2>10. Purged(kv.cells[i], over) = kv.cells[i]
    BY <1>9, <2>5, <2>6, <2>7, <2>9, PurgedOnce
  <2> QED
    BY <2>5, <2>7, <2>10
<1>12. ASSUME NEW i \in Cells, ~Untouched(job.slots, i, 1, c + 1)
       PROVE  Same(kv'.cells[i], trial[c + 1][i])
  <2>1. CASE i \in DOMAIN slot
    BY <1>10, <2>1
  <2>2. CASE i \notin DOMAIN slot
    <3>1. ~Untouched(job.slots, i, 1, c)
      <4>1. PICK v \in 1..((c + 1) - 1) : InSlot(job.slots, i, v)
        BY <1>12 DEF Untouched
      <4>2. v # c
        BY <2>2, <4>1 DEF InSlot, slot
      <4>3. v \in 1..(c - 1)
        BY <1>1, <4>2
      <4> QED
        BY <4>1, <4>3 DEF Untouched
    <3>2. Same(kv.cells[i], trial[c][i])
      BY <1>1, <3>1 DEF AppliedOK
    <3> QED
      BY <1>10, <3>2
  <2> QED
    BY <2>1, <2>2
<1>13. AppliedOK(kv'.cells, job'.slots, trial', job'.cur + 1)
  BY <1>3, <1>11, <1>12 DEF AppliedOK
<1> QED
  BY <1>1, <1>3, <1>4, <1>13 DEF TrialInv

\* the steps that leave the cells alone, and the one that ends the decode
LEMMA PhaseTrial ==
    ASSUME KvInv, TrialInv, PrepareEnds \/ PrepareFailed \/ PrepareDone \/ ComputeOk \/ ComputeFails
    PROVE  TrialInv'
<1>1. Good(kv) /\ Clean(kv.cells) /\ JobOK /\ JobShape(job) /\ Len(job.ubatches) \in Nat
        /\ Len(job.slots) \in Nat /\ Len(job.saved) \in Nat
  BY DEF KvInv, TrialInv, JobOK, ProperUbatches
<1>2. CASE PrepareEnds
  <2>1. /\ job.phase = "prepare" /\ job'.phase = "restore" /\ job'.ubatches = job.ubatches
        /\ job'.slots = job.slots /\ job'.saved = job.saved /\ trial' = trial /\ kv' = kv
    BY <1>1, <1>2 DEF JobShape, PrepareEnds
  <2> QED
    BY <2>1 DEF TrialInv
<1>3. CASE PrepareDone
  <2>1. /\ job.phase = "restore" /\ job'.phase = "apply" /\ job'.ubatches = job.ubatches
        /\ job'.slots = job.slots /\ job.saved = <<>> /\ job'.cur = 1 /\ trial' = trial /\ kv' = kv
    BY <1>1, <1>3 DEF JobShape, PrepareDone
  <2>2. Len(job.saved) + 1 = 1
    BY <2>1
  <2>3. \A i \in Cells : Returns(kv.cells, job.slots, trial, i, 1) /\ Untouched(job.slots, i, 1, 1)
    <3>1. \A i \in Cells : Returns(kv.cells, job.slots, trial, i, Len(job.saved) + 1)
      BY <2>1 DEF TrialInv
    <3> QED
      BY <2>2, <3>1 DEF Untouched
  <2>4. AppliedOK(kv'.cells, job'.slots, trial', job'.cur)
    BY <2>1, <2>3 DEF AppliedOK
  <2>5. TrialOK(job'.slots, job'.ubatches, trial')
    BY <2>1 DEF TrialInv
  <2> QED
    BY <1>1, <2>1, <2>4, <2>5 DEF TrialInv
<1>4. CASE PrepareFailed
  BY <1>1, <1>4 DEF PrepareFailed, NoJob, TrialInv
<1>5. CASE ComputeOk
  <2>1. kv' = kv
    BY <1>5 DEF ComputeOk
  <2>2. CASE job' = NoJob
    BY <1>1, <2>1, <2>2 DEF NoJob, TrialInv
  <2>3. CASE job.cur # Len(job.ubatches)
    <3>1. /\ job.phase = "compute" /\ job'.phase = "apply" /\ job'.ubatches = job.ubatches
          /\ job'.slots = job.slots /\ job'.cur = job.cur + 1 /\ trial' = trial
      BY <1>1, <1>5, <2>3 DEF JobShape, ComputeOk
    <3> QED
      BY <1>1, <2>1, <3>1 DEF TrialInv
  <2> QED
    BY <1>5, <2>2, <2>3 DEF ComputeOk
<1>6. CASE ComputeFails
  <2>1. Clean(kv'.cells)
    BY <1>1, <1>6, RemovedClean DEF ComputeFails
  <2> QED
    BY <1>6, <2>1 DEF ComputeFails, NoJob, TrialInv
<1> QED
  BY <1>2, <1>3, <1>4, <1>5, <1>6

LEMMA TrialStutters ==
    ASSUME TrialInv, UNCHANGED vars
    PROVE  TrialInv'
  BY DEF TrialInv, vars

LEMMA TrialStep ==
    ASSUME KvInv, TrialInv, Next
    PROVE  TrialInv'
<1>1. CASE \E b \in Batches, shiftOk \in BOOLEAN : DecodeBegin(b, shiftOk)
  BY <1>1, DecodeBeginTrial
<1> QED
  BY <1>1, MemoryCallTrial, PrepareUbatchTrial, RestoreOneTrial, ApplyCurrentTrial, PhaseTrial DEF Next

\* What the trial of prepare met and left is known in every reachable state.
THEOREM TrialInvariant == Spec => [](KvInv /\ TrialInv)
<1>1. Init => TrialInv
  BY TrialInvInit
<1>2. KvInv /\ TrialInv /\ [Next]_vars => TrialInv'
  BY TrialStep, TrialStutters
<1> QED
  BY <1>1, <1>2, KvInvariant, PTL DEF Spec

LEMMA TrialInvImplies == KvInv /\ TrialInv => SlotStillFits
<1> SUFFICES ASSUME KvInv, TrialInv, job.phase = "apply", NEW i \in DOMAIN job.slots[job.cur]
             PROVE  /\ Same(kv.cells[i], trial[job.cur][i])
                    /\ IsEmpty(kv.cells[i]) \/ \E s \in Seqs : kv.cells[i].seq = {s}
  BY DEF SlotStillFits
<1> QED
  BY SlotFits DEF Lone, Same, IsEmpty

\* When a ubatch is applied, the cells of its slot are what they were when find_slot chose them, empty or
\* of a single sequence, for every sequence of memory calls and of ubatches before it: apply_ubatch never
\* clears a cell that several sequences share.
THEOREM SlotsStillFit == Spec => []SlotStillFits
  BY TrialInvariant, TrialInvImplies, PTL

\* A prepare that fails has changed no cell into another one; a cell lost owners at most, and only under
\* a window.
THEOREM FailedPrepareForgets == Spec => FailedPrepareOnlyForgets
<1>1. ASSUME KvInv, TrialInv, PrepareFailed, NEW i \in Cells
      PROVE  /\ kv.cells[i].seq \subseteq trial[1][i].seq
             /\ kv.cells[i].seq # {} => kv.cells[i].pos = trial[1][i].pos
             /\ SwaType = "none" => Same(kv.cells[i], trial[1][i])
  <2> DEFINE n == Len(job.slots)
  <2>1. /\ job.phase = "restore" /\ job.saved = <<>> /\ job.slots \in Seq(SlotType) /\ n \in Nat
        /\ TrialOK(job.slots, job.ubatches, trial)
        /\ Returns(kv.cells, job.slots, trial, i, Len(job.saved) + 1)
    BY <1>1 DEF PrepareFailed, KvInv, JobOK, TrialInv
  <2>2. Len(job.saved) + 1 = 1
    BY <2>1
  <2>3. 1 \in 1..(n + 1)
    BY <2>1
  <2>4. PICK f \in 1..(n + 1) : NextSlot(job.slots, i, 1, f)
    BY <2>1, <2>3, NextExists
  <2>5. Same(kv.cells[i], trial[f][i])
    BY <2>1, <2>2, <2>4 DEF Returns
  <2>6. Forgets(trial[f][i], trial[1][i])
    BY <2>1, <2>3, <2>4 DEF TrialOK, NextSlot
  <2> QED
    BY <2>5, <2>6 DEF Forgets, Same
<1>2. KvInv /\ TrialInv /\ [Next]_vars =>
          [PrepareFailed => \A i \in Cells :
              /\ kv.cells[i].seq \subseteq trial[1][i].seq
              /\ kv.cells[i].seq # {} => kv.cells[i].pos = trial[1][i].pos
              /\ SwaType = "none" => Same(kv.cells[i], trial[1][i])]_vars
  BY <1>1
<1> QED
  BY <1>2, TrialInvariant, PTL DEF FailedPrepareOnlyForgets, Spec
=============================================================================
