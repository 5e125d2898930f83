-------------------------------- MODULE Loop --------------------------------
(***************************************************************************)
(* The rule for the loops over the slots of update_slots() and of the      *)
(* launch of a task.  A turn of the loop takes a state to the set of its   *)
(* outcomes; Good(c, S, k) says what holds of a state S after k turns.  c  *)
(* is what the loop is about and does not change, such as the slot whose   *)
(* children it visits.  The proofs instantiate this module once for every  *)
(* loop.                                                                   *)
(***************************************************************************)
EXTENDS Integers, TLAPS, WellFoundedInduction

CONSTANTS
    N,              \* the number of turns
    Turn(_, _, _),  \* the outcomes of a turn
    Good(_, _, _)   \* the invariant of the loop

\* the states after all turns, from one of the states in outcomes
After(c, outcomes) ==
    LET after[s \in 0 .. N] == IF s = 0 THEN outcomes ELSE UNION {Turn(c, S, s) : S \in after[s - 1]}
    IN  after[N]

\* The least number of a set.
LEMMA LeastNumber == \A K \in SUBSET Nat : K # {} => \E x \in K : \A y \in K : x <= y
<1> SUFFICES ASSUME NEW K \in SUBSET Nat, K # {}
             PROVE  \E x \in K : \A y \in K : x <= y
  OBVIOUS
<1> DEFINE R == OpToRel(<, Nat)
<1>1. PICK x \in K : \A y \in K : <<y, x>> \notin R
  <2>1. IsWellFoundedOn(R, Nat)
    BY NatLessThanWellFounded
  <2> HIDE DEF R
  <2> QED
    BY <2>1, WFMin
<1>2. \A y \in Nat : y < x => <<y, x>> \in R
  <2>1. x \in Nat
    OBVIOUS
  <2>2. ASSUME NEW y \in Nat, y < x
        PROVE  <<y, x>> \in {ss \in Nat \X Nat : ss[1] < ss[2]}
    BY <2>1, <2>2
  <2> QED
    BY <2>2 DEF OpToRel
<1> HIDE DEF R
<1>3. \A y \in K : ~(y < x)
  BY <1>1, <1>2
<1> QED
  BY <1>3

\* The function in the definition of After exists.
Turns(c, outcomes, n, f) ==
    f = [s \in 0 .. n |-> IF s = 0 THEN outcomes ELSE UNION {Turn(c, S, s) : S \in f[s - 1]}]
LEMMA AfterExists ==
    ASSUME NEW c, NEW outcomes
    PROVE  \A n \in Nat : \E f : Turns(c, outcomes, n, f)
<1> DEFINE Body(f, n) == f = [s \in 0 .. n |-> IF s = 0 THEN outcomes ELSE UNION {Turn(c, S, s) : S \in f[s - 1]}]
           K == {n \in Nat : ~\E f : Body(f, n)}
<1> SUFFICES ASSUME K # {} PROVE FALSE
  BY DEF Turns
<1>1. PICK m \in K : \A y \in K : m <= y
  BY LeastNumber
<1>2. m # 0
  <2>1. Body([s \in 0 .. 0 |-> outcomes], 0)
    OBVIOUS
  <2> QED
    BY <1>1, <2>1
<1>3. m - 1 \in Nat /\ m - 1 \notin K
  <2>1. m \in Nat /\ m - 1 \in Nat /\ ~(m <= m - 1)
    BY <1>1, <1>2
  <2> QED
    BY <1>1, <2>1
<1>4. PICK f : Body(f, m - 1)
  BY <1>3
<1> DEFINE g == [s \in 0 .. m |-> IF s = m THEN UNION {Turn(c, S, m) : S \in f[m - 1]} ELSE f[s]]
<1>5. ASSUME NEW s \in 0 .. m
      PROVE  g[s] = IF s = 0 THEN outcomes ELSE UNION {Turn(c, S, s) : S \in g[s - 1]}
  <2>0. m \in Nat /\ m # 0 /\ s \in Nat /\ s <= m
    BY <1>1, <1>2
  <2>1. CASE s = m
    <3>1. m - 1 \in 0 .. m /\ m - 1 # m
      BY <2>0
    <3>2. g[s - 1] = f[m - 1]
      BY <2>1, <3>1
    <3>3. g[s] = UNION {Turn(c, S, m) : S \in f[m - 1]}
      BY <2>1
    <3> QED
      BY <2>0, <2>1, <3>2, <3>3
  <2>2. CASE s # m
    <3>1. s \in 0 .. m - 1 /\ g[s] = f[s]
      BY <2>0, <2>2
    <3>2. f[s] = IF s = 0 THEN outcomes ELSE UNION {Turn(c, S, s) : S \in f[s - 1]}
      BY <1>4, <3>1
    <3>3. s # 0 => g[s - 1] = f[s - 1]
      <4>1. s # 0 => s - 1 \in 0 .. m /\ s - 1 # m
        BY <2>0, <2>2
      <4> QED
        BY <4>1
    <3> HIDE DEF g
    <3> QED
      BY <3>1, <3>2, <3>3
  <2> QED
    BY <2>1, <2>2
<1>6. Body(g, m)
  <2>1. g = [s \in 0 .. m |-> g[s]]
    OBVIOUS
  <2> HIDE DEF g
  <2> QED
    BY <1>5, <2>1
<1> QED
  BY <1>1, <1>6

\* What holds before the first turn, and is preserved by every turn, holds after the last one.
LEMMA LoopRule ==
    ASSUME NEW c, NEW outcomes, N \in Nat,
           \A S \in outcomes : Good(c, S, 0),
           \A s \in 1 .. N : \A S : Good(c, S, s - 1) => \A T \in Turn(c, S, s) : Good(c, T, s)
    PROVE  \A S \in After(c, outcomes) : Good(c, S, N)
<1> DEFINE Body(f) == f = [s \in 0 .. N |-> IF s = 0 THEN outcomes ELSE UNION {Turn(c, S, s) : S \in f[s - 1]}]
           after == CHOOSE f : Body(f)
<1>1. Body(after)
  <2>1. \E f : Turns(c, outcomes, N, f)
    BY AfterExists
  <2>2. \E f : Body(f)
    BY <2>1 DEF Turns
  <2> QED
    BY <2>2
<1>2. After(c, outcomes) = after[N]
  BY DEF After
<1> HIDE DEF after
<1> DEFINE K == {n \in 0 .. N : ~\A S \in after[n] : Good(c, S, n)}
<1>3. K = {}
  <2> SUFFICES ASSUME K # {} PROVE FALSE
    OBVIOUS
  <2>1. PICK m \in K : \A y \in K : m <= y
    <3>1. K \in SUBSET Nat
      OBVIOUS
    <3> QED
      BY <3>1, LeastNumber
  <2>2. m # 0
    <3>1. 0 \in 0 .. N
      OBVIOUS
    <3>2. after[0] = outcomes
      BY <1>1, <3>1
    <3> QED
      BY <2>1, <3>2
  <2>3. m \in 1 .. N /\ m - 1 \in 0 .. N /\ m - 1 \notin K
    <3>1. m \in 0 .. N /\ ~(m <= m - 1) /\ m - 1 \in 0 .. N /\ m \in 1 .. N
      BY <2>1, <2>2
    <3> QED
      BY <2>1, <3>1
  <2>4. after[m] = UNION {Turn(c, S, m) : S \in after[m - 1]}
    BY <1>1, <2>3
  <2>5. \A S \in after[m - 1] : Good(c, S, m - 1)
    BY <2>3
  <2> QED
    BY <2>1, <2>3, <2>4, <2>5
<1> QED
  BY <1>2, <1>3
=============================================================================
