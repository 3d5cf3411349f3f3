----------------------------- MODULE FoldTheory -----------------------------
(***************************************************************************)
(* Induction over numbers, and what a fold over a sequence computes step   *)
(* by step.  The operator of the fold is a constant of this module: a      *)
(* proof about a fold instantiates the module with the operator at hand.   *)
(***************************************************************************)
EXTENDS SequencesExt, WellFoundedInduction, TLAPS

CONSTANT Op(_, _)

Fold(base, seq) == FoldLeft(Op, base, seq)

\* g is the fold of every set of positions up to m, the last position last.
IsIter(g, base, seq, m) ==
    g = [s \in SUBSET (1..m) |->
           IF s = {} THEN base ELSE Op(g[s \ {Max(s)}], seq[Max(s)])]
-----------------------------------------------------------------------------
(***************************************************************************)
(* Induction for a set of numbers: it has a least element left out, or     *)
(* none.                                                                   *)
(***************************************************************************)
LEMMA NatSetInduction ==
  ASSUME NEW S, 0 \in S, \A n \in Nat : n \in S => n + 1 \in S
  PROVE  Nat \subseteq S
<1> DEFINE R == OpToRel(<, Nat)
           T == Nat \ S
<1> SUFFICES ASSUME T # {} PROVE FALSE
  OBVIOUS
<1>1. IsWellFoundedOn(R, Nat)
  BY NatLessThanWellFounded
<1>2. T \subseteq Nat
  OBVIOUS
<1> HIDE DEF T
<1>3. PICK x \in T : \A y \in T : ~(<<y, x>> \in R)
  <2> HIDE DEF R
  <2> QED
    BY <1>1, <1>2, WFMin
<1>4. \A y \in T : ~(y < x)
  BY <1>2, <1>3 DEF OpToRel
<1> QED
  BY <1>2, <1>4 DEF T

\* Induction up to a bound.
LEMMA UpTo ==
  ASSUME NEW n \in Nat, NEW S, 0 \in S, \A i \in 0..(n - 1) : i \in S => i + 1 \in S
  PROVE  n \in S /\ \A i \in 0..n : i \in S
<1> DEFINE T == S \cup {i \in Nat : i > n}
<1>1. 0 \in T /\ \A i \in Nat : i \in T => i + 1 \in T
  OBVIOUS
<1> HIDE DEF T
<1>2. Nat \subseteq T
  BY <1>1, NatSetInduction
<1> QED
  BY <1>2 DEF T
-----------------------------------------------------------------------------
\* The largest number of a set is the one no other exceeds.
LEMMA MaxIs ==
  ASSUME NEW s, NEW m \in s, s \subseteq Int, \A k \in s : k <= m
  PROVE  Max(s) = m
<1>1. \E x \in s : \A y \in s : x >= y
  OBVIOUS
<1>2. Max(s) \in s /\ \A y \in s : Max(s) >= y
  BY <1>1 DEF Max
<1>3. Max(s) \in Int /\ m \in Int /\ Max(s) >= m /\ Max(s) <= m
  BY <1>2
<1> QED
  BY <1>3

\* The recursion of a fold has a solution: that of one position more extends it.
LEMMA IterExists ==
  ASSUME NEW n \in Nat, NEW base, NEW seq
  PROVE  \A m \in 0..n : \E g : IsIter(g, base, seq, m)
<1> DEFINE S == {m \in 0..n : \E g : IsIter(g, base, seq, m)}
<1>1. 0 \in S
  <2> DEFINE g == [s \in SUBSET (1..0) |-> base]
  <2>1. \A s \in SUBSET (1..0) : s = {}
    OBVIOUS
  <2>2. IsIter(g, base, seq, 0)
    BY <2>1 DEF IsIter
  <2> HIDE DEF g
  <2> QED
    BY <2>2
<1>2. ASSUME NEW m \in 0..(n - 1), m \in S PROVE m + 1 \in S
  <2>1. PICK g : IsIter(g, base, seq, m)
    BY <1>2
  <2> DEFINE h == [s \in SUBSET (1..(m + 1)) |->
                     IF m + 1 \in s THEN Op(g[s \ {m + 1}], seq[m + 1]) ELSE g[s]]
             body(s) == IF s = {} THEN base ELSE Op(h[s \ {Max(s)}], seq[Max(s)])
  <2>2. ASSUME NEW s \in SUBSET (1..(m + 1)) PROVE h[s] = body(s)
    <3>1. CASE m + 1 \in s
      <4>1. Max(s) = m + 1
        <5>1. s \subseteq Int /\ m + 1 \in s /\ \A k \in s : k <= m + 1
          BY <3>1
        <5> QED
          BY <5>1, MaxIs
      <4>2. s \ {m + 1} \in SUBSET (1..m) /\ h[s \ {m + 1}] = g[s \ {m + 1}]
        OBVIOUS
      <4> QED
        BY <3>1, <4>1, <4>2
    <3>2. CASE m + 1 \notin s
      <4>1. s \in SUBSET (1..m)
        BY <3>2
      <4>2. s \ {Max(s)} \in SUBSET (1..m)
        BY <4>1
      <4>3. h[s] = g[s] /\ h[s \ {Max(s)}] = g[s \ {Max(s)}]
        BY <3>2, <4>1, <4>2
      <4>4. g[s] = IF s = {} THEN base ELSE Op(g[s \ {Max(s)}], seq[Max(s)])
        BY <2>1, <4>1 DEF IsIter
      <4> QED
        BY <4>3, <4>4
    <3> QED
      BY <3>1, <3>2
  <2>3. h = [s \in SUBSET (1..(m + 1)) |-> body(s)]
    <3> HIDE DEF body
    <3> QED
      BY <2>2
  <2>4. IsIter(h, base, seq, m + 1)
    <3> HIDE DEF h
    <3> QED
      BY <2>3 DEF IsIter
  <2> QED
    BY <2>4
<1> HIDE DEF S
<1>3. \A m \in 0..n : m \in S
  BY <1>1, <1>2, UpTo
<1> QED
  BY <1>3 DEF S

\* A fold is the value of such a solution at all positions.
LEMMA FoldIsIter ==
  ASSUME NEW base, NEW seq, NEW n \in Nat, DOMAIN seq = 1..n
  PROVE  \E g : IsIter(g, base, seq, n) /\ Fold(base, seq) = g[1..n]
<1>1. \E g : IsIter(g, base, seq, n)
  BY IterExists
<1> DEFINE it == CHOOSE g : IsIter(g, base, seq, n)
<1>2. Fold(base, seq) = it[1..n]
  BY DEF Fold, FoldLeft, MapThenFoldSet, IsIter
<1>3. IsIter(it, base, seq, n)
  BY <1>1
<1> HIDE DEF it
<1> QED
  BY <1>2, <1>3

(***************************************************************************)
(* A fold is the last of a sequence of values that starts with the base    *)
(* and takes in one element at a time.                                     *)
(***************************************************************************)
LEMMA Steps ==
  ASSUME NEW base, NEW seq, NEW n \in Nat, DOMAIN seq = 1..n
  PROVE  \E f : /\ f[0] = base
                /\ \A i \in 1..n : f[i] = Op(f[i - 1], seq[i])
                /\ f[n] = Fold(base, seq)
<1>1. PICK g : IsIter(g, base, seq, n) /\ Fold(base, seq) = g[1..n]
  BY FoldIsIter
<1> DEFINE f == [i \in 0..n |-> g[1..i]]
<1>2. g[{}] = base
  BY <1>1 DEF IsIter
<1>3. ASSUME NEW i \in 1..n PROVE g[1..i] = Op(g[1..(i - 1)], seq[i])
  <2>1. i \in 1..i /\ 1..i \subseteq Int /\ \A k \in 1..i : k <= i
    OBVIOUS
  <2>2. Max(1..i) = i
    BY <2>1, MaxIs
  <2>3. \A k : k \in (1..i) \ {i} <=> k \in 1..(i - 1)
    OBVIOUS
  <2>4. (1..i) \ {i} = 1..(i - 1)
    BY <2>3
  <2>5. 1..i # {} /\ 1..i \in SUBSET (1..n)
    BY <2>1
  <2> QED
    BY <1>1, <2>2, <2>4, <2>5 DEF IsIter
<1>4. 1..0 = {}
  OBVIOUS
<1>5. f[0] = base /\ \A i \in 1..n : f[i] = Op(f[i - 1], seq[i])
  BY <1>2, <1>3, <1>4
<1>6. f[n] = Fold(base, seq)
  BY <1>1
<1> HIDE DEF f
<1> QED
  BY <1>5, <1>6

\* Values that follow from each other, one for each position, exist.
LEMMA Recursion ==
  ASSUME NEW base, NEW n \in Nat, NEW arg
  PROVE  \E f : f[0] = base /\ \A i \in 1..n : f[i] = Op(f[i - 1], arg[i])
<1> DEFINE seq == [i \in 1..n |-> arg[i]]
<1>1. DOMAIN seq = 1..n /\ \A i \in 1..n : seq[i] = arg[i]
  OBVIOUS
<1> HIDE DEF seq
<1>2. PICK f : /\ f[0] = base
               /\ \A i \in 1..n : f[i] = Op(f[i - 1], seq[i])
               /\ f[n] = Fold(base, seq)
  BY <1>1, Steps
<1> QED
  BY <1>1, <1>2
=============================================================================
