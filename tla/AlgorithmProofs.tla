--------------------------- MODULE AlgorithmProofs ---------------------------
(***************************************************************************)
(* What the algorithms of MCAlgorithms compute, for inputs of any size.    *)
(* Each fold is unrolled by an instance of FoldTheory; what it computes is *)
(* then an induction over its steps.                                       *)
(***************************************************************************)
EXTENDS MCAlgorithms, TLAPS

\* What each part grows its sequences from.
Element == [p \in DOMAIN Inputs |-> <<Inputs[p][1], Inputs[p][3]>>]

\* Both sequences of an instance stay within what they grow from.
Grown ==
    /\ part \in DOMAIN Inputs
    /\ first \in Seq(Element[part][1])
    /\ second \in Seq(Element[part][2])

\* Whatever is checked is a sequence of the inputs of its part.
LEMMA AlwaysGrown == Spec => []Grown
<1>1. Init => Grown
  BY DEF Init, Grown
<1>2. Grown /\ [Next]_<<part, first, second>> => Grown'
  <2> SUFFICES ASSUME Grown, [Next]_<<part, first, second>> PROVE Grown'
    OBVIOUS
  <2>1. CASE GrowFirst
    <3>1. PICK e \in Inputs[part][1] : first' = Append(first, e)
      BY <2>1 DEF GrowFirst
    <3>2. Element[part][1] = Inputs[part][1]
      BY DEF Grown, Element
    <3> QED
      BY <2>1, <3>1, <3>2 DEF Grown, GrowFirst
  <2>2. CASE GrowSecond
    <3>1. PICK e \in Inputs[part][3] : second' = Append(second, e)
      BY <2>2 DEF GrowSecond
    <3>2. Element[part][2] = Inputs[part][3]
      BY DEF Grown, Element
    <3> QED
      BY <2>2, <3>1, <3>2 DEF Grown, GrowSecond
  <2>3. CASE UNCHANGED <<part, first, second>>
    BY <2>3 DEF Grown
  <2> QED
    BY <2>1, <2>2, <2>3 DEF Next
<1> QED
  BY <1>1, <1>2, PTL DEF Spec
-----------------------------------------------------------------------------
(***************************************************************************)
(* MerkleTree                                                              *)
(***************************************************************************)

\* One turn of the loop of merkle_root, which a level of one node leaves.
Up(level) == IF Len(level) > 1 THEN NextLevel(level) ELSE level

\* The same as MerkleRoot folds it over the leaves, of which it counts only
\* the number.
Climb(level, leaf) == Up(level)

\* Its fold, step by step.
Climbs == INSTANCE FoldTheory WITH Op <- Climb

\* A list of n elements, whatever they are.
IsList(s, n) == n \in Nat /\ DOMAIN s = 1..n /\ Len(s) = n

\* A sequence is the list of its elements.
LEMMA ListFact ==
  ASSUME NEW n \in Nat, NEW T, NEW s \in Seq(T), Len(s) = n
  PROVE  IsList(s, n)
BY DEF IsList

\* A function on 1..n is a list of n elements.
LEMMA LenFact ==
  ASSUME NEW n \in Nat, NEW T, NEW s \in [1..n -> T]
  PROVE  IsList(s, n)
BY DEF IsList

\* next_level halves a level, rounding up: a node is made of the two it
\* stands over, the last of them taken twice when it has no sibling.
LEMMA NextLevelFact ==
  ASSUME NEW n \in Nat \ {0}, NEW level, IsList(level, n)
  PROVE  LET next == NextLevel(level)
             m    == (n + 1) \div 2
         IN  /\ m \in Nat \ {0} /\ IsList(next, m)
             /\ \A j \in 1..m :
                   /\ 2 * j - 1 \in 1..n
                   /\ next[j] = <<level[2 * j - 1], IF 2 * j <= n THEN level[2 * j] ELSE level[2 * j - 1]>>
<1> DEFINE next == NextLevel(level)
           m == (n + 1) \div 2
           T == {next[j] : j \in 1..m}
<1>1. m \in Nat \ {0} /\ \A j \in 1..m : 2 * j - 1 \in 1..n
  OBVIOUS
<1>2. next = [j \in 1..m |-> <<level[2 * j - 1], IF 2 * j <= n THEN level[2 * j] ELSE level[2 * j - 1]>>]
  BY DEF NextLevel, IsList
<1>3. next \in [1..m -> T]
  <2>1. DOMAIN next = 1..m /\ next = [j \in 1..m |-> next[j]]
    BY <1>2
  <2> HIDE DEF next, m
  <2> QED
    BY <2>1
<1>4. IsList(next, m)
  <2> HIDE DEF next, m, T
  <2> QED
    BY <1>1, <1>3, LenFact
<1>5. \A j \in 1..m :
         next[j] = <<level[2 * j - 1], IF 2 * j <= n THEN level[2 * j] ELSE level[2 * j - 1]>>
  <2> HIDE DEF next
  <2> QED
    BY <1>2
<1> QED
  BY <1>1, <1>4, <1>5

(***************************************************************************)
(* The levels of a tree: from the leaves up, each half as long as the one  *)
(* before, until one node is left, which is the root.                      *)
(***************************************************************************)
IsClimb(f, h, leaves) ==
    /\ f[0] = leaves
    /\ \A i \in 1..h : f[i] = NextLevel(f[i - 1])
    /\ \A i \in 0..h : \E l \in Nat \ {0} : IsList(f[i], l) /\ (l = 1 <=> i = h)
    /\ Head(f[h]) = MerkleRoot(leaves)

\* MerkleRoot climbs as many times as there are leaves, and a level of one
\* node stays as it is.
LEMMA ClimbSteps ==
  ASSUME NEW n \in Nat, NEW leaves, DOMAIN leaves = 1..n
  PROVE  \E f : /\ f[0] = leaves
                /\ \A i \in 1..n : f[i] = Up(f[i - 1])
                /\ Head(f[n]) = MerkleRoot(leaves)
<1>1. MerkleRoot(leaves) = Head(Climbs!Fold(leaves, leaves))
  BY DEF MerkleRoot, Climbs!Fold, FoldLeft, Climbs!FoldLeft, MapThenFoldSet,
         Climbs!MapThenFoldSet, Max, Climbs!Max, Climb, Up
<1>2. PICK f : /\ f[0] = leaves
               /\ \A i \in 1..n : f[i] = Climb(f[i - 1], leaves[i])
               /\ f[n] = Climbs!Fold(leaves, leaves)
  BY Climbs!Steps
<1> HIDE DEF Climbs!Fold
<1> QED
  BY <1>1, <1>2 DEF Climb

\* The climb of any list of leaves reaches its root.
LEMMA ClimbExists ==
  ASSUME NEW n \in Nat \ {0}, NEW leaves, IsList(leaves, n)
  PROVE  \E h \in 0..n : \E f : IsClimb(f, h, leaves)
<1>1. PICK f : /\ f[0] = leaves
               /\ \A i \in 1..n : f[i] = Up(f[i - 1])
               /\ Head(f[n]) = MerkleRoot(leaves)
  BY ClimbSteps DEF IsList
<1> DEFINE Short(i) == \E l \in Nat \ {0} : IsList(f[i], l) /\ (l = 1 \/ l <= n - i)
           S == {i \in 0..n : Short(i)}
<1>2. 0 \in S
  <2>1. IsList(f[0], n) /\ n <= n - 0
    BY <1>1
  <2> QED
    BY <2>1
<1>3. ASSUME NEW i \in 0..(n - 1), i \in S PROVE i + 1 \in S
  <2>1. PICK l \in Nat \ {0} : IsList(f[i], l) /\ (l = 1 \/ l <= n - i)
    BY <1>3
  <2>2. f[i + 1] = Up(f[i])
    BY <1>1
  <2>3. CASE l = 1
    <3>1. f[i + 1] = f[i]
      BY <2>1, <2>2, <2>3 DEF Up, IsList
    <3> QED
      BY <2>1, <2>3, <3>1
  <2>4. CASE l # 1
    <3>1. f[i + 1] = NextLevel(f[i])
      BY <2>1, <2>2, <2>4 DEF Up, IsList
    <3>2. (l + 1) \div 2 \in Nat \ {0} /\ IsList(f[i + 1], (l + 1) \div 2)
      BY <2>1, <3>1, NextLevelFact
    <3>3. (l + 1) \div 2 <= n - (i + 1)
      BY <2>1, <2>4
    <3> QED
      BY <3>2, <3>3
  <2> QED
    BY <2>3, <2>4
<1>4. \A i \in 0..n : i \in S
  <2> HIDE DEF S
  <2> QED
    BY <1>2, <1>3, Climbs!UpTo
<1>5. \A i \in 0..n : \E l \in Nat \ {0} : IsList(f[i], l)
  BY <1>4
<1>6. IsList(f[n], 1)
  <2>1. PICK l \in Nat \ {0} : IsList(f[n], l) /\ (l = 1 \/ l <= n - n)
    BY <1>4
  <2> QED
    BY <2>1
<1> HIDE DEF S, Short
<1> DEFINE Top(h) == (\A j \in 0..(h - 1) : ~IsList(f[j], 1)) /\ IsList(f[h], 1)
           R == {i \in 0..n : (\A j \in 0..i : ~IsList(f[j], 1)) \/ \E h \in 0..i : Top(h) /\ f[i] = f[h]}
<1>7. 0 \in R
  BY DEF IsList
<1>8. ASSUME NEW i \in 0..(n - 1), i \in R PROVE i + 1 \in R
  <2>1. CASE \A j \in 0..i : ~IsList(f[j], 1)
    <3>1. CASE IsList(f[i + 1], 1)
      BY <2>1, <3>1
    <3>2. CASE ~IsList(f[i + 1], 1)
      BY <2>1, <3>2
    <3> QED
      BY <3>1, <3>2
  <2>2. CASE \E h \in 0..i : Top(h) /\ f[i] = f[h]
    <3>1. PICK h \in 0..i : Top(h) /\ f[i] = f[h]
      BY <2>2
    <3>2. Len(f[i]) = 1
      BY <3>1 DEF IsList
    <3>3. f[i + 1] = Up(f[i])
      BY <1>1
    <3>4. f[i + 1] = f[i]
      BY <3>2, <3>3 DEF Up
    <3> QED
      BY <3>1, <3>4
  <2> QED
    BY <1>8, <2>1, <2>2
<1>9. n \in R
  <2> HIDE DEF R
  <2> QED
    BY <1>7, <1>8, Climbs!UpTo
<1>10. PICK h \in 0..n : Top(h) /\ f[n] = f[h]
  BY <1>6, <1>9
<1>11. ASSUME NEW i \in 1..h PROVE f[i] = NextLevel(f[i - 1])
  <2>1. PICK l \in Nat \ {0} : IsList(f[i - 1], l)
    BY <1>5
  <2>2. l # 1
    BY <1>10, <2>1
  <2> QED
    BY <1>1, <2>1, <2>2 DEF Up, IsList
<1>12. ASSUME NEW i \in 0..h PROVE \E l \in Nat \ {0} : IsList(f[i], l) /\ (l = 1 <=> i = h)
  <2>1. PICK l \in Nat \ {0} : IsList(f[i], l)
    BY <1>5
  <2>2. l = 1 <=> i = h
    <3>1. CASE i = h
      <4>1. IsList(f[i], 1)
        BY <1>10, <3>1
      <4> QED
        BY <2>1, <3>1, <4>1 DEF IsList
    <3>2. CASE i # h
      <4>1. ~IsList(f[i], 1)
        BY <1>10, <3>2
      <4> QED
        BY <2>1, <3>2, <4>1
    <3> QED
      BY <3>1, <3>2
  <2> QED
    BY <2>1, <2>2
<1>13. IsClimb(f, h, leaves)
  BY <1>1, <1>10, <1>11, <1>12 DEF IsClimb
<1> QED
  BY <1>13

-----------------------------------------------------------------------------
\* The two halves of every node.
Parts(nodes) == {p[1] : p \in nodes} \cup {p[2] : p \in nodes}

\* What a level holds is what the nodes of the next are made of.
LEMMA NextLevelRange ==
  ASSUME NEW n \in Nat \ {0}, NEW level, IsList(level, n)
  PROVE  Range(level) = Parts(Range(NextLevel(level)))
<1>1. PICK next : next = NextLevel(level)
  OBVIOUS
<1>2. PICK m \in Nat \ {0} :
        /\ m = (n + 1) \div 2 /\ IsList(next, m)
        /\ \A j \in 1..m :
              /\ 2 * j - 1 \in 1..n
              /\ next[j] = <<level[2 * j - 1], IF 2 * j <= n THEN level[2 * j] ELSE level[2 * j - 1]>>
  BY <1>1, NextLevelFact
<1>3. DOMAIN level = 1..n /\ DOMAIN next = 1..m
  BY <1>2 DEF IsList
<1>4. ASSUME NEW j \in 1..m
      PROVE  /\ next[j][1] = level[2 * j - 1]
             /\ next[j][2] = IF 2 * j <= n THEN level[2 * j] ELSE level[2 * j - 1]
  BY <1>2
<1>5. ASSUME NEW x \in Range(level) PROVE x \in Parts(Range(next))
  <2>1. PICK i \in 1..n : x = level[i]
    BY <1>3 DEF Range
  <2>2. PICK j \in 1..m : i = 2 * j - 1 \/ i = 2 * j
    <3>1. (i + 1) \div 2 \in 1..m /\ (i = 2 * ((i + 1) \div 2) - 1 \/ i = 2 * ((i + 1) \div 2))
      BY <1>2
    <3> QED
      BY <3>1
  <2>3. x = next[j][1] \/ x = next[j][2]
    BY <1>4, <2>1, <2>2
  <2>4. next[j] \in Range(next)
    BY <1>3 DEF Range
  <2> QED
    BY <2>3, <2>4 DEF Parts
<1>6. ASSUME NEW x \in Parts(Range(next)) PROVE x \in Range(level)
  <2>1. PICK j \in 1..m : x = next[j][1] \/ x = next[j][2]
    BY <1>3 DEF Parts, Range
  <2>2. PICK i \in 1..n : x = level[i]
    <3>1. 2 * j - 1 \in 1..n
      BY <1>2
    <3>2. CASE x = next[j][1]
      BY <1>4, <3>1, <3>2
    <3>3. CASE x = next[j][2] /\ 2 * j <= n
      <4>1. 2 * j \in 1..n /\ x = level[2 * j]
        BY <1>4, <3>3
      <4> QED
        BY <4>1
    <3>4. CASE x = next[j][2] /\ ~(2 * j <= n)
      BY <1>4, <3>1, <3>4
    <3> QED
      BY <2>1, <3>2, <3>3, <3>4
  <2> QED
    BY <1>3, <2>2 DEF Range
<1> QED
  BY <1>1, <1>5, <1>6

\* What next_level makes is never a leaf.
LEMMA NextLevelPairs ==
  ASSUME NEW n \in Nat \ {0}, NEW level, IsList(level, n), NEW x \in Range(NextLevel(level))
  PROVE  ~IsLeaf(x)
<1>1. PICK next : next = NextLevel(level)
  OBVIOUS
<1>2. PICK m \in Nat \ {0} :
        /\ IsList(next, m)
        /\ \A j \in 1..m :
              next[j] = <<level[2 * j - 1], IF 2 * j <= n THEN level[2 * j] ELSE level[2 * j - 1]>>
  BY <1>1, NextLevelFact
<1>3. PICK j \in 1..m : x = next[j]
  BY <1>1, <1>2 DEF IsList, Range
<1> QED
  BY <1>2, <1>3 DEF IsLeaf

\* Two trees with one root hold the same nodes at every distance from it.
LEMMA SameBelowTheRoot ==
  ASSUME NEW h \in Nat, NEW g \in Nat, h <= g, NEW s, NEW t, NEW f, NEW e,
         IsClimb(f, h, s), IsClimb(e, g, t), MerkleRoot(s) = MerkleRoot(t)
  PROVE  Range(s) = Range(e[g - h])
<1> DEFINE S == {k \in 0..h : Range(f[h - k]) = Range(e[g - k])}
<1>1. 0 \in S
  <2>1. IsList(f[h], 1) /\ IsList(e[g], 1) /\ Head(f[h]) = Head(e[g])
    BY DEF IsClimb
  <2>2. \A u : IsList(u, 1) => Range(u) = {Head(u)}
    <3> SUFFICES ASSUME NEW u, IsList(u, 1) PROVE Range(u) = {Head(u)}
      OBVIOUS
    <3>1. DOMAIN u = {1}
      BY DEF IsList
    <3>2. Head(u) = u[1]
      BY DEF IsList
    <3> QED
      BY <3>1, <3>2 DEF Range
  <2>3. Range(f[h]) = Range(e[g])
    BY <2>1, <2>2
  <2> QED
    BY <2>3
<1>2. ASSUME NEW k \in 0..(h - 1), k \in S PROVE k + 1 \in S
  <2>1. h - k \in 1..h /\ g - k \in 1..g
    OBVIOUS
  <2>2. PICK i \in 1..h : i = h - k
    BY <2>1
  <2>3. PICK j \in 1..g : j = g - k
    BY <2>1
  <2>4. f[i] = NextLevel(f[i - 1]) /\ \E l \in Nat \ {0} : IsList(f[i - 1], l)
    BY DEF IsClimb
  <2>5. e[j] = NextLevel(e[j - 1]) /\ \E l \in Nat \ {0} : IsList(e[j - 1], l)
    BY DEF IsClimb
  <2>6. Range(f[i - 1]) = Parts(Range(f[i])) /\ Range(e[j - 1]) = Parts(Range(e[j]))
    BY <2>4, <2>5, NextLevelRange
  <2>7. Range(f[i]) = Range(e[j])
    BY <1>2, <2>2, <2>3
  <2>8. i - 1 = h - (k + 1) /\ j - 1 = g - (k + 1) /\ k + 1 \in 0..h
    BY <2>2, <2>3
  <2> QED
    BY <2>6, <2>7, <2>8
<1>3. h \in S
  <2> HIDE DEF S
  <2> QED
    BY <1>1, <1>2, Climbs!UpTo
<1> QED
  BY <1>3 DEF IsClimb

(***************************************************************************)
(* Step 3 of the verifier, for lists of any length: the gateway may serve  *)
(* any list at all.  If it reconstructs the sealed root, every sheet in it *)
(* was sealed; two lists of sheets with one root hold the same sheets.     *)
(***************************************************************************)
THEOREM ServedSheetWasSealed ==
  ASSUME NEW n \in Nat \ {0}, NEW sealed, IsList(sealed, n), \A x \in Range(sealed) : IsLeaf(x),
         NEW m \in Nat \ {0}, NEW served, IsList(served, m),
         MerkleRoot(served) = MerkleRoot(sealed),
         NEW sheet \in Range(served), IsLeaf(sheet)
  PROVE  Range(served) = Range(sealed)
<1>1. PICK h \in 0..n : \E f : IsClimb(f, h, sealed)
  BY ClimbExists
<1>2. PICK f : IsClimb(f, h, sealed)
  BY <1>1
<1>3. PICK g \in 0..m : \E e : IsClimb(e, g, served)
  BY ClimbExists
<1>4. PICK e : IsClimb(e, g, served)
  BY <1>3
<1>5. CASE h <= g
  <2>1. Range(sealed) = Range(e[g - h])
    BY <1>2, <1>4, <1>5, SameBelowTheRoot
  <2>2. CASE g = h
    BY <1>4, <2>1, <2>2 DEF IsClimb
  <2>3. CASE g # h
    <3>1. PICK j \in 1..g : j = g - h
      BY <1>5, <2>3
    <3>2. e[j] = NextLevel(e[j - 1]) /\ \E l \in Nat \ {0} : IsList(e[j - 1], l)
      BY <1>4 DEF IsClimb
    <3>3. sealed[1] \in Range(sealed)
      BY DEF IsList, Range
    <3>4. ~IsLeaf(sealed[1])
      BY <2>1, <3>1, <3>2, <3>3, NextLevelPairs
    <3> QED
      BY <3>3, <3>4
  <2> QED
    BY <2>2, <2>3
<1>6. CASE g < h
  <2>1. Range(served) = Range(f[h - g])
    BY <1>2, <1>4, <1>6, SameBelowTheRoot
  <2>2. PICK j \in 1..h : j = h - g
    BY <1>6
  <2>3. f[j] = NextLevel(f[j - 1]) /\ \E l \in Nat \ {0} : IsList(f[j - 1], l)
    BY <1>2 DEF IsClimb
  <2>4. ~IsLeaf(sheet)
    BY <2>1, <2>2, <2>3, NextLevelPairs
  <2> QED
    BY <2>4
<1> QED
  BY <1>5, <1>6

\* The same, as the verifier needs it.
THEOREM RootsAlwaysIdentifySheets == RootsIdentifySheets
<1> SUFFICES ASSUME NEW T, NEW sealed \in Seq(T), NEW served \in Seq(T),
                    sealed # <<>>, served # <<>>, MerkleRoot(served) = MerkleRoot(sealed),
                    \A x \in Range(sealed) : IsLeaf(x), NEW sheet \in Range(served), IsLeaf(sheet)
             PROVE  Range(served) = Range(sealed)
  BY DEF RootsIdentifySheets
<1>1. PICK n \in Nat \ {0} : n = Len(sealed)
  OBVIOUS
<1>2. PICK m \in Nat \ {0} : m = Len(served)
  OBVIOUS
<1>3. IsList(sealed, n) /\ IsList(served, m)
  BY <1>1, <1>2, ListFact
<1> QED
  BY <1>3, ServedSheetWasSealed

(***************************************************************************)
(* RootDeterminesTheSheets of lists of any length, when no sheet's hash is *)
(* that of two nodes.                                                      *)
(***************************************************************************)
THEOREM RootAlwaysDeterminesTheSheets ==
  ASSUME \A l \in Leaves : IsLeaf(l)
  PROVE  Spec => []RootDeterminesTheSheets
<1>1. Grown => RootDeterminesTheSheets
  <2> SUFFICES ASSUME Grown, part = "merkle", first # <<>>, second # <<>>,
                      MerkleRoot(first) = MerkleRoot(second)
               PROVE  Range(first) = Range(second)
    BY DEF RootDeterminesTheSheets
  <2>1. first \in Seq(Leaves) /\ second \in Seq(Leaves)
    <3>1. Element[part][1] = Leaves /\ Element[part][2] = Leaves
      BY DEF Element, Inputs
    <3> QED
      BY <3>1 DEF Grown
  <2>2. PICK n \in Nat \ {0} : IsList(first, n)
    BY <2>1, ListFact
  <2>3. PICK m \in Nat \ {0} : IsList(second, m)
    BY <2>1, ListFact
  <2>4. \A x \in Range(first) \cup Range(second) : IsLeaf(x)
    BY <2>1 DEF Range
  <2>5. second[1] \in Range(second)
    BY <2>3 DEF IsList, Range
  <2> QED
    BY <2>2, <2>3, <2>4, <2>5, ServedSheetWasSealed
<1> QED
  BY <1>1, AlwaysGrown, PTL

(***************************************************************************)
(* The tree defined from the root down                                     *)
(***************************************************************************)

\* The width of a height from that of the height below.
Double(width, k) == 2 * width

Doubles == INSTANCE FoldTheory WITH Op <- Double

\* A node of a level spans twice the leaves of a node of the level below.
LEMMA WidthSteps ==
  ASSUME NEW n \in Nat
  PROVE  /\ Widths(n)[0] = 1
         /\ \A h \in 1..n : Widths(n)[h] = 2 * Widths(n)[h - 1]
<1> DEFINE IsWidth(g) == g = [h \in 0..n |-> IF h = 0 THEN 1 ELSE 2 * g[h - 1]]
           it == CHOOSE g : IsWidth(g)
<1>1. Widths(n) = it
  BY DEF Widths
<1>2. \E g : IsWidth(g)
  <2>1. PICK f : f[0] = 1 /\ \A i \in 1..n : f[i] = Double(f[i - 1], n[i])
    <3> DEFINE one == 1
               none == n
    <3> HIDE DEF one, none
    <3>1. \E f : f[0] = one /\ \A i \in 1..n : f[i] = Double(f[i - 1], none[i])
      BY Doubles!Recursion
    <3> QED
      BY <3>1 DEF one, none
  <2> DEFINE g == [h \in 0..n |-> f[h]]
  <2>2. IsWidth(g)
    BY <2>1 DEF Double
  <2> QED
    BY <2>2
<1>3. IsWidth(it)
  <2> HIDE DEF IsWidth
  <2> QED
    BY <1>2
<1> HIDE DEF it
<1> QED
  BY <1>1, <1>3

\* The nodes of a height from those of the height below.
Halve(nodes, arg) == Halves(nodes, arg[1], arg[2])

Halvings == INSTANCE FoldTheory WITH Op <- Halve

\* All heights at once.
HalvingOf(base, width, n) ==
    CHOOSE f : f[0] = base /\ \A h \in 1..n : f[h] = Halves(f[h - 1], width[h - 1], n)

\* Halving one level after another gives all of them.
LEMMA HalvingSteps ==
  ASSUME NEW n \in Nat, NEW base, NEW width
  PROVE  LET f == HalvingOf(base, width, n)
         IN  f[0] = base /\ \A h \in 1..n : f[h] = Halves(f[h - 1], width[h - 1], n)
<1> DEFINE arg == [h \in 1..n |-> <<width[h - 1], n>>]
<1>1. \A h \in 1..n : arg[h][1] = width[h - 1] /\ arg[h][2] = n
  OBVIOUS
<1> HIDE DEF arg
<1>2. PICK f : f[0] = base /\ \A h \in 1..n : f[h] = Halve(f[h - 1], arg[h])
  BY Halvings!Recursion
<1>3. \A h \in 1..n : f[h] = Halves(f[h - 1], width[h - 1], n)
  BY <1>1, <1>2 DEF Halve
<1> QED
  BY <1>2, <1>3 DEF HalvingOf

\* The nodes of the tree are halved level by level.
LEMMA NodeSteps ==
  ASSUME NEW n \in Nat, NEW leaves, Len(leaves) = n
  PROVE  /\ Nodes(leaves)[0] = leaves
         /\ \A h \in 1..n :
               Nodes(leaves)[h] = Halves(Nodes(leaves)[h - 1], Widths(n)[h - 1], n)
<1> DEFINE IsNodes(g) ==
             g = [h \in 0..n |->
                    IF h = 0 THEN leaves ELSE Halves(g[h - 1], Widths(n)[h - 1], n)]
           it == CHOOSE g : IsNodes(g)
<1>1. Nodes(leaves) = it
  BY DEF Nodes
<1>2. \E g : IsNodes(g)
  <2> DEFINE widths == Widths(n)
  <2> HIDE DEF widths
  <2> DEFINE f == HalvingOf(leaves, widths, n)
  <2>1. f[0] = leaves /\ \A h \in 1..n : f[h] = Halves(f[h - 1], widths[h - 1], n)
    BY HalvingSteps
  <2> HIDE DEF f
  <2> DEFINE g == [h \in 0..n |-> f[h]]
  <2>2. IsNodes(g)
    BY <2>1 DEF widths
  <2> QED
    BY <2>2
<1>3. IsNodes(it)
  <2> HIDE DEF IsNodes
  <2> QED
    BY <1>2
<1> HIDE DEF it
<1>4. it[0] = leaves
  BY <1>3
<1>5. \A h \in 1..n : it[h] = Halves(it[h - 1], Widths(n)[h - 1], n)
  BY <1>3
<1> HIDE DEF IsNodes
<1> QED
  BY <1>1, <1>4, <1>5

(***************************************************************************)
(* Node j of a level of l nodes, each above w leaves, stands at its first  *)
(* leaf; so does that of the next level, whose right half is there exactly *)
(* when the level has another node.                                        *)
(***************************************************************************)
Fits(w, l, m, n) ==
    /\ (m - 1) * (2 * w) + 1 <= n /\ m * (2 * w) >= n
    /\ \A j \in 1..m :
          LET i == (j - 1) * (2 * w) + 1
          IN  /\ i \in 1..n /\ i = ((2 * j - 1) - 1) * w + 1
              /\ Half(i, w, n) = IF 2 * j <= l THEN (2 * j - 1) * w + 1 ELSE i

\* Halving a level that covers the leaves gives one that covers them.
LEMMA PositionsUp ==
  ASSUME NEW w \in Nat \ {0}, NEW l \in Nat \ {0}, NEW n \in Nat,
         (l - 1) * w + 1 <= n, l * w >= n
  PROVE  Fits(w, l, (l + 1) \div 2, n)
<1> DEFINE m == (l + 1) \div 2
<1>1. m \in Nat \ {0} /\ (l = 2 * m \/ l = 2 * m - 1)
  OBVIOUS
<1>2. (m - 1) * (2 * w) = (2 * m - 2) * w /\ m * (2 * w) = (2 * m) * w
  BY <1>1
<1>3. (2 * m - 2) * w <= (l - 1) * w
  <2>1. 2 * m - 2 \in Nat /\ l - 1 \in Nat /\ 2 * m - 2 <= l - 1
    BY <1>1
  <2> HIDE DEF m
  <2> QED
    BY <2>1
<1>4. l * w <= (2 * m) * w
  <2>1. 2 * m \in Nat /\ l <= 2 * m
    BY <1>1
  <2> HIDE DEF m
  <2> QED
    BY <2>1
<1>5. (m - 1) * (2 * w) + 1 <= n /\ m * (2 * w) >= n
  <2>1. (m - 1) * (2 * w) \in Nat /\ m * (2 * w) \in Nat
    BY <1>1
  <2>2. (l - 1) * w \in Nat /\ l * w \in Nat
    OBVIOUS
  <2> HIDE DEF m
  <2> QED
    BY <1>2, <1>3, <1>4, <2>1, <2>2
<1>6. ASSUME NEW j \in 1..m
      PROVE  LET i == (j - 1) * (2 * w) + 1
             IN  /\ i \in 1..n /\ i = ((2 * j - 1) - 1) * w + 1
                 /\ Half(i, w, n) = IF 2 * j <= l THEN (2 * j - 1) * w + 1 ELSE i
  <2> DEFINE i == (j - 1) * (2 * w) + 1
  <2>1. i = ((2 * j - 1) - 1) * w + 1 /\ i + w = (2 * j - 1) * w + 1 /\ i \in Nat \ {0}
    OBVIOUS
  <2>2. ((2 * j - 1) - 1) * w <= (l - 1) * w
    <3>1. (2 * j - 1) - 1 \in Nat /\ (2 * j - 1) - 1 <= l - 1 /\ l - 1 \in Nat
      BY <1>1
    <3> QED
      BY <3>1
  <2>3. i \in 1..n
    <3>1. (l - 1) * w \in Nat /\ ((2 * j - 1) - 1) * w \in Nat
      OBVIOUS
    <3> HIDE DEF i
    <3> QED
      BY <2>1, <2>2, <3>1
  <2>4. CASE 2 * j <= l
    <3>1. 2 * j - 1 \in Nat /\ l - 1 \in Nat /\ 2 * j - 1 <= l - 1
      BY <2>4
    <3>2. (2 * j - 1) * w <= (l - 1) * w
      BY <3>1
    <3>3. i + w <= n
      <4>1. (l - 1) * w \in Nat /\ (2 * j - 1) * w \in Nat
        OBVIOUS
      <4> HIDE DEF i
      <4> QED
        BY <2>1, <3>2, <4>1
    <3> HIDE DEF i
    <3> QED
      BY <2>1, <2>3, <2>4, <3>3 DEF Half
  <2>5. CASE ~(2 * j <= l)
    <3>1. 2 * j - 1 \in Nat /\ l <= 2 * j - 1
      BY <2>5
    <3>2. l * w <= (2 * j - 1) * w
      BY <3>1
    <3>3. ~(i + w <= n)
      <4>1. l * w \in Nat /\ (2 * j - 1) * w \in Nat
        OBVIOUS
      <4> HIDE DEF i
      <4> QED
        BY <2>1, <3>2, <4>1
    <3> HIDE DEF i
    <3> QED
      BY <2>1, <2>3, <2>5, <3>3 DEF Half
  <2> QED
    BY <2>4, <2>5
<1> HIDE DEF m
<1>7. Fits(w, l, m, n)
  BY <1>5, <1>6 DEF Fits
<1> QED
  BY <1>7 DEF m

\* The nodes of a level are those of the tree at its height.
IsLevelOf(level, l, k, leaves, n) ==
    LET w == Widths(n)[k]
    IN  /\ w \in Nat \ {0}
        /\ IsList(level, l) /\ (l - 1) * w + 1 <= n /\ l * w >= n
        /\ \A j \in 1..l : level[j] = Nodes(leaves)[k][(j - 1) * w + 1]

\* next_level of a level of the tree is the level above it.
LEMMA NextIsLevel ==
  ASSUME NEW n \in Nat \ {0}, NEW leaves, IsList(leaves, n), NEW k \in 0..(n - 1),
         NEW level, NEW l \in Nat \ {0}, IsLevelOf(level, l, k, leaves, n)
  PROVE  \E m \in Nat \ {0} : IsLevelOf(NextLevel(level), m, k + 1, leaves, n)
<1> DEFINE w == Widths(n)[k]
           row == Nodes(leaves)[k]
           up == Nodes(leaves)[k + 1]
           m == (l + 1) \div 2
           next == NextLevel(level)
<1>1. /\ w \in Nat \ {0} /\ IsList(level, l) /\ (l - 1) * w + 1 <= n /\ l * w >= n
      /\ \A j \in 1..l : level[j] = row[(j - 1) * w + 1]
  BY DEF IsLevelOf
<1>2. Widths(n)[k + 1] = 2 * w
  BY WidthSteps
<1>3. \A i \in 1..n : up[i] = <<row[i], row[Half(i, w, n)]>>
  <2>1. up = Halves(row, w, n)
    BY NodeSteps DEF IsList
  <2> HIDE DEF up, row, w
  <2> QED
    BY <2>1 DEF Halves
<1>4. /\ m \in Nat \ {0} /\ IsList(next, m)
      /\ \A j \in 1..m :
            /\ 2 * j - 1 \in 1..l
            /\ next[j] = <<level[2 * j - 1], IF 2 * j <= l THEN level[2 * j] ELSE level[2 * j - 1]>>
  BY <1>1, NextLevelFact
<1>5. Fits(w, l, m, n)
  <2> HIDE DEF w
  <2>1. (l - 1) * w + 1 <= n /\ l * w >= n /\ w \in Nat \ {0}
    BY <1>1
  <2> QED
    BY <2>1, PositionsUp
<1> HIDE DEF w, row, up, m, next
<1>6. ASSUME NEW j \in 1..m PROVE next[j] = up[(j - 1) * (2 * w) + 1]
  <2>1. PICK i \in 1..n : /\ i = (j - 1) * (2 * w) + 1 /\ i = ((2 * j - 1) - 1) * w + 1
                          /\ Half(i, w, n) = IF 2 * j <= l THEN (2 * j - 1) * w + 1 ELSE i
    BY <1>5 DEF Fits
  <2>2. up[i] = <<row[i], row[Half(i, w, n)]>>
    BY <1>3
  <2>3. level[2 * j - 1] = row[i]
    <3>1. 2 * j - 1 \in 1..l
      BY <1>4
    <3> QED
      BY <1>1, <2>1, <3>1
  <2>4. 2 * j <= l => level[2 * j] = row[(2 * j - 1) * w + 1]
    <3>1. 2 * j \in Nat \ {0}
      BY <1>4
    <3> QED
      BY <1>1, <3>1
  <2>5. next[j] = <<level[2 * j - 1], IF 2 * j <= l THEN level[2 * j] ELSE level[2 * j - 1]>>
    BY <1>4
  <2>6. next[j] = up[i]
    BY <2>1, <2>2, <2>3, <2>4, <2>5
  <2> QED
    BY <2>1, <2>6
<1>7. 2 * w \in Nat \ {0}
  BY <1>1
<1>8. IsLevelOf(next, m, k + 1, leaves, n)
  BY <1>2, <1>4, <1>5, <1>6, <1>7 DEF Fits, IsLevelOf, up
<1> QED
  BY <1>4, <1>8 DEF next

(***************************************************************************)
(* The levels merkle_root builds from the leaves up are the rows of the    *)
(* tree, for lists of any length, and it stops at the row of the root.     *)
(***************************************************************************)
THEOREM MerkleRootIsTheTree ==
  ASSUME NEW n \in Nat \ {0}, NEW leaves, IsList(leaves, n)
  PROVE  MerkleRoot(leaves) = Tree(leaves)
<1>1. PICK h \in 0..n : \E f : IsClimb(f, h, leaves)
  BY ClimbExists
<1>2. PICK f : IsClimb(f, h, leaves)
  BY <1>1
<1> DEFINE S == {k \in 0..h : \E l \in Nat \ {0} : IsLevelOf(f[k], l, k, leaves, n)}
<1>3. 0 \in S
  <2>1. Widths(n)[0] = 1 /\ Nodes(leaves)[0] = leaves /\ f[0] = leaves
    BY <1>2, WidthSteps, NodeSteps DEF IsList, IsClimb
  <2>2. (n - 1) * 1 + 1 <= n /\ n * 1 >= n /\ \A j \in 1..n : (j - 1) * 1 + 1 = j
    OBVIOUS
  <2>3. IsLevelOf(f[0], n, 0, leaves, n)
    BY <2>1, <2>2 DEF IsLevelOf
  <2> QED
    BY <2>3
<1>4. ASSUME NEW k \in 0..(h - 1), k \in S PROVE k + 1 \in S
  <2>1. PICK l \in Nat \ {0} : IsLevelOf(f[k], l, k, leaves, n)
    BY <1>4
  <2>2. k \in 0..(n - 1) /\ f[k + 1] = NextLevel(f[k])
    <3>1. k + 1 \in 1..h /\ (k + 1) - 1 = k
      OBVIOUS
    <3> QED
      BY <1>2, <3>1 DEF IsClimb
  <2>3. \E m \in Nat \ {0} : IsLevelOf(f[k + 1], m, k + 1, leaves, n)
    BY <2>1, <2>2, NextIsLevel
  <2> QED
    BY <2>3
<1>5. \A k \in 0..h : k \in S
  <2> HIDE DEF S
  <2> QED
    BY <1>3, <1>4, Climbs!UpTo
<1>6. ASSUME NEW k \in 0..h
      PROVE  \E l \in Nat \ {0} : IsLevelOf(f[k], l, k, leaves, n) /\ (l = 1 <=> k = h)
  <2>1. PICK l \in Nat \ {0} : IsLevelOf(f[k], l, k, leaves, n)
    BY <1>5
  <2>2. PICK m \in Nat \ {0} : IsList(f[k], m) /\ (m = 1 <=> k = h)
    BY <1>2 DEF IsClimb
  <2>3. l = m
    BY <2>1, <2>2 DEF IsLevelOf, IsList
  <2> QED
    BY <2>1, <2>2, <2>3
<1>7. Widths(n)[h] >= n /\ f[h][1] = Nodes(leaves)[h][1] /\ Head(f[h]) = f[h][1]
  <2>1. IsLevelOf(f[h], 1, h, leaves, n)
    BY <1>6
  <2> DEFINE w == Widths(n)[h]
  <2>2. /\ w \in Nat /\ 1 * w >= n /\ Len(f[h]) = 1
        /\ f[h][1] = Nodes(leaves)[h][(1 - 1) * w + 1]
    BY <2>1 DEF IsLevelOf, IsList
  <2>3. 1 * w = w /\ (1 - 1) * w + 1 = 1
    BY <2>2
  <2>4. Head(f[h]) = f[h][1]
    OBVIOUS
  <2> HIDE DEF w
  <2> QED
    BY <2>2, <2>3, <2>4 DEF w
<1>8. ASSUME NEW k \in 0..(h - 1) PROVE Widths(n)[k] < n /\ Widths(n)[k] \in Nat
  <2>1. PICK l \in Nat \ {0} : IsLevelOf(f[k], l, k, leaves, n) /\ l # 1
    BY <1>6
  <2> DEFINE w == Widths(n)[k]
  <2>2. w \in Nat /\ (l - 1) * w + 1 <= n
    BY <2>1 DEF IsLevelOf
  <2>3. 1 * w <= (l - 1) * w /\ 1 * w = w /\ (l - 1) * w \in Nat
    BY <2>1, <2>2
  <2> HIDE DEF w
  <2>4. w < n
    BY <2>2, <2>3
  <2> QED
    BY <2>2, <2>4 DEF w
<1>9. Height(n) = h
  <2> DEFINE Top(k) == Widths(n)[k] >= n /\ \A i \in 0..(k - 1) : Widths(n)[i] < n
  <2>1. Top(h)
    BY <1>7, <1>8
  <2>2. ASSUME NEW k \in 0..n, Top(k) PROVE k = h
    <3>1. CASE k < h
      BY <1>8, <2>2, <3>1
    <3>2. CASE h < k
      <4>1. Widths(n)[h] \in Nat
        BY <1>6 DEF IsLevelOf
      <4> QED
        BY <1>7, <2>2, <3>2, <4>1
    <3> QED
      BY <3>1, <3>2
  <2>3. Height(n) = CHOOSE k \in 0..n : Top(k)
    BY DEF Height
  <2> HIDE DEF Top
  <2> QED
    BY <2>1, <2>2, <2>3
<1>10. Len(leaves) = n
  BY DEF IsList
<1> QED
  BY <1>2, <1>7, <1>9, <1>10 DEF Tree, IsClimb

\* RootIsTheTree of lists of any length.
THEOREM RootIsAlwaysTheTree == Spec => []RootIsTheTree
<1>1. Grown => RootIsTheTree
  <2> SUFFICES ASSUME Grown, part = "merkle", first # <<>> PROVE MerkleRoot(first) = Tree(first)
    BY DEF RootIsTheTree
  <2>1. first \in Seq(Leaves)
    <3>1. Element[part][1] = Leaves
      BY DEF Element, Inputs
    <3> QED
      BY <3>1 DEF Grown
  <2>2. PICK n \in Nat \ {0} : IsList(first, n)
    BY <2>1, ListFact
  <2> QED
    BY <2>2, MerkleRootIsTheTree
<1> QED
  BY <1>1, AlwaysGrown, PTL
-----------------------------------------------------------------------------
(***************************************************************************)
(* CodeCipher                                                              *)
(***************************************************************************)

\* What deciphers is what this server sealed, and it gives the identifier that
\* it was sealed for.
LEMMA DeciphersFact ==
  ASSUME NEW blob, Deciphers(blob) # InvalidCode
  PROVE  blob \in DOMAIN Sealed /\ Deciphers(blob) = Sealed[blob]
BY DEF Deciphers

(***************************************************************************)
(* A string that decode() accepts was printed, character by character, for *)
(* the sheet it leads to: what base64 skips, its padding and the bits left *)
(* over in the last symbol add nothing to the codes encode() returned.     *)
(***************************************************************************)
THEOREM AcceptedIsAPrint ==
  ASSUME NEW text, Decode(text) # InvalidCode
  PROVE  /\ B64Decode(text) \in DOMAIN Sealed /\ text = B64Encode(B64Decode(text))
         /\ Decode(text) \in Range(Sealed) /\ text \in Encode(Decode(text))
<1>1. /\ Decode(text) = Deciphers(B64Decode(text))
      /\ B64Encode(B64Decode(text)) = text
  BY DEF Decode
<1>2. B64Decode(text) \in DOMAIN Sealed /\ Decode(text) = Sealed[B64Decode(text)]
  BY <1>1, DeciphersFact
<1> QED
  BY <1>1, <1>2 DEF Encode, Range

\* The fold of Numbers, step by step.
Shifts == INSTANCE FoldTheory WITH Op <- Shift

\* The number that a list of bits makes, and the bits of a number.
Value(bits) == FoldLeft(Shift, 0, bits)

\* Bit j of the w bits of x, most significant first.
Digit(x, w, j) == (x \div 2^(w - j)) % 2

\* A number is read bit by bit, most significant first.
LEMMA ShiftSteps ==
  ASSUME NEW w \in Nat, NEW bits, DOMAIN bits = 1..w
  PROVE  \E f : /\ f[0] = 0
                /\ \A j \in 1..w : f[j] = 2 * f[j - 1] + bits[j]
                /\ f[w] = Value(bits)
<1> DEFINE zero == 0
<1>1. Value(bits) = Shifts!Fold(zero, bits)
  BY DEF Value, Shifts!Fold, FoldLeft, Shifts!FoldLeft, MapThenFoldSet,
         Shifts!MapThenFoldSet, Max, Shifts!Max
<1> HIDE DEF zero
<1>2. PICK f : /\ f[0] = zero
               /\ \A j \in 1..w : f[j] = Shift(f[j - 1], bits[j])
               /\ f[w] = Shifts!Fold(zero, bits)
  BY Shifts!Steps
<1> QED
  BY <1>1, <1>2 DEF Shift, zero

\* The powers of two that occur.
LEMMA Powers ==
  /\ 2^0 = 1 /\ 2^1 = 2 /\ 2^2 = 4 /\ 2^3 = 8 /\ 2^4 = 16 /\ 2^5 = 32 /\ 2^6 = 64
  /\ 2^7 = 128 /\ 2^8 = 256
OBVIOUS

\* The bits of a symbol are those it was made of.
LEMMA ThreeMade ==
  ASSUME NEW a \in 0..1, NEW b \in 0..1, NEW c \in 0..1, NEW x, x = 4 * a + 2 * b + c
  PROVE  x \in 0..7 /\ (x \div 4) % 2 = a /\ (x \div 2) % 2 = b /\ (x \div 1) % 2 = c
OBVIOUS

\* Three bits are the digits of the number they make.
LEMMA BitsOfThree ==
  ASSUME NEW bits, DOMAIN bits = 1..3, \A j \in 1..3 : bits[j] \in 0..1
  PROVE  /\ Value(bits) \in 0..(2^3 - 1)
         /\ \A j \in 1..3 : Digit(Value(bits), 3, j) = bits[j]
<1>1. PICK f : /\ f[0] = 0
               /\ \A j \in 1..3 : f[j] = 2 * f[j - 1] + bits[j]
               /\ f[3] = Value(bits)
  BY ShiftSteps
<1>2. f[3] = 4 * bits[1] + 2 * bits[2] + bits[3]
  BY <1>1
<1>3. PICK x : x = Value(bits) /\ x = 4 * bits[1] + 2 * bits[2] + bits[3]
  BY <1>1, <1>2
<1>4. x \in 0..7 /\ (x \div 4) % 2 = bits[1] /\ (x \div 2) % 2 = bits[2] /\ (x \div 1) % 2 = bits[3]
  BY <1>3, ThreeMade
<1>5. Digit(x, 3, 1) = bits[1] /\ Digit(x, 3, 2) = bits[2] /\ Digit(x, 3, 3) = bits[3]
  BY <1>4, Powers DEF Digit
<1>6. x \in 0..(2^3 - 1)
  BY <1>4, Powers
<1> QED
  BY <1>3, <1>5, <1>6

\* Six bits are the digits of their sum.
LEMMA SixMade ==
  ASSUME NEW a \in 0..1, NEW b \in 0..1, NEW c \in 0..1, NEW d \in 0..1, NEW e \in 0..1, NEW g \in 0..1,
         NEW x, x = 32 * a + 16 * b + 8 * c + 4 * d + 2 * e + g
  PROVE  /\ x \in 0..63
         /\ (x \div 32) % 2 = a /\ (x \div 16) % 2 = b /\ (x \div 8) % 2 = c
         /\ (x \div 4) % 2 = d /\ (x \div 2) % 2 = e /\ (x \div 1) % 2 = g
OBVIOUS

\* Six bits, those of a base64 symbol, are the digits of the number they make.
LEMMA BitsOfSix ==
  ASSUME NEW bits, DOMAIN bits = 1..6, \A j \in 1..6 : bits[j] \in 0..1
  PROVE  /\ Value(bits) \in 0..(2^6 - 1)
         /\ \A j \in 1..6 : Digit(Value(bits), 6, j) = bits[j]
<1>1. PICK f : /\ f[0] = 0
               /\ \A j \in 1..6 : f[j] = 2 * f[j - 1] + bits[j]
               /\ f[6] = Value(bits)
  BY ShiftSteps
<1>2. f[6] = 32 * bits[1] + 16 * bits[2] + 8 * bits[3] + 4 * bits[4] + 2 * bits[5] + bits[6]
  BY <1>1
<1>3. PICK x : /\ x = Value(bits)
               /\ x = 32 * bits[1] + 16 * bits[2] + 8 * bits[3] + 4 * bits[4] + 2 * bits[5] + bits[6]
  BY <1>1, <1>2
<1>4. /\ x \in 0..63
      /\ (x \div 32) % 2 = bits[1] /\ (x \div 16) % 2 = bits[2] /\ (x \div 8) % 2 = bits[3]
      /\ (x \div 4) % 2 = bits[4] /\ (x \div 2) % 2 = bits[5] /\ (x \div 1) % 2 = bits[6]
  BY <1>3, SixMade
<1>5. /\ Digit(x, 6, 1) = bits[1] /\ Digit(x, 6, 2) = bits[2] /\ Digit(x, 6, 3) = bits[3]
      /\ Digit(x, 6, 4) = bits[4] /\ Digit(x, 6, 5) = bits[5] /\ Digit(x, 6, 6) = bits[6]
  BY <1>4, Powers DEF Digit
<1>6. x \in 0..(2^6 - 1)
  BY <1>4, Powers
<1> QED
  BY <1>3, <1>5, <1>6

\* What is left of a number without its last bits.
LEMMA LastBit ==
  ASSUME NEW x \in Nat
  PROVE  /\ x \div 1 = 2 * (x \div 2) + ((x \div 1) % 2)
         /\ x \div 2 = 2 * (x \div 4) + ((x \div 2) % 2)
         /\ x \div 4 = 2 * (x \div 8) + ((x \div 4) % 2)
         /\ x \div 8 = 2 * (x \div 16) + ((x \div 8) % 2)
         /\ x \div 16 = 2 * (x \div 32) + ((x \div 16) % 2)
         /\ x \div 32 = 2 * (x \div 64) + ((x \div 32) % 2)
         /\ x \div 64 = 2 * (x \div 128) + ((x \div 64) % 2)
         /\ x \div 128 = 2 * (x \div 256) + ((x \div 128) % 2)
OBVIOUS

\* A byte is made of its bits.
LEMMA FourBits ==
  ASSUME NEW x \in 0..(2^4 - 1), NEW bits, DOMAIN bits = 1..4,
         \A j \in 1..4 : bits[j] = Digit(x, 4, j)
  PROVE  Value(bits) = x
<1>1. PICK f : /\ f[0] = 0
               /\ \A j \in 1..4 : f[j] = 2 * f[j - 1] + bits[j]
               /\ f[4] = Value(bits)
  BY ShiftSteps
<1>2. x \in Nat /\ x \div 16 = 0 /\ x \div 1 = x
  <2>1. x \in 0..15
    BY Powers
  <2> QED
    BY <2>1
<1>3. /\ bits[1] = (x \div 8) % 2 /\ bits[2] = (x \div 4) % 2
      /\ bits[3] = (x \div 2) % 2 /\ bits[4] = (x \div 1) % 2
  BY Powers DEF Digit
<1>4. /\ f[1] = 2 * f[0] + bits[1]
      /\ f[2] = 2 * f[1] + bits[2]
      /\ f[3] = 2 * f[2] + bits[3]
      /\ f[4] = 2 * f[3] + bits[4]
  BY <1>1
<1>5. f[1] = x \div 8
  <2>1. x \div 8 = 2 * (x \div 16) + bits[1]
    BY <1>2, <1>3, LastBit
  <2> QED
    BY <1>1, <1>2, <1>4, <2>1
<1>6. f[2] = x \div 4
  <2>1. x \div 4 = 2 * (x \div 8) + bits[2]
    BY <1>2, <1>3, LastBit
  <2> QED
    BY <1>4, <1>5, <2>1
<1>7. f[3] = x \div 2
  <2>1. x \div 2 = 2 * (x \div 4) + bits[3]
    BY <1>2, <1>3, LastBit
  <2> QED
    BY <1>4, <1>6, <2>1
<1>8. f[4] = x \div 1
  <2>1. x \div 1 = 2 * (x \div 2) + bits[4]
    BY <1>2, <1>3, LastBit
  <2> QED
    BY <1>4, <1>7, <2>1
<1> QED
  BY <1>1, <1>2, <1>8

\* A byte is the number its eight bits make.
LEMMA EightBits ==
  ASSUME NEW x \in 0..(2^8 - 1), NEW bits, DOMAIN bits = 1..8,
         \A j \in 1..8 : bits[j] = Digit(x, 8, j)
  PROVE  Value(bits) = x
<1>1. PICK f : /\ f[0] = 0
               /\ \A j \in 1..8 : f[j] = 2 * f[j - 1] + bits[j]
               /\ f[8] = Value(bits)
  BY ShiftSteps
<1>2. x \in Nat /\ x \div 256 = 0 /\ x \div 1 = x
  <2>1. x \in 0..255
    BY Powers
  <2> QED
    BY <2>1
<1>3. /\ bits[1] = (x \div 128) % 2 /\ bits[2] = (x \div 64) % 2 /\ bits[3] = (x \div 32) % 2
      /\ bits[4] = (x \div 16) % 2 /\ bits[5] = (x \div 8) % 2 /\ bits[6] = (x \div 4) % 2
      /\ bits[7] = (x \div 2) % 2 /\ bits[8] = (x \div 1) % 2
  BY Powers DEF Digit
<1>4. /\ f[1] = 2 * f[0] + bits[1]
      /\ f[2] = 2 * f[1] + bits[2]
      /\ f[3] = 2 * f[2] + bits[3]
      /\ f[4] = 2 * f[3] + bits[4]
      /\ f[5] = 2 * f[4] + bits[5]
      /\ f[6] = 2 * f[5] + bits[6]
      /\ f[7] = 2 * f[6] + bits[7]
      /\ f[8] = 2 * f[7] + bits[8]
  BY <1>1
<1>5. f[1] = x \div 128
  <2>1. x \div 128 = 2 * (x \div 256) + bits[1]
    BY <1>2, <1>3, LastBit
  <2> QED
    BY <1>1, <1>2, <1>4, <2>1
<1>6. f[2] = x \div 64
  <2>1. x \div 64 = 2 * (x \div 128) + bits[2]
    BY <1>2, <1>3, LastBit
  <2> QED
    BY <1>4, <1>5, <2>1
<1>7. f[3] = x \div 32
  <2>1. x \div 32 = 2 * (x \div 64) + bits[3]
    BY <1>2, <1>3, LastBit
  <2> QED
    BY <1>4, <1>6, <2>1
<1>8. f[4] = x \div 16
  <2>1. x \div 16 = 2 * (x \div 32) + bits[4]
    BY <1>2, <1>3, LastBit
  <2> QED
    BY <1>4, <1>7, <2>1
<1>9. f[5] = x \div 8
  <2>1. x \div 8 = 2 * (x \div 16) + bits[5]
    BY <1>2, <1>3, LastBit
  <2> QED
    BY <1>4, <1>8, <2>1
<1>10. f[6] = x \div 4
  <2>1. x \div 4 = 2 * (x \div 8) + bits[6]
    BY <1>2, <1>3, LastBit
  <2> QED
    BY <1>4, <1>9, <2>1
<1>11. f[7] = x \div 2
  <2>1. x \div 2 = 2 * (x \div 4) + bits[7]
    BY <1>2, <1>3, LastBit
  <2> QED
    BY <1>4, <1>10, <2>1
<1>12. f[8] = x \div 1
  <2>1. x \div 1 = 2 * (x \div 2) + bits[8]
    BY <1>2, <1>3, LastBit
  <2> QED
    BY <1>4, <1>11, <2>1
<1> QED
  BY <1>1, <1>2, <1>12

\* The bits of a symbol, and of a byte.
BitWidths == {3, 4, 6, 8}

\* Bit j of number k, among the bits of all of them.
IsBit(b, w, n, k, j) ==
    b \in 1..(w * n) /\ (b - 1) \div w + 1 = k /\ w - 1 - ((b - 1) % w) = w - j

\* Where bit j of number k stands among the bits of all of them.
LEMMA Position ==
  ASSUME NEW w \in BitWidths, NEW n \in Nat, NEW k \in 1..n, NEW j \in 1..w
  PROVE  IsBit((k - 1) * w + j, w, n, k, j)
<1>1. CASE w = 3
  BY <1>1 DEF IsBit
<1>2. CASE w = 4
  BY <1>2 DEF IsBit
<1>3. CASE w = 6
  BY <1>3 DEF IsBit
<1>4. CASE w = 8
  BY <1>4 DEF IsBit
<1> QED
  BY <1>1, <1>2, <1>3, <1>4 DEF BitWidths

\* Every bit is one of some number.
LEMMA PositionOf ==
  ASSUME NEW w \in BitWidths, NEW n \in Nat, NEW b \in 1..(w * n)
  PROVE  \E k \in 1..n : \E j \in 1..w : b = (k - 1) * w + j
<1> DEFINE k == (b - 1) \div w + 1
           j == ((b - 1) % w) + 1
<1>1. CASE w = 3
  <2>1. k \in 1..n /\ j \in 1..w /\ b = (k - 1) * w + j
    BY <1>1
  <2> QED
    BY <2>1
<1>2. CASE w = 4
  <2>1. k \in 1..n /\ j \in 1..w /\ b = (k - 1) * w + j
    BY <1>2
  <2> QED
    BY <2>1
<1>3. CASE w = 6
  <2>1. k \in 1..n /\ j \in 1..w /\ b = (k - 1) * w + j
    BY <1>3
  <2> QED
    BY <2>1
<1>4. CASE w = 8
  <2>1. k \in 1..n /\ j \in 1..w /\ b = (k - 1) * w + j
    BY <1>4
  <2> QED
    BY <2>1
<1> QED
  BY <1>1, <1>2, <1>3, <1>4 DEF BitWidths

\* A digit is a bit.
LEMMA DigitFact ==
  ASSUME NEW w \in BitWidths, NEW j \in 1..w, NEW x \in Nat
  PROVE  Digit(x, w, j) \in 0..1
<1>1. PICK d \in Nat \ {0} : d = 2^(w - j)
  <2>1. PICK e \in {0, 1, 2, 3, 4, 5, 6, 7} : e = w - j
    BY DEF BitWidths
  <2>2. e = 0 => 2^e = 1
    OBVIOUS
  <2>3. e = 1 => 2^e = 2
    OBVIOUS
  <2>4. e = 2 => 2^e = 4
    OBVIOUS
  <2>5. e = 3 => 2^e = 8
    OBVIOUS
  <2>6. e = 4 => 2^e = 16
    OBVIOUS
  <2>7. e = 5 => 2^e = 32
    OBVIOUS
  <2>8. e = 6 => 2^e = 64
    OBVIOUS
  <2>9. e = 7 => 2^e = 128
    OBVIOUS
  <2>10. 2^e \in Nat \ {0}
    BY <2>2, <2>3, <2>4, <2>5, <2>6, <2>7, <2>8, <2>9
  <2> QED
    BY <2>1, <2>10
<1>2. x \div d \in Int
  OBVIOUS
<1>3. (x \div d) % 2 \in 0..1
  BY <1>2
<1> QED
  BY <1>1, <1>3 DEF Digit

\* Bits that are those of a list of numbers.
Digits(bits, numbers, w, n) ==
    \A k \in 1..n, j \in 1..w : bits[(k - 1) * w + j] = Digit(numbers[k], w, j)

\* Bits lays out the digits of every number, one number after another.
LEMMA BitsFact ==
  ASSUME NEW w \in BitWidths, NEW numbers \in Seq(Nat), NEW n \in Nat, Len(numbers) = n
  PROVE  /\ Len(Bits(numbers, w)) = w * n
         /\ Digits(Bits(numbers, w), numbers, w, n)
<1> DEFINE bit == [b \in 1..(w * n) |->
                     (numbers[(b - 1) \div w + 1] \div 2^(w - 1 - ((b - 1) % w))) % 2]
<1>1. Bits(numbers, w) = bit
  BY DEF Bits
<1>2. ASSUME NEW k \in 1..n, NEW j \in 1..w
      PROVE  (k - 1) * w + j \in 1..(w * n) /\ bit[(k - 1) * w + j] = Digit(numbers[k], w, j)
  <2>1. PICK b : b = (k - 1) * w + j
    OBVIOUS
  <2>2. b \in 1..(w * n) /\ (b - 1) \div w + 1 = k /\ w - 1 - ((b - 1) % w) = w - j
    BY <2>1, Position DEF IsBit
  <2>3. bit[b] = (numbers[(b - 1) \div w + 1] \div 2^(w - 1 - ((b - 1) % w))) % 2
    BY <2>2
  <2> HIDE DEF bit
  <2> QED
    BY <2>1, <2>2, <2>3 DEF Digit
<1>3. w * n \in Nat
  BY DEF BitWidths
<1>4. \A b \in 1..(w * n) : bit[b] \in Nat
  <2> SUFFICES ASSUME NEW b \in 1..(w * n) PROVE bit[b] \in Nat
    OBVIOUS
  <2>1. PICK k \in 1..n, j \in 1..w : b = (k - 1) * w + j
    BY PositionOf
  <2>2. bit[b] = Digit(numbers[k], w, j)
    BY <1>2, <2>1
  <2>3. numbers[k] \in Nat
    OBVIOUS
  <2>4. Digit(numbers[k], w, j) \in 0..1
    BY <2>3, DigitFact
  <2> HIDE DEF bit
  <2> QED
    BY <2>2, <2>4
<1>5. bit \in [1..(w * n) -> Nat]
  <2>1. bit = [b \in 1..(w * n) |-> bit[b]]
    OBVIOUS
  <2> HIDE DEF bit
  <2> QED
    BY <1>4, <2>1
<1>6. Len(bit) = w * n
  <2> HIDE DEF bit
  <2> QED
    BY <1>3, <1>5
<1> HIDE DEF bit
<1> QED
  BY <1>1, <1>2, <1>6 DEF Digits

\* The bits a symbol or a byte is made of.
Chunk(bits, w, k) == [j \in 1..w |-> BitAt(bits, (k - 1) * w + j)]

\* A list of m bits.
IsBitList(bits, m) == m \in Nat /\ Len(bits) = m /\ \A b \in 1..m : bits[b] \in 0..1

\* The bits of number k.
IsChunk(chunk, bits, w, k) ==
    /\ DOMAIN chunk = 1..w
    /\ \A j \in 1..w : /\ chunk[j] = BitAt(bits, (k - 1) * w + j)
                       /\ chunk[j] \in 0..1

\* A chunk of a list of bits is w of them, zeros beyond the end.
LEMMA ChunkFact ==
  ASSUME NEW w \in BitWidths, NEW m, NEW bits, IsBitList(bits, m), NEW k \in Nat \ {0}
  PROVE  IsChunk(Chunk(bits, w, k), bits, w, k)
<1> DEFINE chunk == Chunk(bits, w, k)
<1>1. DOMAIN chunk = 1..w /\ \A j \in 1..w : chunk[j] = BitAt(bits, (k - 1) * w + j)
  BY DEF Chunk
<1>2. ASSUME NEW j \in 1..w PROVE chunk[j] \in 0..1
  <2>1. (k - 1) * w + j \in Nat \ {0}
    <3>1. k - 1 \in Nat /\ w \in Nat
      BY DEF BitWidths
    <3>2. (k - 1) * w \in Nat
      BY <3>1
    <3> QED
      BY <3>2
  <2>2. PICK b \in Nat \ {0} : b = (k - 1) * w + j
    BY <2>1
  <2>3. chunk[j] = BitAt(bits, b)
    BY <1>1, <2>2
  <2> HIDE DEF chunk
  <2> QED
    BY <2>3 DEF BitAt, IsBitList
<1> HIDE DEF chunk
<1> QED
  BY <1>1, <1>2 DEF chunk, IsChunk

\* Numbers reads one chunk after another.
LEMMA NumbersFact ==
  ASSUME NEW w, NEW bits, NEW n \in Nat
  PROVE  /\ DOMAIN Numbers(bits, w, n) = 1..n
         /\ \A k \in 1..n : Numbers(bits, w, n)[k] = Value(Chunk(bits, w, k))
BY DEF Numbers, Value, Chunk

\* Symbols keep the bits they are made of.
Keeps(s, bits, w, n) ==
    /\ s \in Seq(0..(2^w - 1)) /\ Len(s) = n
    /\ Len(Bits(s, w)) = w * n
    /\ \A b \in 1..(w * n) : Bits(s, w)[b] = BitAt(bits, b)

\* The symbols written for a list of bits have those bits, then zeros.
LEMMA SymbolBitsKept ==
  ASSUME NEW w \in {3, 6}, NEW m, NEW bits, IsBitList(bits, m), NEW n \in Nat
  PROVE  Keeps(Numbers(bits, w, n), bits, w, n)
<1>0. w \in BitWidths
  BY DEF BitWidths
<1> DEFINE s == Numbers(bits, w, n)
<1>1. DOMAIN s = 1..n /\ \A k \in 1..n : s[k] = Value(Chunk(bits, w, k))
  BY NumbersFact
<1> HIDE DEF s
<1>2. ASSUME NEW k \in 1..n
      PROVE  /\ s[k] \in 0..(2^w - 1)
             /\ \A j \in 1..w : Digit(s[k], w, j) = BitAt(bits, (k - 1) * w + j)
  <2> DEFINE chunk == Chunk(bits, w, k)
  <2>0. k \in Nat \ {0} /\ IsChunk(chunk, bits, w, k)
    BY <1>0, ChunkFact
  <2> HIDE DEF chunk
  <2>1. /\ DOMAIN chunk = 1..w
        /\ \A j \in 1..w : /\ chunk[j] = BitAt(bits, (k - 1) * w + j)
                           /\ chunk[j] \in 0..1
    BY <2>0 DEF IsChunk
  <2>2. Value(chunk) \in 0..(2^w - 1) /\ \A j \in 1..w : Digit(Value(chunk), w, j) = chunk[j]
    <3>1. CASE w = 3
      BY <2>1, <3>1, BitsOfThree
    <3>2. CASE w = 6
      BY <2>1, <3>2, BitsOfSix
    <3> QED
      BY <3>1, <3>2
  <2>3. s[k] = Value(chunk)
    BY <1>1 DEF chunk
  <2> QED
    BY <2>1, <2>2, <2>3
<1>3. s = [k \in 1..n |-> s[k]]
  BY DEF s, Numbers
<1>4. s \in Seq(0..(2^w - 1)) /\ Len(s) = n
  BY <1>2, <1>3
<1>5. s \in Seq(Nat)
  <2>1. \A k \in 1..n : s[k] \in Nat
    BY <1>2
  <2> QED
    BY <1>3, <2>1
<1>6. Len(Bits(s, w)) = w * n /\ Digits(Bits(s, w), s, w, n)
  BY <1>0, <1>4, <1>5, BitsFact
<1>7. ASSUME NEW b \in 1..(w * n) PROVE Bits(s, w)[b] = BitAt(bits, b)
  <2>1. PICK k \in 1..n, j \in 1..w : b = (k - 1) * w + j
    BY <1>0, PositionOf
  <2>2. Bits(s, w)[b] = Digit(s[k], w, j) /\ Digit(s[k], w, j) = BitAt(bits, b)
    BY <1>2, <1>6, <2>1 DEF Digits
  <2> QED
    BY <2>2
<1> QED
  BY <1>4, <1>6, <1>7 DEF s, Keeps

\* Bytes are made of their bits again.
LEMMA BytesMade ==
  ASSUME NEW w \in {4, 8}, NEW n \in Nat, NEW blob \in Seq(0..(2^w - 1)), Len(blob) = n,
         NEW m, NEW bits, IsBitList(bits, m),
         NEW digits, Digits(digits, blob, w, n), \A b \in 1..(w * n) : BitAt(bits, b) = digits[b]
  PROVE  Numbers(bits, w, n) = blob
<1>0. w \in BitWidths
  BY DEF BitWidths
<1> DEFINE s == Numbers(bits, w, n)
<1>1. DOMAIN s = 1..n /\ \A k \in 1..n : s[k] = Value(Chunk(bits, w, k))
  BY NumbersFact
<1> HIDE DEF s
<1>2. ASSUME NEW k \in 1..n PROVE s[k] = blob[k]
  <2> DEFINE chunk == Chunk(bits, w, k)
  <2>0. k \in Nat \ {0} /\ IsChunk(chunk, bits, w, k)
    BY <1>0, ChunkFact
  <2> HIDE DEF chunk
  <2>1. /\ DOMAIN chunk = 1..w
        /\ \A j \in 1..w : chunk[j] = BitAt(bits, (k - 1) * w + j)
    BY <2>0 DEF IsChunk
  <2>2. ASSUME NEW j \in 1..w PROVE chunk[j] = Digit(blob[k], w, j)
    <3>1. PICK b : b = (k - 1) * w + j
      OBVIOUS
    <3>2. b \in 1..(w * n)
      BY <1>0, <3>1, Position DEF IsBit
    <3>3. chunk[j] = BitAt(bits, b) /\ digits[b] = Digit(blob[k], w, j)
      BY <2>1, <3>1 DEF Digits
    <3> QED
      BY <3>2, <3>3
  <2>3. blob[k] \in 0..(2^w - 1)
    OBVIOUS
  <2>4. Value(chunk) = blob[k]
    <3>1. CASE w = 4
      BY <2>1, <2>2, <2>3, <3>1, FourBits
    <3>2. CASE w = 8
      BY <2>1, <2>2, <2>3, <3>2, EightBits
    <3> QED
      BY <3>1, <3>2
  <2> QED
    BY <1>1, <2>4 DEF chunk
<1>3. s = [k \in 1..n |-> s[k]]
  BY DEF s, Numbers
<1>4. blob = [k \in 1..n |-> blob[k]]
  OBVIOUS
<1> QED
  BY <1>2, <1>3, <1>4 DEF s

\* What the bits of three bytes fill of four symbols.
HasLength(n, s, v, w) ==
    s \in Nat /\ s % 4 \in {0, 2, 3} /\ (3 * s) \div 4 = n /\ w * n <= v * s

\* The symbols the bits of n bytes need hold just n bytes, for three bytes
\* fill four symbols.
LEMMA Lengths ==
  ASSUME NEW n \in Nat, NEW v \in {3, 6}, NEW w, w = IF v = 3 THEN 4 ELSE 8
  PROVE  HasLength(n, (4 * n + 2) \div 3, v, w)
<1> DEFINE s == (4 * n + 2) \div 3
<1>1. s \in Nat /\ s % 4 \in {0, 2, 3} /\ (3 * s) \div 4 = n /\ 4 * n <= 3 * s /\ 8 * n <= 6 * s
  <2>1. PICK q \in Nat, i \in 0..2 : n = 3 * q + i
    <3>1. n \div 3 \in Nat /\ n % 3 \in 0..2 /\ n = 3 * (n \div 3) + (n % 3)
      OBVIOUS
    <3> QED
      BY <3>1
  <2>2. CASE i = 0
    <3>1. s = 4 * q
      BY <2>1, <2>2
    <3> QED
      BY <2>1, <2>2, <3>1
  <2>3. CASE i = 1
    <3>1. s = 4 * q + 2
      BY <2>1, <2>3
    <3> QED
      BY <2>1, <2>3, <3>1
  <2>4. CASE i = 2
    <3>1. s = 4 * q + 3
      BY <2>1, <2>4
    <3> QED
      BY <2>1, <2>4, <3>1
  <2> QED
    BY <2>1, <2>2, <2>3, <2>4
<1> HIDE DEF s
<1>2. w * n <= v * s
  BY <1>1
<1> QED
  BY <1>1, <1>2 DEF s, HasLength

(***************************************************************************)
(* Base64 gives back the bytes it was given, of any number.                *)
(***************************************************************************)
LEMMA RoundTrip ==
  ASSUME NEW blob \in Seq(0..(2^ByteBits - 1))
  PROVE  LET text == B64Encode(blob)
         IN  /\ text \in Seq(Symbols) /\ Len(text) % 4 \in {0, 2, 3}
             /\ Numbers(Bits(text, SymbolBits), ByteBits, (3 * Len(text)) \div 4) = blob
<1> DEFINE n == Len(blob)
           s == (4 * n + 2) \div 3
           bits == Bits(blob, ByteBits)
           text == Numbers(bits, SymbolBits, s)
           again == Bits(text, SymbolBits)
<1>1. /\ SymbolBits \in {3, 6} /\ ByteBits \in {4, 8}
      /\ ByteBits = IF SymbolBits = 3 THEN 4 ELSE 8
  BY WidthAssumption
<1>2. /\ n \in Nat /\ s \in Nat /\ s % 4 \in {0, 2, 3} /\ (3 * s) \div 4 = n
      /\ ByteBits * n <= SymbolBits * s
  <2>1. n \in Nat
    OBVIOUS
  <2> HIDE DEF n
  <2>2. HasLength(n, s, SymbolBits, ByteBits)
    BY <1>1, <2>1, Lengths
  <2> HIDE DEF s
  <2> QED
    BY <2>1, <2>2 DEF HasLength
<1>3. blob \in Seq(Nat)
  <2>1. 2^ByteBits - 1 \in {15, 255}
    <3>1. ByteBits = 4 \/ ByteBits = 8
      BY <1>1
    <3>2. ByteBits = 4 => 2^ByteBits = 16
      OBVIOUS
    <3>3. ByteBits = 8 => 2^ByteBits = 256
      OBVIOUS
    <3> QED
      BY <3>1, <3>2, <3>3
  <2> QED
    BY <2>1
<1>0. ByteBits \in BitWidths
  BY <1>1 DEF BitWidths
<1>4. Len(bits) = ByteBits * n /\ Digits(bits, blob, ByteBits, n)
  <2> HIDE DEF s
  <2> QED
    BY <1>0, <1>2, <1>3, BitsFact
<1> HIDE DEF bits, s, n
<1>5. PICK m \in Nat : m = ByteBits * n
  BY <1>1, <1>2
<1>6. IsBitList(bits, m)
  <2>1. ASSUME NEW b \in 1..m PROVE bits[b] \in 0..1
    <3>1. PICK k \in 1..n, j \in 1..ByteBits : b = (k - 1) * ByteBits + j
      BY <1>0, <1>2, <1>5, PositionOf
    <3>2. blob[k] \in Nat
      BY <1>3 DEF n
    <3>3. bits[b] = Digit(blob[k], ByteBits, j)
      BY <1>4, <3>1 DEF Digits
    <3> QED
      BY <1>0, <3>1, <3>2, <3>3, DigitFact
  <2> QED
    BY <1>4, <1>5, <2>1 DEF IsBitList
<1>7. /\ text \in Seq(0..(2^SymbolBits - 1)) /\ Len(text) = s
      /\ Len(again) = SymbolBits * s
      /\ \A b \in 1..(SymbolBits * s) : again[b] = BitAt(bits, b)
  <2>1. Keeps(text, bits, SymbolBits, s)
    BY <1>1, <1>2, <1>6, SymbolBitsKept
  <2> HIDE DEF text
  <2> QED
    BY <2>1 DEF Keeps
<1> HIDE DEF text, again
<1>8. PICK l \in Nat : l = SymbolBits * s /\ m <= l
  BY <1>1, <1>2, <1>5
<1>9. IsBitList(again, l)
  BY <1>6, <1>7, <1>8 DEF IsBitList, BitAt
<1>10. ASSUME NEW b \in 1..m PROVE BitAt(again, b) = bits[b]
  BY <1>4, <1>5, <1>7, <1>8 DEF BitAt
<1>11. Numbers(again, ByteBits, n) = blob
  <2>1. n \in Nat /\ Len(blob) = n
    BY <1>2 DEF n
  <2>2. \A b \in 1..(ByteBits * n) : BitAt(again, b) = bits[b]
    BY <1>5, <1>10
  <2> QED
    BY <1>1, <1>4, <1>9, <2>1, <2>2, BytesMade
<1>12. text = B64Encode(blob)
  BY DEF text, bits, s, n, B64Encode
<1> QED
  BY <1>2, <1>7, <1>11, <1>12 DEF again, Symbols

\* The fold of Scan, step by step.
Reads == INSTANCE FoldTheory WITH Op <- Read

Unread == [kept |-> <<>>, pads |-> 0, ended |-> FALSE]

\* What a scan can have read.
States == [kept : Seq(Symbols), pads : Nat, ended : BOOLEAN]

\* Where the scan of a text starts.
LEMMA UnreadFact ==
  Unread \in States /\ Unread.kept = <<>> /\ Unread.pads = 0 /\ ~Unread.ended
BY DEF Unread, States

\* Scan reads a text mark by mark.
LEMMA ReadSteps ==
  ASSUME NEW n \in Nat, NEW text, DOMAIN text = 1..n
  PROVE  \E f : /\ f[0] = Unread
                /\ \A i \in 1..n : f[i] = Read(f[i - 1], text[i])
                /\ f[n] = Scan(text)
<1>1. Scan(text) = Reads!Fold(Unread, text)
  BY DEF Scan, Unread, Reads!Fold, FoldLeft, Reads!FoldLeft, MapThenFoldSet,
         Reads!MapThenFoldSet, Max, Reads!Max
<1>2. PICK f : /\ f[0] = Unread
               /\ \A i \in 1..n : f[i] = Read(f[i - 1], text[i])
               /\ f[n] = Reads!Fold(Unread, text)
  BY Reads!Steps
<1> HIDE DEF Reads!Fold
<1> QED
  BY <1>1, <1>2

\* A symbol is kept; the padding that completes a group ends the input.
Keeping(t, s, c) ==
    /\ t \in States /\ ~t.ended /\ t.pads = 0
    /\ Len(t.kept) = Len(s.kept) + 1 /\ t.kept[Len(s.kept) + 1] = c
    /\ \A k \in 1..Len(s.kept) : t.kept[k] = s.kept[k]

\* A symbol of the alphabet is kept.
LEMMA ReadSymbol ==
  ASSUME NEW s \in States, ~s.ended, s.pads = 0, NEW c \in Symbols
  PROVE  Keeping(Read(s, c), s, c)
<1>1. c # Pad /\ SymbolOf(c) = c
  BY MarksAssumption, AliasAssumption DEF SymbolOf
<1> DEFINE longer == Append(s.kept, c)
<1>2. Read(s, c) = [s EXCEPT !.kept = longer, !.pads = 0]
  BY <1>1 DEF Read
<1>3. s.kept \in Seq(Symbols)
  BY DEF States
<1>4. /\ longer \in Seq(Symbols) /\ Len(longer) = Len(s.kept) + 1
      /\ longer[Len(s.kept) + 1] = c /\ \A k \in 1..Len(s.kept) : longer[k] = s.kept[k]
  BY <1>3
<1> HIDE DEF longer
<1> QED
  BY <1>2, <1>4 DEF States, Keeping

\* t is s with one pad more, l symbols having been kept.
Padding(t, s, l) ==
    /\ t \in States /\ t.kept = s.kept /\ t.pads = s.pads + 1
    /\ t.ended <=> (l % 4) + s.pads + 1 >= 4

\* Two symbols or more in the last group.
LEMMA AtLeastTwo ==
  ASSUME NEW l \in Nat, l % 4 >= 2
  PROVE  ~(l % 4 < 2)
OBVIOUS

\* A scan that has counted pads so far.
WithPad(s, pads, ended) == [s EXCEPT !.pads = pads, !.ended = ended]

\* A scan that counted a pad keeps its symbols.
LEMMA WithPadFact ==
  ASSUME NEW s \in States, NEW pads \in Nat, NEW ended \in BOOLEAN
  PROVE  /\ WithPad(s, pads, ended) \in States /\ WithPad(s, pads, ended).kept = s.kept
         /\ WithPad(s, pads, ended).pads = pads /\ WithPad(s, pads, ended).ended = ended
BY DEF States, WithPad

\* A pad after two symbols or more is counted, and the fourth mark of the
\* group ends the scan.
LEMMA ReadPad ==
  ASSUME NEW s \in States, ~s.ended, NEW l \in Nat, l = Len(s.kept), l % 4 >= 2
  PROVE  Padding(Read(s, Pad), s, l)
<1> DEFINE ended == (l % 4) + s.pads + 1 >= 4
           pads == s.pads + 1
<1>1. ended \in BOOLEAN /\ pads \in Nat
  BY DEF States
<1>2. Read(s, Pad) = WithPad(s, pads, ended)
  <2>1. ~(l % 4 < 2)
    BY AtLeastTwo
  <2> QED
    BY <2>1 DEF Read, WithPad
<1> HIDE DEF ended, pads
<1>3. PICK t : t = WithPad(s, pads, ended)
  OBVIOUS
<1>4. t \in States /\ t.kept = s.kept /\ t.pads = pads /\ t.ended = ended
  BY <1>1, <1>3, WithPadFact
<1>5. t.ended <=> ended
  BY <1>4, Zenon
<1>6. t \in States /\ t.kept = s.kept /\ t.pads = s.pads + 1
  BY <1>4 DEF pads
<1>7. Padding(t, s, l)
  BY <1>5, <1>6, Zenon DEF Padding, ended
<1> QED
  BY <1>2, <1>3, <1>7

\* A text with pads after it is the text, then the pads.
LEMMA PadsAdded ==
  ASSUME NEW T, NEW text \in Seq(T), NEW p \in Nat, NEW c \in T
  PROVE  LET padded == text \o [i \in 1..p |-> c]
         IN  /\ DOMAIN padded = 1..(Len(text) + p)
             /\ \A i \in 1..Len(text) : padded[i] = text[i]
             /\ \A i \in (Len(text) + 1)..(Len(text) + p) : padded[i] = c
<1>1. [i \in 1..p |-> c] \in Seq(T) /\ Len([i \in 1..p |-> c]) = p
  OBVIOUS
<1> QED
  BY <1>1

\* All symbols of a code are kept, and its padding makes it whole.
LEMMA PrintIsRead ==
  ASSUME NEW text \in Seq(Symbols), Len(text) % 4 \in {0, 2, 3}
  PROVE  IsBase64(text) /\ Scanned(text).kept = text
<1> DEFINE n == Len(text)
           p == (-n) % 4
           padded == text \o [i \in 1..p |-> Pad]
<1>1. /\ n \in Nat /\ n % 4 \in {0, 2, 3}
      /\ p = IF n % 4 = 0 THEN 0 ELSE 4 - (n % 4)
  OBVIOUS
<1>2. /\ DOMAIN padded = 1..(n + p) /\ \A i \in 1..n : padded[i] = text[i]
      /\ \A i \in (n + 1)..(n + p) : padded[i] = Pad
  <2> DEFINE T == Symbols \cup {Pad}
  <2>1. text \in Seq(T) /\ Pad \in T /\ p \in Nat
    BY <1>1
  <2> HIDE DEF T, p
  <2> QED
    BY <2>1, PadsAdded
<1>3. Scanned(text) = Scan(padded)
  BY DEF Scanned
<1> HIDE DEF padded
<1>4. PICK f : /\ f[0] = Unread
               /\ \A i \in 1..(n + p) : f[i] = Read(f[i - 1], padded[i])
               /\ f[n + p] = Scan(padded)
  BY <1>1, <1>2, ReadSteps
<1> HIDE DEF p
<1> DEFINE S == {i \in 0..n : /\ f[i] \in States /\ ~f[i].ended /\ f[i].pads = 0
                              /\ Len(f[i].kept) = i
                              /\ \A j \in 1..i : f[i].kept[j] = text[j]}
<1>5. 0 \in S
  BY <1>1, <1>4, UnreadFact
<1>6. ASSUME NEW i \in 0..(n - 1), i \in S PROVE i + 1 \in S
  <2>1. f[i + 1] = Read(f[i], text[i + 1]) /\ text[i + 1] \in Symbols
    <3>1. i + 1 \in 1..n /\ i + 1 \in 1..(n + p) /\ (i + 1) - 1 = i
      BY <1>1
    <3> QED
      BY <1>2, <1>4, <3>1
  <2> DEFINE before == f[i]
             c == text[i + 1]
  <2>4. before \in States /\ ~before.ended /\ before.pads = 0 /\ Len(before.kept) = i
    BY <1>6
  <2>5. c \in Symbols /\ f[i + 1] = Read(before, c)
    BY <2>1
  <2> HIDE DEF before, c
  <2>6. Keeping(f[i + 1], before, c)
    BY <2>4, <2>5, ReadSymbol
  <2>2. /\ f[i + 1] \in States /\ ~f[i + 1].ended /\ f[i + 1].pads = 0
        /\ Len(f[i + 1].kept) = i + 1 /\ f[i + 1].kept[i + 1] = c
        /\ \A k \in 1..i : f[i + 1].kept[k] = before.kept[k]
    BY <2>4, <2>6 DEF Keeping
  <2>3. \A k \in 1..(i + 1) : f[i + 1].kept[k] = text[k]
    BY <1>6, <2>2 DEF before, c
  <2> QED
    BY <2>2, <2>3
<1>7. n \in S
  <2> HIDE DEF S, n
  <2> QED
    BY <1>1, <1>5, <1>6, Reads!UpTo
<1>8. f[n].kept = text
  <2>1. f[n].kept \in Seq(Symbols) /\ Len(f[n].kept) = n /\ \A j \in 1..n : f[n].kept[j] = text[j]
    BY <1>7 DEF States
  <2> QED
    BY <2>1
<1>9. f[n] \in States /\ ~f[n].ended /\ f[n].pads = 0 /\ Len(f[n].kept) = n
  BY <1>7
<1> HIDE DEF S, n
<1>10. f[n + p].kept = text /\ (f[n + p].ended \/ n % 4 = 0)
  <2>1. CASE n % 4 = 0
    BY <1>1, <1>8, <2>1
  <2>2. CASE n % 4 = 2
    <3>1. p = 2 /\ n + 1 \in 1..(n + p) /\ n + 2 \in 1..(n + p)
      BY <1>1, <2>2
    <3>2. f[n + 1] = Read(f[n], Pad) /\ f[n + 2] = Read(f[n + 1], Pad)
      BY <1>1, <1>2, <1>4, <3>1
    <3>3. f[n + 1] \in States /\ f[n + 1].kept = text /\ f[n + 1].pads = 1 /\ ~f[n + 1].ended
      BY <1>1, <1>8, <1>9, <2>2, <3>2, ReadPad DEF Padding
    <3>4. f[n + 2].kept = text /\ f[n + 2].ended
      BY <1>1, <1>8, <1>9, <2>2, <3>2, <3>3, ReadPad DEF Padding
    <3> QED
      BY <3>1, <3>4
  <2>3. CASE n % 4 = 3
    <3>1. p = 1 /\ n + 1 \in 1..(n + p)
      BY <1>1, <2>3
    <3>2. f[n + 1] = Read(f[n], Pad)
      <4>1. padded[n + 1] = Pad /\ (n + 1) - 1 = n
        BY <1>1, <1>2, <3>1
      <4> QED
        BY <1>4, <3>1, <4>1
    <3>3. f[n + 1].kept = text /\ f[n + 1].ended
      BY <1>1, <1>8, <1>9, <2>3, <3>2, ReadPad DEF Padding
    <3> QED
      BY <3>1, <3>3
  <2> QED
    BY <1>1, <2>1, <2>2, <2>3
<1> QED
  BY <1>3, <1>4, <1>10 DEF IsBase64, n

(***************************************************************************)
(* Every code that was printed leads to its sheet, and no two prints share *)
(* a code: base64 gives back the bytes that were sealed.                   *)
(***************************************************************************)
THEOREM PrintLeadsToItsSheet ==
  ASSUME NEW blob \in DOMAIN Sealed
  PROVE  /\ Decode(B64Encode(blob)) = Sealed[blob]
         /\ B64Decode(B64Encode(blob)) = blob
<1> DEFINE text == B64Encode(blob)
<1>1. blob \in Seq(0..(2^ByteBits - 1)) /\ Len(blob) > NonceBytes
  BY SealedAssumption
<1>2. /\ text \in Seq(Symbols) /\ Len(text) % 4 \in {0, 2, 3}
      /\ Numbers(Bits(text, SymbolBits), ByteBits, (3 * Len(text)) \div 4) = blob
  BY <1>1, RoundTrip
<1>3. text = B64Encode(blob)
  OBVIOUS
<1> HIDE DEF text
<1>4. IsBase64(text) /\ Scanned(text).kept = text
  BY <1>2, PrintIsRead
<1>5. B64Decode(text) = blob
  BY <1>2, <1>4 DEF B64Decode
<1>6. Decode(text) = Deciphers(blob)
  BY <1>3, <1>4, <1>5 DEF Decode
<1>7. Deciphers(blob) = Sealed[blob]
  BY <1>1 DEF Deciphers
<1> QED
  BY <1>3, <1>5, <1>6, <1>7

\* A sheet answers to the codes that were printed for it and to no other text,
\* and each print has one text: what a cache, a counter or a limit keeps per
\* code it keeps per print.
THEOREM AlwaysOneSpellingPerCode == Spec => []OneSpellingPerCode
<1>1. ASSUME NEW i \in Range(Sealed)
      PROVE  Decode(first) = i <=> first \in Encode(i)
  <2>1. i # InvalidCode
    BY MarksAssumption DEF Range
  <2>2. ASSUME first \in Encode(i) PROVE Decode(first) = i
    BY <2>2, PrintLeadsToItsSheet DEF Encode
  <2> QED
    BY <2>1, <2>2, AcceptedIsAPrint
<1>2. ASSUME NEW b \in DOMAIN Sealed
      PROVE  Decode(first) # InvalidCode /\ B64Decode(first) = b <=> first = B64Encode(b)
  <2>1. Sealed[b] # InvalidCode
    BY MarksAssumption
  <2> QED
    BY <2>1, AcceptedIsAPrint, PrintLeadsToItsSheet
<1>3. OneSpellingPerCode
  BY <1>1, <1>2 DEF OneSpellingPerCode
<1> QED
  BY <1>3, PTL
-----------------------------------------------------------------------------
(***************************************************************************)
(* Ingestion                                                               *)
(***************************************************************************)

\* The fold of check_totals, step by step.
Sums == INSTANCE FoldTheory WITH Op <- +

Total(s) == FoldLeft(+, 0, s)

\* A sum is taken element by element.
LEMMA SumSteps ==
  ASSUME NEW n \in Nat, NEW s, DOMAIN s = 1..n
  PROVE  \E f : /\ f[0] = 0
                /\ \A i \in 1..n : f[i] = f[i - 1] + s[i]
                /\ f[n] = Total(s)
<1>1. Total(s) = Sums!Fold(0, s)
  BY DEF Total, Sums!Fold, FoldLeft, Sums!FoldLeft, MapThenFoldSet,
         Sums!MapThenFoldSet, Max, Sums!Max
<1> QED
  BY <1>1, Sums!Steps

\* The largest number of a set is the one no other exceeds.
LEMMA MaxFact ==
  ASSUME NEW s, NEW m \in s, s \subseteq Int, \A k \in s : k <= m
  PROVE  Max(s) = m
<1>1. Sums!Max(s) = m
  BY Sums!MaxIs
<1> QED
  BY <1>1 DEF Max, Sums!Max

\* A sum of counts is a count, and none of them exceeds it.
LEMMA PartsOfASum ==
  ASSUME NEW s \in Seq(Nat)
  PROVE  Total(s) \in Nat /\ \A j \in 1..Len(s) : s[j] <= Total(s)
<1> DEFINE n == Len(s)
<1>1. PICK f : /\ f[0] = 0
               /\ \A i \in 1..n : f[i] = f[i - 1] + s[i]
               /\ f[n] = Total(s)
  BY SumSteps
<1> DEFINE S == {i \in 0..n : f[i] \in Nat /\ \A j \in 1..i : s[j] <= f[i]}
<1>2. f[0] = 0 /\ \A i \in 0..(n - 1) : f[i + 1] = f[i] + s[i + 1]
  BY <1>1
<1>3. 0 \in S
  BY <1>2
<1>4. ASSUME NEW i \in 0..(n - 1), i \in S PROVE i + 1 \in S
  <2>1. f[i + 1] \in Nat /\ f[i + 1] >= f[i] /\ f[i + 1] >= s[i + 1] /\ s[i + 1] \in Nat
    BY <1>2, <1>4
  <2>2. ASSUME NEW j \in 1..(i + 1) PROVE s[j] <= f[i + 1]
    BY <1>4, <2>1
  <2> QED
    BY <2>1, <2>2
<1>5. n \in Nat
  OBVIOUS
<1> HIDE DEF S, n
<1>6. \A i \in 0..n : i \in S
  BY <1>3, <1>4, <1>5, Sums!UpTo
<1>7. n \in S
  BY <1>5, <1>6
<1> QED
  BY <1>1, <1>7 DEF S, n

\* A sum of nothing but zeros.
LEMMA SumOfZeros ==
  ASSUME NEW n \in Nat, NEW s, DOMAIN s = 1..n, \A i \in 1..n : s[i] = 0
  PROVE  Total(s) = 0
<1>1. PICK f : /\ f[0] = 0
               /\ \A i \in 1..n : f[i] = f[i - 1] + s[i]
               /\ f[n] = Total(s)
  BY SumSteps
<1> DEFINE S == {i \in 0..n : f[i] = 0}
<1>2. 0 \in S
  BY <1>1
<1>3. ASSUME NEW i \in 0..(n - 1), i \in S PROVE i + 1 \in S
  BY <1>1, <1>3
<1> HIDE DEF S
<1>4. n \in S
  BY <1>2, <1>3, Sums!UpTo
<1> QED
  BY <1>1, <1>4 DEF S

AddShare(sum, share) == sum + share[1]

\* The fold of the shares, step by step.
Adds == INSTANCE FoldTheory WITH Op <- AddShare

TotalShare(shares) == FoldLeft(LAMBDA sum, share : sum + share[1], 0, shares)

\* The shares are added one by one.
LEMMA ShareSteps ==
  ASSUME NEW n \in Nat, NEW s, DOMAIN s = 1..n
  PROVE  \E f : /\ f[0] = 0
                /\ \A i \in 1..n : f[i] = f[i - 1] + s[i][1]
                /\ f[n] = TotalShare(s)
<1>1. TotalShare(s) = Adds!Fold(0, s)
  BY DEF TotalShare, Adds!Fold, FoldLeft, Adds!FoldLeft, MapThenFoldSet,
         Adds!MapThenFoldSet, Max, Adds!Max, AddShare
<1>2. PICK f : /\ f[0] = 0
               /\ \A i \in 1..n : f[i] = AddShare(f[i - 1], s[i])
               /\ f[n] = Adds!Fold(0, s)
  BY Adds!Steps
<1> QED
  BY <1>1, <1>2 DEF AddShare

\* Shares add up to what their numerators add up to.
LEMMA SharesAddUp ==
  ASSUME NEW n \in Nat, NEW s, NEW shares, DOMAIN s = 1..n, DOMAIN shares = 1..n,
         \A i \in 1..n : shares[i][1] = s[i]
  PROVE  TotalShare(shares) = Total(s)
<1>1. PICK f : /\ f[0] = 0
               /\ \A i \in 1..n : f[i] = f[i - 1] + s[i]
               /\ f[n] = Total(s)
  BY SumSteps
<1>2. PICK g : /\ g[0] = 0
               /\ \A i \in 1..n : g[i] = g[i - 1] + shares[i][1]
               /\ g[n] = TotalShare(shares)
  BY ShareSteps
<1> DEFINE S == {i \in 0..n : f[i] = g[i]}
<1>3. 0 \in S
  BY <1>1, <1>2
<1>4. ASSUME NEW i \in 0..(n - 1), i \in S PROVE i + 1 \in S
  BY <1>1, <1>2, <1>4
<1> HIDE DEF S
<1>5. n \in S
  BY <1>3, <1>4, Sums!UpTo
<1> QED
  BY <1>1, <1>2, <1>5 DEF S

\* The longest bar is at least one vote long, and no bar is longer.
LEMMA LongestBar ==
  ASSUME NEW s \in Seq(Nat)
  PROVE  LET longest == Max({1} \cup ToSet(s))
         IN  longest \in Nat /\ longest > 0 /\ \A j \in 1..Len(s) : s[j] <= longest
<1> DEFINE n == Len(s)
           IsLongest(m, i) == /\ m = 1 \/ \E j \in 1..i : m = s[j]
                              /\ m >= 1 /\ \A j \in 1..i : s[j] <= m
           S == {i \in 0..n : \E m \in Nat : IsLongest(m, i)}
<1>1. n \in Nat /\ \A j \in 1..n : s[j] \in Nat
  OBVIOUS
<1>2. 0 \in S
  <2>1. IsLongest(1, 0)
    OBVIOUS
  <2> QED
    BY <1>1, <2>1
<1>3. ASSUME NEW i \in 0..(n - 1), i \in S PROVE i + 1 \in S
  <2>1. PICK m \in Nat : IsLongest(m, i)
    BY <1>3
  <2>2. i + 1 \in 0..n /\ s[i + 1] \in Nat /\ \A j \in 1..i : s[j] \in Nat
    BY <1>1
  <2>3. CASE s[i + 1] <= m
    <3>1. IsLongest(m, i + 1)
      BY <2>1, <2>2, <2>3
    <3> QED
      BY <2>2, <3>1
  <2>4. CASE s[i + 1] > m
    <3>1. IsLongest(s[i + 1], i + 1)
      BY <2>1, <2>2, <2>4
    <3> QED
      BY <2>2, <3>1
  <2> HIDE DEF n
  <2> QED
    BY <2>1, <2>2, <2>3, <2>4
<1>4. n \in S
  <2> HIDE DEF S, n
  <2> QED
    BY <1>1, <1>2, <1>3, Sums!UpTo
<1>5. PICK m \in Nat : IsLongest(m, n)
  BY <1>4
<1>6. /\ m \in {1} \cup ToSet(s) /\ {1} \cup ToSet(s) \subseteq Int
      /\ \A k \in {1} \cup ToSet(s) : k <= m
  BY <1>1, <1>5 DEF ToSet
<1>7. Max({1} \cup ToSet(s)) = m
  BY <1>6, MaxFact
<1>8. m > 0 /\ \A j \in 1..Len(s) : s[j] <= m
  BY <1>5
<1> HIDE DEF n, IsLongest
<1> QED
  BY <1>7, <1>8

(***************************************************************************)
(* Results.check_totals is enough for the results view, whatever the       *)
(* number of options and votes: no figure that app/models.py accepts makes *)
(* it draw more than the whole, or divide by nobody.                       *)
(***************************************************************************)
Drawable(r) ==
    /\ AtMostWhole(Turnout(r)) /\ Turnout(r)[2] > 0
    /\ \A i \in 1..Len(r.options) :
          \A fraction \in {Share(r, i), BarWidth(r, i)} :
             AtMostWhole(fraction) /\ fraction[2] > 0
    /\ LET shares == [i \in 1..Len(r.options) |-> Share(r, i)]
       IN  TotalShare(shares) = IF r.valid = 0 THEN 0 ELSE shares[1][2]

\* Results the ingestion accepts can be drawn: no bar passes the whole, no
\* division is by zero, and the shares add up to the votes they are shares of.
LEMMA AcceptedIsDrawable ==
  ASSUME NEW r, r.options \in Seq(Int), ResultsOK(r)
  PROVE  Drawable(r)
<1> DEFINE n == Len(r.options)
           shares == [i \in 1..n |-> Share(r, i)]
<1>1. /\ r.options \in Seq(Nat) /\ n \in Nat \ {0} /\ DOMAIN r.options = 1..n
      /\ \A i \in 1..n : r.options[i] \in Nat
  <2>1. \A i \in 1..n : r.options[i] \in Nat
    BY DEF ResultsOK
  <2>2. r.options \in Seq(Nat)
    BY <2>1
  <2>3. n # 0
    BY DEF ResultsOK
  <2> QED
    BY <2>1, <2>2, <2>3
<1>2. /\ {r.valid, r.null, r.blank, r.voters, r.eligible} \subseteq Nat
      /\ Total(r.options) = r.valid /\ r.voters <= r.eligible
  BY DEF ResultsOK, CheckTotals, Total
<1>3. \A i \in 1..n : r.options[i] <= r.valid
  BY <1>1, <1>2, PartsOfASum
<1>4. AtMostWhole(Turnout(r)) /\ Turnout(r)[2] > 0
  BY <1>2 DEF AtMostWhole, Turnout
<1>5. ASSUME NEW i \in 1..n PROVE AtMostWhole(Share(r, i)) /\ Share(r, i)[2] > 0
  BY <1>1, <1>2, <1>3 DEF AtMostWhole, Share
<1>6. ASSUME NEW i \in 1..n PROVE AtMostWhole(BarWidth(r, i)) /\ BarWidth(r, i)[2] > 0
  <2>1. PICK longest \in Nat : /\ longest = Max({1} \cup ToSet(r.options)) /\ longest > 0
                               /\ \A j \in 1..n : r.options[j] <= longest
    BY <1>1, LongestBar
  <2>2. BarWidth(r, i) = <<r.options[i], longest>>
    BY <2>1 DEF BarWidth
  <2>3. r.options[i] \in Nat /\ r.options[i] <= longest
    BY <1>1, <2>1
  <2>4. BarWidth(r, i)[1] = r.options[i] /\ BarWidth(r, i)[2] = longest
    BY <2>2
  <2> HIDE DEF n, shares
  <2> QED
    BY <2>1, <2>3, <2>4 DEF AtMostWhole
<1>7. TotalShare(shares) = IF r.valid = 0 THEN 0 ELSE shares[1][2]
  <2>1. DOMAIN shares = 1..n /\ \A i \in 1..n : shares[i] = Share(r, i)
    OBVIOUS
  <2>2. CASE r.valid # 0
    <3>1. \A i \in 1..n : shares[i] = <<r.options[i], r.valid>>
      BY <2>1, <2>2 DEF Share
    <3>2. 1 \in 1..n
      BY <1>1
    <3> HIDE DEF n, shares
    <3>3. TotalShare(shares) = Total(r.options)
      BY <1>1, <2>1, <3>1, SharesAddUp
    <3> QED
      BY <1>2, <2>2, <3>1, <3>2, <3>3
  <2>3. CASE r.valid = 0
    <3> DEFINE zeros == [i \in 1..n |-> 0]
    <3>1. \A i \in 1..n : shares[i][1] = zeros[i] /\ zeros[i] = 0
      BY <2>1, <2>3 DEF Share
    <3>2. DOMAIN zeros = 1..n
      OBVIOUS
    <3> HIDE DEF n, shares, zeros
    <3>3. TotalShare(shares) = Total(zeros) /\ Total(zeros) = 0
      BY <1>1, <2>1, <3>1, <3>2, SharesAddUp, SumOfZeros
    <3> QED
      BY <2>3, <3>3
  <2> QED
    BY <2>2, <2>3
<1> QED
  BY <1>4, <1>5, <1>6, <1>7 DEF Drawable

(***************************************************************************)
(* AcceptedCanBeShown of every list of figures.                            *)
(***************************************************************************)
THEOREM AcceptedCanAlwaysBeShown == Spec => []AcceptedCanBeShown
<1>1. Grown => AcceptedCanBeShown
  <2> SUFFICES ASSUME Grown, part = "sheet", Len(second) = 5, ResultsOK(Figures)
               PROVE  AcceptedCanBeShown
    BY DEF AcceptedCanBeShown
  <2>1. first \in Seq(Int)
    <3>1. Element[part][1] = 0..MaxVotes
      BY DEF Element, Inputs
    <3> QED
      BY <3>1, SizesAssumption DEF Grown
  <2>2. /\ Figures.options = first /\ Figures.valid = second[1]
    BY DEF Figures
  <2>3. Drawable(Figures)
    BY <2>1, <2>2, AcceptedIsDrawable
  <2> QED
    BY <2>2, <2>3 DEF Drawable, AcceptedCanBeShown, TotalShare
<1> QED
  BY <1>1, AlwaysGrown, PTL
-----------------------------------------------------------------------------
(***************************************************************************)
(* CustodyPaths                                                            *)
(***************************************************************************)

\* The folds of CustodyPaths and of an identifier, step by step.
Concat(s, t) == s \o t

Flats  == INSTANCE FoldTheory WITH Op <- Concat
Spells == INSTANCE FoldTheory WITH Op <- Spell
Walks  == INSTANCE FoldTheory WITH Op <- Follow
Visits == INSTANCE FoldTheory WITH Op <- FollowLinks

\* A path is split into names mark by mark.
LEMMA SpellSteps ==
  ASSUME NEW n \in Nat, NEW s, DOMAIN s = 1..n
  PROVE  \E f : /\ f[0] = << <<>> >>
                /\ \A i \in 1..n : f[i] = Spell(f[i - 1], s[i])
                /\ f[n] = Names(s)
<1> DEFINE base == << <<>> >>
<1>1. Names(s) = Spells!Fold(base, s)
  BY DEF Names, Spells!Fold, FoldLeft, Spells!FoldLeft, MapThenFoldSet,
         Spells!MapThenFoldSet, Max, Spells!Max
<1> HIDE DEF base
<1>2. PICK f : /\ f[0] = base
               /\ \A i \in 1..n : f[i] = Spell(f[i - 1], s[i])
               /\ f[n] = Spells!Fold(base, s)
  BY Spells!Steps
<1> QED
  BY <1>1, <1>2 DEF base

\* A path is followed name by name from the root.
LEMMA FollowSteps ==
  ASSUME NEW n \in Nat, NEW s, DOMAIN s = 1..n
  PROVE  \E f : /\ f[0] = Root
                /\ \A i \in 1..n : f[i] = Follow(f[i - 1], s[i])
                /\ f[n] = FoldLeft(Follow, Root, s)
<1>1. FoldLeft(Follow, Root, s) = Walks!Fold(Root, s)
  BY DEF Walks!Fold, FoldLeft, Walks!FoldLeft, MapThenFoldSet,
         Walks!MapThenFoldSet, Max, Walks!Max
<1>2. PICK f : /\ f[0] = Root
               /\ \A i \in 1..n : f[i] = Follow(f[i - 1], s[i])
               /\ f[n] = Walks!Fold(Root, s)
  BY Walks!Steps
<1> HIDE DEF Walks!Fold
<1> QED
  BY <1>1, <1>2

\* resolve() follows a path name by name, links included.
LEMMA ResolveSteps ==
  ASSUME NEW n \in Nat, NEW s, DOMAIN s = 1..n
  PROVE  \E f : /\ f[0] = Root
                /\ \A i \in 1..n : f[i] = FollowLinks(f[i - 1], s[i])
                /\ f[n] = Resolved(s)
<1>1. Resolved(s) = Visits!Fold(Root, s)
  BY DEF Resolved, Visits!Fold, FoldLeft, Visits!FoldLeft, MapThenFoldSet,
         Visits!MapThenFoldSet, Max, Visits!Max
<1>2. PICK f : /\ f[0] = Root
               /\ \A i \in 1..n : f[i] = FollowLinks(f[i - 1], s[i])
               /\ f[n] = Visits!Fold(Root, s)
  BY Visits!Steps
<1> HIDE DEF Visits!Fold
<1> QED
  BY <1>1, <1>2

\* Two texts make a text.
LEMMA ConcatFact ==
  ASSUME NEW s \in Seq(Characters), NEW t \in Seq(Characters)
  PROVE  Concat(s, t) \in Seq(Characters) /\ Concat(<<>>, t) = t
BY DEF Concat

\* Texts are joined one after another.
LEMMA ConcatSteps ==
  ASSUME NEW n \in Nat, NEW s
  PROVE  \E f : f[0] = <<>> /\ \A i \in 1..n : f[i] = Concat(f[i - 1], s[i])
<1> DEFINE base == <<>>
<1> HIDE DEF base
<1>1. PICK f : f[0] = base /\ \A i \in 1..n : f[i] = Concat(f[i - 1], s[i])
  BY Flats!Recursion
<1> QED
  BY <1>1 DEF base

\* The pieces of an identifier make a text.
LEMMA PiecesMakeAText ==
  ASSUME NEW s, NEW n \in Nat, Len(s) = n, n = 0 => s = <<>>,
         \A i \in 1..n : s[i] \in Seq(Characters)
  PROVE  FlattenSeq(s) \in Seq(Characters)
<1> DEFINE IsFlat(g) ==
             g = [i \in 1..n |-> IF i = 1 THEN s[i] ELSE Concat(g[i - 1], s[i])]
           it == CHOOSE h : IsFlat(h)
<1>1. CASE n = 0
  <2>1. FlattenSeq(s) = s /\ s = <<>>
    BY <1>1 DEF FlattenSeq
  <2> QED
    BY <2>1
<1>2. CASE n # 0
  <2>1. FlattenSeq(s) = it[n]
    BY <1>2 DEF FlattenSeq, Concat
  <2>2. \E g : IsFlat(g)
    <3>1. PICK f : f[0] = <<>> /\ \A i \in 1..n : f[i] = Concat(f[i - 1], s[i])
      BY ConcatSteps
    <3> DEFINE g == [i \in 1..n |-> f[i]]
    <3>2. f[1] = s[1]
      <4>1. f[1] = Concat(f[0], s[1]) /\ s[1] \in Seq(Characters) /\ f[0] = <<>>
        BY <1>2, <3>1
      <4>2. f[1] = Concat(<<>>, s[1])
        BY <4>1
      <4> QED
        BY <4>1, <4>2, ConcatFact
    <3>3. \A i \in 1..n : i # 1 => f[i] = Concat(g[i - 1], s[i])
      BY <3>1
    <3>4. IsFlat(g)
      BY <3>2, <3>3
    <3> QED
      BY <3>4
  <2>3. IsFlat(it)
    <3> HIDE DEF IsFlat
    <3> QED
      BY <2>2
  <2> HIDE DEF it
  <2>4. it[1] = s[1] /\ \A i \in 1..n : i # 1 => it[i] = Concat(it[i - 1], s[i])
    BY <1>2, <2>3
  <2> DEFINE S == {i \in 0..n : i # 0 => it[i] \in Seq(Characters)}
  <2>5. 0 \in S
    OBVIOUS
  <2>6. ASSUME NEW i \in 0..(n - 1), i \in S PROVE i + 1 \in S
    <3>1. CASE i = 0
      BY <1>2, <2>4, <3>1
    <3>2. CASE i # 0
      <4>1. it[i + 1] = Concat(it[i], s[i + 1]) /\ s[i + 1] \in Seq(Characters)
        BY <2>4, <3>2
      <4>2. it[i] \in Seq(Characters)
        BY <2>6, <3>2
      <4>3. it[i + 1] \in Seq(Characters)
        BY <4>1, <4>2, ConcatFact
      <4> QED
        BY <4>3
    <3> QED
      BY <3>1, <3>2
  <2>7. n \in S
    <3> HIDE DEF S
    <3> QED
      BY <2>5, <2>6, Flats!UpTo
  <2> QED
    BY <1>2, <2>1, <2>7
<1> QED
  BY <1>1, <1>2

\* The characters of an identifier, and its names.
Text   == Seq(Characters)

\* A text and one character, its characters and its length.
IsLonger(longer, name, c) ==
    /\ longer \in Text /\ Len(longer) = Len(name) + 1
    /\ \A j \in 1..Len(name) : longer[j] = name[j]
    /\ longer[Len(name) + 1] = c

\* Texts of one mark and of three.
LEMMA ShortTexts ==
  ASSUME NEW T, NEW a \in T, NEW b \in T
  PROVE  <<a>> \in Seq(T) /\ <<a, a, b>> \in Seq(T)
OBVIOUS

\* Replacing the last element of a sequence leaves the others.
LEMMA ReplaceLast ==
  ASSUME NEW T, NEW s \in Seq(T), s # <<>>, NEW e \in T
  PROVE  LET t == [s EXCEPT ![Len(s)] = e]
         IN  /\ t \in Seq(T) /\ Len(t) = Len(s) /\ t # <<>> /\ t[Len(s)] = e
             /\ \A k \in 1..(Len(s) - 1) : t[k] = s[k]
OBVIOUS

\* Appending an element leaves the others.
LEMMA AddLast ==
  ASSUME NEW T, NEW s \in Seq(T), NEW e \in T
  PROVE  LET t == Append(s, e)
         IN  /\ t \in Seq(T) /\ Len(t) = Len(s) + 1 /\ t # <<>> /\ t[Len(s) + 1] = e
             /\ \A k \in 1..Len(s) : t[k] = s[k]
OBVIOUS

\* The extension of an identifier counts for one character.
Extension == ".pdf"

\* The extension is one of the marks a path is made of.
LEMMA ExtensionFact == Extension \in Characters /\ Extension = ".pdf"
BY DEF Extension, Characters

\* A mark added to a name makes a longer one.
LEMMA LongerFact ==
  ASSUME NEW name \in Text, NEW c \in Characters
  PROVE  IsLonger(Append(name, c), name, c)
<1> DEFINE t == Append(name, c)
<1>1. name \in Seq(Characters)
  BY DEF Text
<1>2. /\ t \in Seq(Characters) /\ Len(t) = Len(name) + 1 /\ t[Len(name) + 1] = c
      /\ \A k \in 1..Len(name) : t[k] = name[k]
  BY <1>1, AddLast
<1> HIDE DEF t
<1>3. IsLonger(t, name, c)
  BY <1>2 DEF Text, IsLonger
<1> QED
  BY <1>3 DEF t

\* One character further: a new name, or one character more in the last.
LEMMA SlashFact ==
  ASSUME NEW names \in Seq(Text)
  PROVE  LET t == Spell(names, "/")
         IN  /\ t \in Seq(Text) /\ t # <<>> /\ Len(t) = Len(names) + 1
             /\ t[Len(names) + 1] = <<>>
             /\ \A k \in 1..Len(names) : t[k] = names[k]
<1> DEFINE none == <<>>
<1>1. none \in Text
  BY DEF Text
<1>2. Spell(names, "/") = Append(names, none)
  BY DEF Spell
<1> HIDE DEF none
<1>3. /\ Append(names, none) \in Seq(Text) /\ Append(names, none) # <<>>
      /\ Len(Append(names, none)) = Len(names) + 1
      /\ Append(names, none)[Len(names) + 1] = none
      /\ \A k \in 1..Len(names) : Append(names, none)[k] = names[k]
  BY <1>1, AddLast
<1> QED
  BY <1>2, <1>3 DEF none

\* A mark that is not a slash goes to the last name.
LEMMA LetterFact ==
  ASSUME NEW names \in Seq(Text), names # <<>>, NEW c \in Characters, c # "/"
  PROVE  LET t == Spell(names, c)
         IN  /\ t \in Seq(Text) /\ t # <<>> /\ Len(t) = Len(names)
             /\ IsLonger(t[Len(names)], names[Len(names)], c)
             /\ \A k \in 1..(Len(names) - 1) : t[k] = names[k]
<1>1. names[Len(names)] \in Text /\ Len(names) \in Nat \ {0}
  OBVIOUS
<1>2. PICK longer : /\ longer = Append(names[Len(names)], c)
                    /\ IsLonger(longer, names[Len(names)], c)
  BY <1>1, LongerFact
<1>3. Spell(names, c) = [names EXCEPT ![Len(names)] = longer]
  BY <1>2 DEF Spell
<1>4. longer \in Text
  BY <1>2 DEF IsLonger
<1> DEFINE t == [names EXCEPT ![Len(names)] = longer]
<1>5. /\ t \in Seq(Text) /\ Len(t) = Len(names) /\ t # <<>> /\ t[Len(names)] = longer
      /\ \A k \in 1..(Len(names) - 1) : t[k] = names[k]
  BY <1>4, ReplaceLast
<1> QED
  BY <1>2, <1>3, <1>5

(***************************************************************************)
(* A path whose characters nowhere hold two dots in a row has no name of   *)
(* two dots: the name that is being spelled is the last of the text.       *)
(***************************************************************************)
IsSpelled(name, s, i) ==
    /\ Len(name) <= i
    /\ \A j \in 1..Len(name) : name[j] = s[i - Len(name) + j]

\* The name that leads to the directory above.
IsParent(name) == name = <<".", ".">>

\* The name a slash begins.
Empty == <<>>

\* The empty name is no parent.
LEMMA EmptyFact ==
  ASSUME NEW s, NEW i \in Nat
  PROVE  Empty \in Text /\ ~IsParent(Empty) /\ IsSpelled(Empty, s, i)
BY DEF Empty, IsParent, IsSpelled, Text

\* A parent is spelled by two dots in a row.
LEMMA ParentFact ==
  ASSUME NEW name \in Text, IsParent(name), NEW s, NEW i \in Nat, IsSpelled(name, s, i)
  PROVE  i >= 2 /\ s[i - 1] = "." /\ s[i] = "."
<1>1. Len(name) = 2 /\ name[1] = "." /\ name[2] = "."
  BY DEF IsParent
<1>2. i >= 2 /\ name[1] = s[i - 2 + 1] /\ name[2] = s[i - 2 + 2]
  BY <1>1 DEF IsSpelled
<1> QED
  BY <1>1, <1>2

\* A name spelled up to a mark is spelled one further with it.
LEMMA LongerIsSpelled ==
  ASSUME NEW name \in Text, NEW longer, NEW s, NEW i \in Nat,
         IsLonger(longer, name, s[i + 1]), IsSpelled(name, s, i)
  PROVE  IsSpelled(longer, s, i + 1)
<1>1. PICK l \in Nat : l = Len(name)
  BY DEF Text
<1>2. Len(longer) = l + 1 /\ longer[l + 1] = s[i + 1] /\ l <= i
  BY <1>1 DEF IsLonger, IsSpelled
<1>3. \A j \in 1..l : longer[j] = s[i - l + j]
  BY <1>1 DEF IsLonger, IsSpelled
<1>4. ASSUME NEW j \in 1..(l + 1) PROVE longer[j] = s[(i + 1) - (l + 1) + j]
  BY <1>2, <1>3
<1> QED
  BY <1>2, <1>4 DEF IsSpelled

\* A path with no two dots in a row, and an extension at its end, has no
\* parent among its names, and its last name is a step down.
LEMMA NoNameClimbs ==
  ASSUME NEW n \in Nat \ {0}, NEW s, DOMAIN s = 1..n, \A i \in 1..n : s[i] \in Characters,
         \A i \in 2..n : ~(s[i - 1] = "." /\ s[i] = "."), s[n] = ".pdf"
  PROVE  /\ Names(s) \in Seq(Text) /\ Names(s) # <<>>
         /\ \A k \in 1..Len(Names(s)) : ~IsParent(Names(s)[k])
         /\ IsStep(Names(s)[Len(Names(s))])
<1>1. PICK f : /\ f[0] = <<Empty>>
               /\ \A i \in 1..n : f[i] = Spell(f[i - 1], s[i])
               /\ f[n] = Names(s)
  BY SpellSteps DEF Empty
<1> DEFINE OK(names, i) ==
             /\ names \in Seq(Text) /\ names # <<>>
             /\ \A k \in 1..Len(names) : ~IsParent(names[k])
             /\ IsSpelled(names[Len(names)], s, i)
           S == {i \in 0..n : OK(f[i], i)}
<1>2. 0 \in S
  <2>1. /\ f[0] \in Seq(Text) /\ f[0] # <<>> /\ Len(f[0]) = 1 /\ f[0][1] = Empty
    BY <1>1, EmptyFact
  <2>2. OK(f[0], 0)
    BY <2>1, EmptyFact
  <2> QED
    BY <2>2
<1>3. ASSUME NEW i \in 0..(n - 1), i \in S PROVE i + 1 \in S
  <2>1. /\ f[i] \in Seq(Text) /\ f[i] # <<>>
        /\ \A k \in 1..Len(f[i]) : ~IsParent(f[i][k])
        /\ IsSpelled(f[i][Len(f[i])], s, i)
    BY <1>3
  <2>2. f[i + 1] = Spell(f[i], s[i + 1]) /\ s[i + 1] \in Characters
    BY <1>1
  <2>3. PICK m \in Nat \ {0} : m = Len(f[i]) /\ f[i][m] \in Text
    BY <2>1
  <2>4. CASE s[i + 1] = "/"
    <3>1. /\ f[i + 1] \in Seq(Text) /\ f[i + 1] # <<>> /\ Len(f[i + 1]) = m + 1
          /\ f[i + 1][m + 1] = Empty /\ \A k \in 1..m : f[i + 1][k] = f[i][k]
      BY <2>1, <2>2, <2>3, <2>4, SlashFact DEF Empty
    <3>2. IsSpelled(Empty, s, i + 1) /\ ~IsParent(Empty)
      BY EmptyFact
    <3>3. \A k \in 1..(m + 1) : ~IsParent(f[i + 1][k])
      BY <2>1, <2>3, <3>1, <3>2
    <3>4. OK(f[i + 1], i + 1)
      BY <3>1, <3>2, <3>3
    <3> QED
      BY <3>4
  <2>5. CASE s[i + 1] # "/"
    <3>1. /\ f[i + 1] \in Seq(Text) /\ f[i + 1] # <<>> /\ Len(f[i + 1]) = m
          /\ IsLonger(f[i + 1][m], f[i][m], s[i + 1])
          /\ \A k \in 1..(m - 1) : f[i + 1][k] = f[i][k]
      <4> DEFINE c == s[i + 1]
      <4>1. c \in Characters /\ c # "/" /\ f[i + 1] = Spell(f[i], c)
        BY <2>2, <2>5
      <4> HIDE DEF c
      <4>2. IsLonger(f[i + 1][m], f[i][m], c)
        BY <2>1, <2>3, <4>1, LetterFact
      <4>3. /\ f[i + 1] \in Seq(Text) /\ f[i + 1] # <<>> /\ Len(f[i + 1]) = m
            /\ \A k \in 1..(m - 1) : f[i + 1][k] = f[i][k]
        BY <2>1, <2>3, <4>1, LetterFact
      <4> QED
        BY <4>2, <4>3 DEF c
    <3>2. IsSpelled(f[i + 1][m], s, i + 1)
      BY <2>1, <2>3, <3>1, LongerIsSpelled
    <3>3. ~IsParent(f[i + 1][m])
      <4>1. f[i + 1][m] \in Text /\ i + 1 \in Nat
        BY <3>1 DEF IsLonger
      <4>2. IsParent(f[i + 1][m]) => i + 1 >= 2 /\ s[(i + 1) - 1] = "." /\ s[i + 1] = "."
        BY <3>2, <4>1, ParentFact
      <4> QED
        BY <4>2
    <3>4. \A k \in 1..m : ~IsParent(f[i + 1][k])
      <4>1. \A k \in 1..(m - 1) : ~IsParent(f[i + 1][k])
        BY <2>1, <2>3, <3>1
      <4> QED
        BY <2>3, <3>3, <4>1
    <3>5. OK(f[i + 1], i + 1)
      BY <3>1, <3>2, <3>4
    <3> QED
      BY <3>5
  <2> QED
    BY <2>4, <2>5
<1>4. n \in S /\ n - 1 \in S
  <2> HIDE DEF S
  <2>1. \A i \in 0..n : i \in S
    BY <1>2, <1>3, Flats!UpTo
  <2> QED
    BY <2>1
<1>5. IsStep(f[n][Len(f[n])])
  <2>1. f[n - 1] \in Seq(Text) /\ f[n - 1] # <<>> /\ f[n] = Spell(f[n - 1], ".pdf")
    BY <1>1, <1>4
  <2>2. /\ Len(f[n]) = Len(f[n - 1])
        /\ IsLonger(f[n][Len(f[n - 1])], f[n - 1][Len(f[n - 1])], ".pdf")
    BY <2>1, LetterFact
  <2>3. f[n - 1][Len(f[n - 1])] \in Text
    BY <2>1
  <2> DEFINE name == f[n][Len(f[n])]
             before == f[n - 1][Len(f[n - 1])]
  <2>4. IsLonger(name, before, ".pdf") /\ Len(before) \in Nat
    BY <2>2, <2>3 DEF Text
  <2> HIDE DEF name, before
  <2>5. Len(name) > 0 /\ name[Len(name)] = ".pdf"
    BY <2>4 DEF IsLonger
  <2>6. name # <<>> /\ name # <<".">>
    BY <2>5
  <2> QED
    BY <2>6 DEF IsStep, name
<1> QED
  BY <1>1, <1>4, <1>5

\* The names of t begin with those of s.
Begins(s, t) == Len(s) <= Len(t) /\ \A k \in 1..Len(s) : s[k] = t[k]

\* Which is what IsPrefix says of two sequences.
LEMMA BeginsFact ==
  ASSUME NEW T, NEW s \in Seq(T), NEW t \in Seq(T)
  PROVE  Begins(s, t) <=> IsPrefix(s, t)
<1>1. CASE Len(s) <= Len(t)
  <2>1. /\ SubSeq(s, 1, Len(s)) = [k \in 1..Len(s) |-> s[k]]
        /\ SubSeq(t, 1, Len(s)) = [k \in 1..Len(s) |-> t[k]]
    BY <1>1
  <2> QED
    BY <1>1, <2>1 DEF Begins, IsPrefix
<1>2. CASE ~(Len(s) <= Len(t))
  BY <1>2 DEF Begins, IsPrefix
<1> QED
  BY <1>1, <1>2

\* One name further is one name more, or nothing.
LEMMA FollowFact ==
  ASSUME NEW path \in Seq(Text), NEW name \in Text, ~IsParent(name)
  PROVE  /\ Follow(path, name) \in Seq(Text) /\ Begins(path, Follow(path, name))
         /\ IsStep(name) => Len(Follow(path, name)) = Len(path) + 1
<1>1. CASE IsStep(name)
  <2>1. Follow(path, name) = Append(path, name)
    BY <1>1 DEF Follow, IsParent
  <2> QED
    BY <2>1, AddLast DEF Begins
<1>2. CASE ~IsStep(name)
  BY <1>2 DEF Follow, IsParent, Begins
<1> QED
  BY <1>1, <1>2

\* An identifier that is safe has no two dots in a row, also with its extension.
LEMMA NoTwoDots ==
  ASSUME NEW id \in Text, ~Traverses(id), NEW i \in 2..(Len(id) + 1)
  PROVE  ~(Append(id, ".pdf")[i - 1] = "." /\ Append(id, ".pdf")[i] = ".")
<1> DEFINE text == Append(id, Extension)
<1> SUFFICES ~(text[i - 1] = "." /\ text[i] = ".")
  BY ExtensionFact
<1>1. PICK l \in Nat : l = Len(id) /\ i \in 2..(l + 1)
  BY DEF Text
<1>2. text[l + 1] = ".pdf" /\ \A k \in 1..l : text[k] = id[k]
  <2>1. IsLonger(text, id, Extension)
    BY ExtensionFact, LongerFact
  <2> QED
    BY <1>1, <2>1, ExtensionFact DEF IsLonger
<1> HIDE DEF text
<1>3. CASE i = l + 1
  BY <1>2, <1>3
<1>4. CASE i # l + 1
  <2> SUFFICES ASSUME id[i - 1] = ".", id[i] = "." PROVE FALSE
    BY <1>1, <1>2, <1>4
  <2>1. i - 1 \in 1..(Len(id) - 1)
    BY <1>1, <1>4
  <2>2. SubSeq(id, i - 1, (i - 1) + 1) # <<".", ".">>
    BY <2>1 DEF Traverses
  <2> DEFINE two == SubSeq(id, i - 1, (i - 1) + 1)
  <2>3. two \in Seq(Characters) /\ Len(two) = 2 /\ two[1] = id[i - 1] /\ two[2] = id[i]
    <3>1. id \in Seq(Characters) /\ i - 1 \in 1..(Len(id) + 1) /\ (i - 1) + 1 = i /\ i \in (i - 2)..Len(id)
      BY <1>1, <1>4 DEF Text
    <3> QED
      BY <3>1
  <2> HIDE DEF two
  <2>4. two = <<".", ".">>
    BY <2>3
  <2> QED
    BY <2>2, <2>4 DEF two
<1> QED
  BY <1>3, <1>4

\* The names of a path, and the ways along them, that lead only downwards.
DownwardNames(names, m) ==
    /\ m \in Nat \ {0} /\ names \in Seq(Text) /\ Len(names) = m /\ DOMAIN names = 1..m
    /\ \A k \in 1..m : names[k] \in Text /\ ~IsParent(names[k])
    /\ IsStep(names[m])

DownwardWay(f, names, m) ==
    /\ f[0] = Root /\ \A i \in 1..m : f[i] = Follow(f[i - 1], names[i])
    /\ \A i \in 0..m : f[i] \in Seq(Text) /\ Begins(f[i], f[m])
    /\ Len(f[m]) > Len(Root)

\* The path of a sheet is made of names that lead downwards.
LEMMA SafeNames ==
  ASSUME NEW id \in Seq(Characters), IsSafe(id)
  PROVE  \E m : DownwardNames(Names(Append(id, ".pdf")), m)
<1> DEFINE text == Append(id, Extension)
<1>1. id \in Text
  BY DEF Text
<1>2. PICK n \in Nat \ {0} : /\ n = Len(id) + 1 /\ DOMAIN text = 1..n
                             /\ \A i \in 1..n : text[i] \in Characters
                             /\ text[n] = ".pdf"
  <2>1. IsLonger(text, id, Extension)
    BY <1>1, ExtensionFact, LongerFact
  <2>2. Len(id) \in Nat /\ text \in Text /\ Len(text) = Len(id) + 1
    BY <1>1, <2>1 DEF IsLonger, Text
  <2>3. text[Len(id) + 1] = ".pdf"
    BY <2>1, ExtensionFact DEF IsLonger
  <2> HIDE DEF text
  <2>4. DOMAIN text = 1..Len(text) /\ \A i \in 1..Len(text) : text[i] \in Characters
    BY <2>2 DEF Text
  <2>5. Len(text) \in Nat \ {0}
    BY <2>2
  <2> QED
    BY <2>2, <2>3, <2>4, <2>5
<1>3. \A i \in 2..n : ~(text[i - 1] = "." /\ text[i] = ".")
  BY <1>1, <1>2, ExtensionFact, NoTwoDots DEF IsSafe
<1> HIDE DEF text
<1>4. PICK names : names = Names(text)
  OBVIOUS
<1>5. /\ names \in Seq(Text) /\ names # <<>>
      /\ \A k \in 1..Len(names) : ~IsParent(names[k])
      /\ IsStep(names[Len(names)])
  BY <1>2, <1>3, <1>4, NoNameClimbs
<1>6. PICK m \in Nat \ {0} : m = Len(names) /\ DOMAIN names = 1..m
  BY <1>5
<1>7. DownwardNames(names, m)
  BY <1>5, <1>6 DEF DownwardNames
<1> QED
  BY <1>4, <1>7, ExtensionFact DEF text

\* A way down from the root only ever adds names.
LEMMA WayDown ==
  ASSUME NEW names, NEW m, DownwardNames(names, m)
  PROVE  \E f : DownwardWay(f, names, m) /\ f[m] = FoldLeft(Follow, Root, names)
<1>1. PICK f : /\ f[0] = Root
               /\ \A i \in 1..m : f[i] = Follow(f[i - 1], names[i])
               /\ f[m] = FoldLeft(Follow, Root, names)
  BY FollowSteps DEF DownwardNames
<1>2. m \in Nat \ {0} /\ \A k \in 1..m : names[k] \in Text /\ ~IsParent(names[k])
  BY DEF DownwardNames
<1> DEFINE OK(j) == f[j] \in Seq(Text) /\ \A i \in 0..j : f[i] \in Seq(Text) /\ Begins(f[i], f[j])
           S == {j \in 0..m : OK(j)}
<1>3. 0 \in S
  <2>1. Root \in Seq(Text)
    BY RootAssumption DEF Text
  <2>2. Begins(Root, Root)
    BY <2>1 DEF Begins
  <2>3. OK(0)
    BY <1>1, <2>1, <2>2
  <2> QED
    BY <1>2, <2>3
<1>4. ASSUME NEW j \in 0..(m - 1), j \in S PROVE j + 1 \in S
  <2>1. f[j + 1] = Follow(f[j], names[j + 1]) /\ names[j + 1] \in Text /\ ~IsParent(names[j + 1])
    BY <1>1, <1>2
  <2>2. f[j + 1] \in Seq(Text) /\ Begins(f[j], f[j + 1])
    BY <1>4, <2>1, FollowFact
  <2>3. ASSUME NEW i \in 0..j PROVE Begins(f[i], f[j + 1])
    <3>1. f[i] \in Seq(Text) /\ Begins(f[i], f[j]) /\ f[j] \in Seq(Text)
      BY <1>4
    <3> QED
      BY <2>2, <3>1 DEF Begins
  <2>4. Begins(f[j + 1], f[j + 1])
    BY <2>2 DEF Begins
  <2>5. ASSUME NEW i \in 0..(j + 1) PROVE f[i] \in Seq(Text) /\ Begins(f[i], f[j + 1])
    BY <1>4, <2>2, <2>3, <2>4
  <2> QED
    BY <1>2, <2>2, <2>5
<1>5. m \in S /\ m - 1 \in S
  <2> HIDE DEF S
  <2>1. \A j \in 0..m : j \in S
    BY <1>2, <1>3, <1>4, Walks!UpTo
  <2> QED
    BY <1>2, <2>1
<1>6. Len(f[m]) > Len(Root)
  <2>1. f[m] = Follow(f[m - 1], names[m]) /\ names[m] \in Text /\ ~IsParent(names[m])
    <3>1. m \in 1..m
      BY <1>2
    <3> QED
      BY <1>1, <1>2, <3>1
  <2>2. f[m - 1] \in Seq(Text) /\ f[0] \in Seq(Text)
    BY <1>2, <1>5
  <2>3. Len(f[m]) = Len(f[m - 1]) + 1
    BY <2>1, <2>2, FollowFact DEF DownwardNames
  <2>4. Begins(f[0], f[m - 1])
    BY <1>2, <1>5
  <2> QED
    BY <1>1, <2>2, <2>3, <2>4 DEF Begins
<1>7. DownwardWay(f, names, m)
  BY <1>1, <1>5, <1>6 DEF DownwardWay
<1> QED
  BY <1>1, <1>7

(***************************************************************************)
(* The key of an object lies under the prefix of the bucket, and is not    *)
(* the prefix itself, also in a store that takes the dots and slashes of a *)
(* key for directories: safe_identifier is enough without resolve().       *)
(***************************************************************************)
THEOREM KeysStayUnderPrefix ==
  ASSUME NEW id \in Seq(Characters), IsSafe(id)
  PROVE  IsUnderRoot(Key(id)) /\ Key(id) # Root
<1> DEFINE names == Names(Append(id, ".pdf"))
<1>1. PICK m : DownwardNames(names, m)
  BY SafeNames
<1>2. Key(id) = FoldLeft(Follow, Root, names)
  BY DEF Key
<1> HIDE DEF names
<1>3. PICK f : DownwardWay(f, names, m) /\ f[m] = Key(id)
  BY <1>1, <1>2, WayDown
<1>4. m \in Nat \ {0}
  BY <1>1 DEF DownwardNames
<1>5. /\ Root \in Seq(Text) /\ Key(id) \in Seq(Text)
      /\ Begins(Root, Key(id)) /\ Len(Key(id)) > Len(Root)
  BY <1>3, <1>4 DEF DownwardWay
<1> QED
  BY <1>5, BeginsFact DEF IsUnderRoot

(***************************************************************************)
(* On disk, resolve() takes a sheet to its own place below the root unless *)
(* a link is on the way: the check that follows it refuses nothing else.   *)
(***************************************************************************)
THEOREM OnlyLinksLeadAway ==
  ASSUME NEW id \in Seq(Characters), IsSafe(id), Unlinked(id)
  PROVE  Candidate(id) = Key(id) /\ ServedFromDisk(id)
<1> DEFINE names == Names(Append(id, ".pdf"))
<1>1. PICK m : DownwardNames(names, m)
  BY SafeNames
<1>2. Key(id) = FoldLeft(Follow, Root, names) /\ Candidate(id) = Resolved(names)
  BY DEF Key, Candidate
<1> HIDE DEF names
<1>3. PICK f : DownwardWay(f, names, m) /\ f[m] = Key(id)
  BY <1>1, <1>2, WayDown
<1>4. m \in Nat \ {0} /\ DOMAIN names = 1..m
  BY <1>1 DEF DownwardNames
<1>5. PICK g : /\ g[0] = Root
               /\ \A i \in 1..m : g[i] = FollowLinks(g[i - 1], names[i])
               /\ g[m] = Candidate(id)
  BY <1>2, <1>4, ResolveSteps
<1>6. ASSUME NEW i \in 0..m PROVE f[i] \notin DOMAIN Links
  <2>1. f[i] \in Seq(Text) /\ f[m] \in Seq(Text) /\ Begins(f[i], f[m])
    BY <1>3, <1>4 DEF DownwardWay
  <2>2. IsPrefix(f[i], Key(id))
    BY <1>3, <2>1, BeginsFact
  <2> QED
    BY <2>2 DEF Unlinked
<1> DEFINE S == {i \in 0..m : g[i] = f[i]}
<1>7. 0 \in S
  BY <1>3, <1>4, <1>5 DEF DownwardWay
<1>8. ASSUME NEW i \in 0..(m - 1), i \in S PROVE i + 1 \in S
  <2>1. g[i + 1] = FollowLinks(f[i], names[i + 1]) /\ f[i + 1] = Follow(f[i], names[i + 1])
    <3>1. i + 1 \in 1..m /\ (i + 1) - 1 = i /\ g[i] = f[i]
      BY <1>4, <1>8
    <3> QED
      BY <1>3, <1>5, <3>1 DEF DownwardWay
  <2>2. f[i + 1] \notin DOMAIN Links
    BY <1>4, <1>6
  <2> QED
    BY <1>4, <2>1, <2>2 DEF FollowLinks
<1>9. m \in S
  <2> HIDE DEF S
  <2> QED
    BY <1>4, <1>7, <1>8, Walks!UpTo
<1> QED
  BY <1>3, <1>5, <1>9, KeysStayUnderPrefix DEF ServedFromDisk

(***************************************************************************)
(* StaysInCustody of every identifier made of any number of pieces.        *)
(***************************************************************************)
THEOREM AlwaysStaysInCustody == Spec => []StaysInCustody
<1>1. Grown => StaysInCustody
  <2> SUFFICES ASSUME Grown, part = "path" PROVE StaysInCustody
    BY DEF StaysInCustody
  <2>1. \A i \in 1..Len(first) : first[i] \in Seq(Characters)
    <3>1. Element[part][1] \subseteq Seq(Characters)
      <4>1. Element[part][1] =
              {<<"a">>, <<"l">>, <<".">>, <<"/">>, <<".", ".", "/">>, <<"newline">>, <<"*">>}
        BY DEF Element, Inputs
      <4>2. {"a", "l", ".", "/", "newline", "*"} \subseteq Characters
        BY LettersAssumption DEF Characters
      <4> QED
        BY <4>1, <4>2, ShortTexts
    <3>2. first \in Seq(Element[part][1])
      BY DEF Grown
    <3>3. \A i \in 1..Len(first) : first[i] \in Element[part][1]
      BY <3>2
    <3> QED
      BY <3>1, <3>3
  <2>2. PICK n \in Nat : Len(first) = n /\ (n = 0 => first = <<>>)
    BY DEF Grown
  <2>3. FlattenSeq(first) \in Seq(Characters)
    BY <2>1, <2>2, PiecesMakeAText
  <2> QED
    <3> DEFINE id == FlattenSeq(first)
    <3> HIDE DEF id
    <3>1. IsSafe(id) => /\ IsUnderRoot(Key(id)) /\ Key(id) # Root
                        /\ Unlinked(id) => ServedFromDisk(id)
      BY <2>3, KeysStayUnderPrefix, OnlyLinksLeadAway DEF id
    <3>2. ServedFromDisk(id) => IsUnderRoot(Candidate(id))
      BY DEF ServedFromDisk
    <3> QED
      BY <3>1, <3>2 DEF StaysInCustody, id
<1> QED
  BY <1>1, AlwaysGrown, PTL
==============================================================================
