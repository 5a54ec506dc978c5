-------------------------- MODULE LocalReduce_proofs --------------------------
(***************************************************************************)
(* Proofs about LocalReduce, for every number of devices and every size of *)
(* the tensors.                                                            *)
(***************************************************************************)
EXTENDS LocalReduce, TLAPS, WellFoundedInduction, SequenceTheorems

-----------------------------------------------------------------------------
(* Tensors whose elements are all the same sum: of the inputs of S.        *)
Of(S, n) == [k \in 1..n |-> SetToBag(S)]

LEMMA WholeIsOf ==
    ASSUME NEW x, NEW n
    PROVE  Whole(x, n) = Of({x}, n)
BY DEF Whole, Of

LEMMA BagOfUnion ==
    ASSUME NEW A, NEW B, A \cap B = {}
    PROVE  SetToBag(A) (+) SetToBag(B) = SetToBag(A \cup B)
BY SMT DEF SetToBag, \oplus

LEMMA AddOf ==
    ASSUME NEW A, NEW B, A \cap B = {}, NEW n \in Nat
    PROVE  Add(Of(A, n), Of(B, n)) = Of(A \cup B, n)
<1>1. DOMAIN Of(A, n) = 1..n
  BY DEF Of
<1>2. \A k \in 1..n : Of(A, n)[k] (+) Of(B, n)[k] = SetToBag(A \cup B)
  BY BagOfUnion DEF Of
<1> QED BY <1>1, <1>2 DEF Add, Of

(* A non-empty set of naturals has a least element. *)
LEMMA NatMinimum ==
    ASSUME NEW S \in SUBSET Nat, S # {}
    PROVE  \E m \in S : \A n \in S : m <= n
<1> DEFINE R == {ss \in Nat \X Nat : ss[1] < ss[2]}
<1>1. IsWellFoundedOn(R, Nat)
  <2>1. OpToRel(<, Nat) = R
    BY DEF OpToRel
  <2> QED BY <2>1, NatLessThanWellFounded
<1>2. \A a, b \in Nat : a < b => <<a, b>> \in R
  OBVIOUS
<1> HIDE DEF R
<1>3. PICK m \in S : \A n \in S : ~(<<n, m>> \in R)
  BY <1>1, WFMin
<1>4. ASSUME NEW n \in S PROVE m <= n
  <2>1. n \in Nat /\ m \in Nat /\ ~(n < m)
    BY <1>2, <1>3
  <2> QED BY <2>1
<1> QED BY <1>4

-----------------------------------------------------------------------------
(* Sum.                                                                    *)

(* The i-th tensor is the sum of the inputs of S[i], and no two have an    *)
(* input in common.                                                        *)
Parts(tensors, S, size) ==
    /\ Len(tensors) \in Nat \ {0}
    /\ \A i \in 1..Len(tensors) : tensors[i] = Of(S[i], size)
    /\ \A i, j \in 1..Len(tensors) : i # j => S[i] \cap S[j] = {}

FirstSets(S, i) == UNION {S[j] : j \in 1..i}

LEMMA FirstSetsStep ==
    ASSUME NEW S, NEW n \in Nat, NEW i \in 2..n,
           \A a, b \in 1..n : a # b => S[a] \cap S[b] = {}
    PROVE  /\ FirstSets(S, i - 1) \cap S[i] = {}
           /\ FirstSets(S, i) = FirstSets(S, i - 1) \cup S[i]
<1>1. /\ 1..i = 1..(i - 1) \cup {i}
      /\ \A j \in 1..(i - 1) : j \in 1..n /\ j # i
      /\ i \in 1..n
  OBVIOUS
<1>2. \A j \in 1..(i - 1) : S[j] \cap S[i] = {}
  BY <1>1
<1> QED BY <1>1, <1>2 DEF FirstSets

SumSteps(acc, tensors) ==
    acc = [i \in 1 .. Len(tensors) |->
              IF i = 1 THEN tensors[1] ELSE Add(acc[i - 1], tensors[i])]

LEMMA SumOf ==
    ASSUME NEW size \in Nat, NEW S, NEW tensors, Parts(tensors, S, size)
    PROVE  Sum(tensors) = Of(FirstSets(S, Len(tensors)), size)
<1> DEFINE n == Len(tensors)
<1>1. n \in Nat \ {0}
  BY DEF Parts
<1>2. FirstSets(S, 1) = S[1]
  <2>1. 1..1 = {1}
    OBVIOUS
  <2> QED BY <2>1 DEF FirstSets
<1>3. tensors[1] = Of(FirstSets(S, 1), size)
  BY <1>1, <1>2 DEF Parts
<1>4. ASSUME NEW i \in 2..n
      PROVE  Add(Of(FirstSets(S, i - 1), size), tensors[i]) = Of(FirstSets(S, i), size)
  <2>1. tensors[i] = Of(S[i], size)
    BY <1>1, <1>4 DEF Parts
  <2>2. /\ FirstSets(S, i - 1) \cap S[i] = {}
        /\ FirstSets(S, i) = FirstSets(S, i - 1) \cup S[i]
    BY <1>1, <1>4, FirstSetsStep DEF Parts
  <2> QED BY <2>1, <2>2, AddOf
<1>5. \E g : SumSteps(g, tensors)
  <2> DEFINE g == [i \in 1..n |-> Of(FirstSets(S, i), size)]
  <2>1. \A i \in 1..n : g[i] = IF i = 1 THEN tensors[1] ELSE Add(g[i - 1], tensors[i])
    <3> SUFFICES ASSUME NEW i \in 1..n
                 PROVE  g[i] = IF i = 1 THEN tensors[1] ELSE Add(g[i - 1], tensors[i])
      OBVIOUS
    <3>1. CASE i = 1
      BY <3>1, <1>3
    <3>2. CASE i # 1
      <4>1. i \in 2..n /\ i - 1 \in 1..n
        BY <1>1, <3>2
      <4> QED BY <4>1, <3>2, <1>4
    <3> QED BY <3>1, <3>2
  <2>2. g = [i \in 1..n |-> g[i]]
    OBVIOUS
  <2> HIDE DEF g
  <2> QED BY <2>1, <2>2 DEF SumSteps
<1>6. ASSUME NEW g, SumSteps(g, tensors), NEW i \in 1..n, g[i] # Of(FirstSets(S, i), size)
      PROVE  FALSE
  <2> DEFINE Bad == {j \in 1..n : g[j] # Of(FirstSets(S, j), size)}
  <2>1. \A j \in 1..n : g[j] = IF j = 1 THEN tensors[1] ELSE Add(g[j - 1], tensors[j])
    BY <1>6 DEF SumSteps
  <2>2. Bad \in SUBSET Nat /\ Bad # {}
    BY <1>1, <1>6
  <2>3. PICK m \in Bad : \A j \in Bad : m <= j
    BY <2>2, NatMinimum
  <2>4. m # 1
    BY <2>1, <1>1, <1>3
  <2>5. m \in 2..n /\ m - 1 \in 1..n
    BY <1>1, <2>4
  <2>6. m - 1 \notin Bad
    BY <2>3, <2>5
  <2>7. g[m - 1] = Of(FirstSets(S, m - 1), size)
    BY <2>5, <2>6
  <2> QED BY <2>1, <2>4, <2>5, <2>7, <1>4
<1>7. Sum(tensors) = (CHOOSE g : SumSteps(g, tensors))[n]
  BY DEF Sum, SumSteps
<1>8. SumSteps(CHOOSE g : SumSteps(g, tensors), tensors)
  BY <1>5
<1>9. n \in 1..n
  BY <1>1
<1> QED BY <1>6, <1>7, <1>8, <1>9

-----------------------------------------------------------------------------
(* Trees.                                                                  *)

Count(t) == (Len(t) + 2) \div 3
Start(g) == (g - 1) * 3 + 1
End(t, g) == IF g * 3 < Len(t) THEN g * 3 ELSE Len(t)
LevelUp(t) == [g \in DOMAIN Groups(t, 2) |-> Sum(Groups(t, 2)[g])]
GroupSet(S, t, g) == UNION {S[i] : i \in Start(g)..End(t, g)}

LEMMA GroupBounds ==
    ASSUME NEW t, Len(t) \in Nat \ {0}
    PROVE  /\ Count(t) \in 1..Len(t)
           /\ Len(t) > 1 => Count(t) < Len(t)
           /\ \A g \in 1..Count(t) :
                 Start(g) \in 1..Len(t) /\ End(t, g) \in Start(g)..Len(t)
           /\ \A g, h \in 1..Count(t) : g # h =>
                 \A i \in Start(g)..End(t, g), j \in Start(h)..End(t, h) :
                    i \in 1..Len(t) /\ j \in 1..Len(t) /\ i # j
           /\ \A i \in 1..Len(t) : \E g \in 1..Count(t) : i \in Start(g)..End(t, g)
<1> DEFINE n == Len(t)
<1>1. Count(t) \in 1..n /\ (n > 1 => Count(t) < n) /\ Count(t) * 3 >= n /\ Count(t) * 3 <= n + 2
  BY DEF Count
<1>2. \A g \in 1..Count(t) : Start(g) \in 1..n /\ End(t, g) \in Start(g)..n
  BY <1>1 DEF Start, End
<1>3. ASSUME NEW g \in 1..Count(t), NEW h \in 1..Count(t), g # h,
             NEW i \in Start(g)..End(t, g), NEW j \in Start(h)..End(t, h)
      PROVE  i \in 1..n /\ j \in 1..n /\ i # j
  BY <1>1, <1>3 DEF Start, End
<1>4. ASSUME NEW i \in 1..n PROVE \E g \in 1..Count(t) : i \in Start(g)..End(t, g)
  <2> DEFINE g == (i + 2) \div 3
  <2>1. g \in 1..Count(t) /\ i \in Start(g)..End(t, g)
    BY <1>1 DEF Start, End
  <2> QED BY <2>1
<1> QED BY <1>1, <1>2, <1>3, <1>4

LEMMA GroupsAre ==
    ASSUME NEW t, Len(t) \in Nat
    PROVE  Groups(t, 2) = [g \in 1..Count(t) |-> SubSeq(t, Start(g), End(t, g))]
<1>1. 2 + 1 = 3
  OBVIOUS
<1>2. Groups(t, 2) = [g \in 1 .. (Len(t) + 2) \div 3 |->
          SubSeq(t, (g - 1) * 3 + 1, IF g * 3 < Len(t) THEN g * 3 ELSE Len(t))]
  BY <1>1, Zenon DEF Groups
<1> QED BY <1>2, Zenon DEF Count, Start, End

LEMMA GroupOf ==
    ASSUME NEW size \in Nat, NEW S, NEW t, Parts(t, S, size), NEW g \in 1..Count(t)
    PROVE  Sum(Groups(t, 2)[g]) = Of(GroupSet(S, t, g), size)
<1> DEFINE a == Start(g)
           b == End(t, g)
           u == SubSeq(t, a, b)
           V == [i \in 1..(b - a + 1) |-> S[a + i - 1]]
<1>1. a \in 1..Len(t) /\ b \in a..Len(t) /\ Len(t) \in Nat
  BY GroupBounds DEF Parts
<1>2. Groups(t, 2)[g] = u
  BY <1>1, GroupsAre
<1>3. Len(u) = b - a + 1 /\ \A i \in 1..(b - a + 1) : u[i] = t[a + i - 1]
  BY <1>1
<1> HIDE DEF u, a, b
<1>4. Len(u) \in Nat \ {0}
  BY <1>1, <1>3
<1>5. \A i \in 1..Len(u) : a + i - 1 \in 1..Len(t) /\ V[i] = S[a + i - 1]
  BY <1>1, <1>3
<1> HIDE DEF V
<1>6. Parts(u, V, size)
  <2>1. \A i \in 1..Len(u) : u[i] = Of(V[i], size)
    BY <1>3, <1>5 DEF Parts
  <2>2. ASSUME NEW i \in 1..Len(u), NEW j \in 1..Len(u), i # j
        PROVE  V[i] \cap V[j] = {}
    <3>1. a + i - 1 # a + j - 1
      BY <1>1, <1>4, <2>2
    <3> QED BY <3>1, <1>5 DEF Parts
  <2> QED BY <1>4, <2>1, <2>2 DEF Parts
<1>7. FirstSets(V, Len(u)) = GroupSet(S, t, g)
  <2>1. \A i \in a..b : i - a + 1 \in 1..Len(u) /\ V[i - a + 1] = S[i]
    <3> TAKE i \in a..b
    <3>1. i - a + 1 \in 1..Len(u) /\ a + (i - a + 1) - 1 = i
      BY <1>1, <1>3
    <3> QED BY <3>1, <1>5
  <2>2. \A i \in 1..Len(u) : a + i - 1 \in a..b
    BY <1>1, <1>3
  <2>3. ASSUME NEW x PROVE x \in {V[j] : j \in 1..Len(u)} <=> x \in {S[i] : i \in a..b}
    <3>1. ASSUME NEW j \in 1..Len(u), x = V[j] PROVE \E i \in a..b : x = S[i]
      BY <1>5, <2>2, <3>1
    <3>2. ASSUME NEW i \in a..b, x = S[i] PROVE \E j \in 1..Len(u) : x = V[j]
      BY <2>1, <3>2
    <3> QED BY <3>1, <3>2
  <2>4. {V[j] : j \in 1..Len(u)} = {S[i] : i \in a..b}
    BY <2>3
  <2> QED BY <2>4 DEF FirstSets, GroupSet, a, b
<1> QED BY <1>2, <1>6, <1>7, SumOf

LEMMA LevelOf ==
    ASSUME NEW size \in Nat, NEW S, NEW t, Parts(t, S, size)
    PROVE  \E V : /\ Parts(LevelUp(t), V, size)
                  /\ Len(LevelUp(t)) = Count(t)
                  /\ FirstSets(V, Count(t)) = FirstSets(S, Len(t))
<1> DEFINE V == [g \in 1..Count(t) |-> GroupSet(S, t, g)]
<1>1. Len(t) \in Nat \ {0} /\ \A i, j \in 1..Len(t) : i # j => S[i] \cap S[j] = {}
  BY DEF Parts
<1>2. /\ Count(t) \in Nat \ {0}
      /\ \A g, h \in 1..Count(t) : g # h =>
            \A i \in Start(g)..End(t, g), j \in Start(h)..End(t, h) :
               i \in 1..Len(t) /\ j \in 1..Len(t) /\ i # j
      /\ \A i \in 1..Len(t) : \E g \in 1..Count(t) : i \in Start(g)..End(t, g)
      /\ \A g \in 1..Count(t) : \A i \in Start(g)..End(t, g) : i \in 1..Len(t)
  <2>1. \A g \in 1..Count(t) : Start(g) \in 1..Len(t) /\ End(t, g) \in Start(g)..Len(t)
    BY <1>1, GroupBounds
  <2>2. \A g \in 1..Count(t) : \A i \in Start(g)..End(t, g) : i \in 1..Len(t)
    BY <1>1, <2>1
  <2>3. Count(t) \in 1..Len(t)
    BY <1>1, GroupBounds
  <2>4. Count(t) \in Nat \ {0}
    BY <1>1, <2>3
  <2> QED BY <1>1, <2>2, <2>4, GroupBounds
<1>3. DOMAIN Groups(t, 2) = 1..Count(t)
  BY <1>1, GroupsAre
<1>4. LevelUp(t) = [g \in 1..Count(t) |-> Of(V[g], size)]
  BY <1>3, GroupOf DEF LevelUp
<1>5. Len(LevelUp(t)) = Count(t)
  BY <1>2, <1>4
<1>6. ASSUME NEW g \in 1..Count(t), NEW h \in 1..Count(t), g # h, NEW x, x \in V[g], x \in V[h]
      PROVE  FALSE
  <2>1. PICK i \in Start(g)..End(t, g) : x \in S[i]
    BY <1>6 DEF GroupSet
  <2>2. PICK j \in Start(h)..End(t, h) : x \in S[j]
    BY <1>6 DEF GroupSet
  <2> QED BY <1>1, <1>2, <1>6, <2>1, <2>2
<1>7. FirstSets(V, Count(t)) = FirstSets(S, Len(t))
  <2>1. ASSUME NEW x, NEW g \in 1..Count(t), x \in V[g] PROVE x \in FirstSets(S, Len(t))
    BY <1>2, <2>1 DEF GroupSet, FirstSets
  <2>2. ASSUME NEW x, NEW i \in 1..Len(t), x \in S[i] PROVE x \in FirstSets(V, Count(t))
    <3>1. PICK g \in 1..Count(t) : i \in Start(g)..End(t, g)
      BY <1>2
    <3>2. x \in V[g]
      BY <2>2, <3>1 DEF GroupSet
    <3> QED BY <3>2 DEF FirstSets
  <2> QED BY <2>1, <2>2 DEF FirstSets
<1> HIDE DEF V
<1>8. Parts(LevelUp(t), V, size)
  BY <1>2, <1>4, <1>5, <1>6 DEF Parts
<1> QED BY <1>5, <1>7, <1>8

LevelSteps(h, t, k) == h = [i \in 0..k |-> IF i = 0 THEN t ELSE LevelUp(h[i - 1])]

LEMMA LevelsExist ==
    ASSUME NEW t, NEW n \in Nat
    PROVE  \E h : LevelSteps(h, t, n)
<1> DEFINE Bad == {k \in Nat : ~\E h : LevelSteps(h, t, k)}
<1> SUFFICES ASSUME Bad # {} PROVE FALSE
  OBVIOUS
<1>1. PICK k \in Bad : \A j \in Bad : k <= j
  BY NatMinimum
<1>2. k # 0
  <2> DEFINE h == [i \in 0..0 |-> t]
  <2>1. h = [i \in 0..0 |-> IF i = 0 THEN t ELSE LevelUp(h[i - 1])]
    OBVIOUS
  <2> HIDE DEF h
  <2>2. LevelSteps(h, t, 0)
    BY <2>1 DEF LevelSteps
  <2> QED BY <1>1, <2>2
<1>3. k - 1 \in Nat /\ k - 1 \notin Bad
  BY <1>1, <1>2
<1>4. PICK g : LevelSteps(g, t, k - 1)
  BY <1>3
<1> DEFINE h == [i \in 0..k |-> IF i = k THEN LevelUp(g[k - 1]) ELSE g[i]]
<1>5. \A i \in 0..(k - 1) : g[i] = IF i = 0 THEN t ELSE LevelUp(g[i - 1])
  BY <1>4 DEF LevelSteps
<1>6. \A i \in 0..k : h[i] = IF i = 0 THEN t ELSE LevelUp(h[i - 1])
  <2> SUFFICES ASSUME NEW i \in 0..k PROVE h[i] = IF i = 0 THEN t ELSE LevelUp(h[i - 1])
    OBVIOUS
  <2>1. CASE i = k
    <3>1. k - 1 \in 0..k /\ k - 1 # k
      BY <1>3
    <3>2. h[k - 1] = g[k - 1]
      BY <3>1
    <3> QED BY <1>2, <2>1, <3>2
  <2>2. CASE i = 0
    BY <1>2, <1>3, <1>5, <2>2
  <2>3. CASE i # k /\ i # 0
    <3>1. i \in 0..(k - 1) /\ i - 1 \in 0..k /\ i - 1 # k
      BY <1>3, <2>3
    <3> QED BY <1>5, <2>3, <3>1
  <2> QED BY <2>1, <2>2, <2>3
<1>7. h = [i \in 0..k |-> h[i]]
  OBVIOUS
<1> HIDE DEF h
<1>8. LevelSteps(h, t, k)
  BY <1>6, <1>7 DEF LevelSteps
<1> QED BY <1>1, <1>8

(* Each level has fewer tensors than the one below, and the same inputs.   *)
LEMMA TreeSumOf ==
    ASSUME NEW size \in Nat, NEW S, NEW t, Parts(t, S, size)
    PROVE  TreeSum(t, 2) = Of(FirstSets(S, Len(t)), size)
<1> DEFINE n == Len(t)
           level == CHOOSE h : LevelSteps(h, t, n)
           Good(i) == \E V : /\ Parts(level[i], V, size)
                             /\ FirstSets(V, Len(level[i])) = FirstSets(S, n)
                             /\ Len(level[i]) = 1 \/ Len(level[i]) <= n - i
<1>1. n \in Nat \ {0}
  BY DEF Parts
<1>2. TreeSum(t, 2) = Head(level[n])
  BY DEF TreeSum, LevelSteps, LevelUp
<1>3. LevelSteps(level, t, n)
  BY <1>1, LevelsExist
<1>4. \A i \in 0..n : level[i] = IF i = 0 THEN t ELSE LevelUp(level[i - 1])
  BY <1>3 DEF LevelSteps
<1> HIDE DEF level
<1>5. Good(0)
  BY <1>1, <1>4
<1>6. ASSUME NEW i \in 1..n, Good(i - 1) PROVE Good(i)
  <2>1. PICK V : /\ Parts(level[i - 1], V, size)
                 /\ FirstSets(V, Len(level[i - 1])) = FirstSets(S, n)
                 /\ Len(level[i - 1]) = 1 \/ Len(level[i - 1]) <= n - (i - 1)
    BY <1>6
  <2> DEFINE low == level[i - 1]
  <2>2. PICK W : /\ Parts(LevelUp(low), W, size)
                 /\ Len(LevelUp(low)) = Count(low)
                 /\ FirstSets(W, Count(low)) = FirstSets(V, Len(low))
    BY <2>1, LevelOf
  <2>3. level[i] = LevelUp(low)
    BY <1>1, <1>4
  <2>4. Len(low) \in Nat \ {0}
    BY <2>1 DEF Parts
  <2>5. Count(low) \in 1..Len(low) /\ (Len(low) > 1 => Count(low) < Len(low))
    BY <2>4, GroupBounds
  <2>6. Count(low) = 1 \/ Count(low) <= n - i
    <3>1. Len(low) = 1 \/ Len(low) <= n - (i - 1)
      BY <2>1
    <3> HIDE DEF low
    <3> DEFINE c == Count(low)
               l == Len(low)
    <3>2. c \in 1..l /\ (l > 1 => c < l) /\ l \in Nat \ {0} /\ (l = 1 \/ l <= n - (i - 1))
      BY <2>4, <2>5, <3>1
    <3> HIDE DEF c, l
    <3>3. c = 1 \/ c <= n - i
      BY <1>1, <3>2
    <3> QED BY <3>3 DEF c
  <2>7. /\ Parts(level[i], W, size)
        /\ FirstSets(W, Len(level[i])) = FirstSets(S, n)
        /\ Len(level[i]) = 1 \/ Len(level[i]) <= n - i
    BY <2>1, <2>2, <2>3, <2>6
  <2> QED BY <2>7
<1> HIDE DEF Good
<1>7. Good(n)
  <2> DEFINE Bad == {j \in 0..n : ~Good(j)}
  <2> SUFFICES ASSUME Bad # {} PROVE FALSE
    BY <1>1
  <2>1. Bad \in SUBSET Nat
    BY <1>1
  <2>2. PICK m \in Bad : \A j \in Bad : m <= j
    BY <2>1, NatMinimum
  <2>3. m \in 1..n /\ m - 1 \in 0..n
    BY <1>1, <1>5, <2>2
  <2>4. Good(m - 1)
    BY <2>2, <2>3
  <2> QED BY <1>6, <2>2, <2>3, <2>4
<1>8. PICK V : /\ Parts(level[n], V, size)
               /\ FirstSets(V, Len(level[n])) = FirstSets(S, n)
               /\ Len(level[n]) = 1 \/ Len(level[n]) <= n - n
  BY <1>7 DEF Good
<1>9. Len(level[n]) = 1
  BY <1>1, <1>8 DEF Parts
<1>10. FirstSets(V, 1) = V[1]
  <2>1. 1..1 = {1}
    OBVIOUS
  <2> QED BY <2>1 DEF FirstSets
<1>11. level[n][1] = Of(V[1], size)
  BY <1>8, <1>9 DEF Parts
<1> QED BY <1>2, <1>8, <1>9, <1>10, <1>11

-----------------------------------------------------------------------------
(* Rings: the arithmetic of the cycles.                                    *)

LEMMA DivMod ==
    ASSUME NEW x \in Nat, NEW n \in Nat \ {0}
    PROVE  x \div n \in Nat /\ x % n \in 0..(n - 1) /\ x = n * (x \div n) + (x % n)
OBVIOUS

LEMMA DivModUnique ==
    ASSUME NEW n \in Nat \ {0}, NEW q \in Nat, NEW r \in 0..(n - 1),
           NEW p \in Nat, NEW s \in 0..(n - 1), n * q + r = n * p + s
    PROVE  q = p /\ r = s
<1>1. ASSUME NEW a \in Nat, NEW b \in Nat, a < b PROVE n * b >= n * a + n
  <2>1. b - a - 1 \in Nat /\ b = a + 1 + (b - a - 1)
    BY <1>1
  <2>2. n * b = n * a + n + n * (b - a - 1)
    BY <2>1
  <2>3. n * (b - a - 1) \in Nat
    BY <2>1
  <2> QED BY <2>2, <2>3
<1>2. n * q \in Nat /\ n * p \in Nat
  OBVIOUS
<1>3. ~(q < p)
  BY <1>1, <1>2
<1>4. ~(p < q)
  BY <1>1, <1>2
<1> QED BY <1>2, <1>3, <1>4

LEMMA DivModIs ==
    ASSUME NEW n \in Nat \ {0}, NEW q \in Nat, NEW r \in 0..(n - 1), NEW x \in Nat,
           x = n * q + r
    PROVE  x \div n = q /\ x % n = r
BY DivMod, DivModUnique

Succ(n, i) == IF i = n - 1 THEN 0 ELSE i + 1
Prev(n, i) == IF i = 0 THEN n - 1 ELSE i - 1
Behind(n, a, b) == IF a >= b THEN a - b ELSE a - b + n

LEMMA NextModulo ==
    ASSUME NEW n \in Nat \ {0}, NEW i \in 0..(n - 1)
    PROVE  (i + 1) % n = Succ(n, i)
<1>1. CASE i = n - 1
  <2>1. i + 1 = n * 1 + 0 /\ 0 \in 0..(n - 1) /\ i + 1 \in Nat
    BY <1>1
  <2> QED BY <1>1, <2>1, DivModIs DEF Succ
<1>2. CASE i # n - 1
  <2>1. i + 1 = n * 0 + (i + 1) /\ i + 1 \in 0..(n - 1) /\ i + 1 \in Nat
    BY <1>2
  <2> QED BY <1>2, <2>1, DivModIs DEF Succ
<1> QED BY <1>1, <1>2

LEMMA BehindModulo ==
    ASSUME NEW n \in Nat \ {0}, NEW c \in 0..(n - 1), NEW i \in 0..(n - 1)
    PROVE  (i + (n - 1) * c) % n = Behind(n, i, c)
<1>0. (n - 1) * c = n * c - c /\ n * c \in Nat /\ (n - 1) * c \in Nat
  OBVIOUS
<1>1. CASE i >= c
  <2>1. i + (n - 1) * c = n * c + (i - c) /\ i - c \in 0..(n - 1) /\ i + (n - 1) * c \in Nat
    BY <1>0, <1>1
  <2> QED BY <1>1, <2>1, DivModIs DEF Behind
<1>2. CASE i < c
  <2>1. n * (c - 1) = n * c - n
    OBVIOUS
  <2>2. /\ i + (n - 1) * c = n * (c - 1) + (i - c + n)
        /\ i - c + n \in 0..(n - 1) /\ i + (n - 1) * c \in Nat /\ c - 1 \in Nat
    BY <1>0, <1>2, <2>1
  <2> QED BY <1>2, <2>2, DivModIs DEF Behind
<1> QED BY <1>1, <1>2

LEMMA NextBehindModulo ==
    ASSUME NEW n \in Nat \ {0}, NEW c \in 0..(n - 1), NEW i \in 0..(n - 1)
    PROVE  (i + 1 + (n - 1) * c) % n = Behind(n, Succ(n, i), c)
<1>0. (n - 1) * c = n * c - c /\ n * c \in Nat /\ (n - 1) * c \in Nat
  OBVIOUS
<1>1. CASE i # n - 1
  <2>1. i + 1 \in 0..(n - 1)
    BY <1>1
  <2> QED BY <1>1, <2>1, BehindModulo DEF Succ
<1>2. CASE i = n - 1 /\ c = 0
  <2>1. i + 1 + (n - 1) * c = n * 1 + 0 /\ 0 \in 0..(n - 1) /\ i + 1 + (n - 1) * c \in Nat
    BY <1>0, <1>2
  <2>2. (i + 1 + (n - 1) * c) % n = 0
    BY <2>1, DivModIs
  <2> QED BY <1>2, <2>2 DEF Succ, Behind
<1>3. CASE i = n - 1 /\ c > 0
  <2> DEFINE x == i + 1 + (n - 1) * c
             r == n - c
  <2>1. x = n * c + r /\ r \in 0..(n - 1) /\ x \in Nat
    BY <1>0, <1>3
  <2> HIDE DEF x, r
  <2>2. x % n = r
    BY <2>1, DivModIs
  <2> QED BY <1>3, <2>2 DEF Succ, Behind, x, r
<1> QED BY <1>1, <1>2, <1>3

(* Step j is step j % n of cycle j \div n. *)
LEMMA NextStep ==
    ASSUME NEW n \in Nat \ {0}, NEW j \in Nat
    PROVE  /\ (j + 1) % n = Succ(n, j % n)
           /\ (j + 1) \div n = IF j % n = n - 1 THEN j \div n + 1 ELSE j \div n
<1> DEFINE q == j \div n
           r == j % n
<1>1. q \in Nat /\ r \in 0..(n - 1) /\ j = n * q + r
  BY DivMod
<1> HIDE DEF q, r
<1>2. CASE r = n - 1
  <2>1. n * (q + 1) = n * q + n /\ n * q \in Nat
    BY <1>1
  <2>2. j + 1 = n * (q + 1) + 0 /\ 0 \in 0..(n - 1)
    BY <1>1, <1>2, <2>1
  <2>3. (j + 1) \div n = q + 1 /\ (j + 1) % n = 0
    BY <1>1, <2>2, DivModIs
  <2> QED BY <1>2, <2>3 DEF Succ, q, r
<1>3. CASE r # n - 1
  <2>1. j + 1 = n * q + (r + 1) /\ r + 1 \in 0..(n - 1)
    BY <1>1, <1>3
  <2>2. (j + 1) \div n = q /\ (j + 1) % n = r + 1
    BY <1>1, <2>1, DivModIs
  <2> QED BY <1>3, <2>2 DEF Succ, q, r
<1> QED BY <1>2, <1>3

LEMMA StepBounds ==
    ASSUME NEW n \in Nat \ {0}
    PROVE  /\ n * (n - 1) \in Nat
           /\ 0 \div n = 0 /\ 0 % n = 0
           /\ (n * (n - 1)) \div n = n - 1 /\ (n * (n - 1)) % n = 0
           /\ \A j \in 0..(n * (n - 1) - 1) : j \div n \in 0..(n - 2)
<1>1. n * (n - 1) \in Nat /\ n - 1 \in Nat /\ 0 \in 0..(n - 1)
  OBVIOUS
<1>2. 0 = n * 0 + 0 /\ n * (n - 1) = n * (n - 1) + 0
  BY <1>1
<1>3. ASSUME NEW j \in 0..(n * (n - 1) - 1) PROVE j \div n \in 0..(n - 2)
  <2> DEFINE q == j \div n
  <2>1. q \in Nat /\ n * q <= j /\ j < n * (n - 1)
    BY <1>1, DivMod
  <2> HIDE DEF q
  <2>2. ASSUME q >= n - 1 PROVE FALSE
    <3>1. q - (n - 1) \in Nat
      BY <2>1, <2>2
    <3>2. n * q = n * (n - 1) + n * (q - (n - 1)) /\ n * (q - (n - 1)) \in Nat
      BY <2>1, <3>1
    <3> QED BY <1>1, <2>1, <3>2
  <2>3. q \in 0..(n - 2)
    BY <2>1, <2>2
  <2> QED BY <2>3 DEF q
<1>4. 0 \div n = 0 /\ 0 % n = 0
  BY <1>1, <1>2, DivModIs
<1>5. (n * (n - 1)) \div n = n - 1 /\ (n * (n - 1)) % n = 0
  BY <1>1, <1>2, DivModIs
<1> QED BY <1>1, <1>3, <1>4, <1>5

-----------------------------------------------------------------------------
(* Rings: one step.                                                        *)

Ring(s, n) ==
    /\ n \in Nat \ {0} /\ Len(s) = n /\ DOMAIN s = 1..n
    /\ \A d \in 1..n : DOMAIN s[d] = 1..n

LEMMA PassFacts ==
    ASSUME NEW n, NEW s, Ring(s, n), NEW phase \in {1, 2}, NEW c \in 0..(n - 1),
           NEW i \in 0..(n - 1), NEW k \in 0..(n - 1), SliceToPass(n, phase, c, i) = k
    PROVE  /\ Ring(PassSlice(s, phase, c, i), n)
           /\ \A x, y \in 0..(n - 1) :
                 PassSlice(s, phase, c, i)[x + 1][y + 1] =
                    IF x = Succ(n, i) /\ y = k
                    THEN IF phase = 1 THEN Add(s[x + 1][y + 1], s[i + 1][y + 1])
                         ELSE s[i + 1][y + 1]
                    ELSE s[x + 1][y + 1]
<1> DEFINE d == Succ(n, i) + 1
           e == k + 1
           v == IF phase = 1 THEN Add(s[d][e], s[i + 1][e]) ELSE s[i + 1][e]
           r == [s EXCEPT ![d][e] = v]
<1>1. n \in Nat \ {0} /\ Len(s) = n /\ DOMAIN s = 1..n /\ \A x \in 1..n : DOMAIN s[x] = 1..n
  BY DEF Ring
<1>2. (i + 1) % n = Succ(n, i)
  BY <1>1, NextModulo
<1>3. d \in 1..n /\ e \in 1..n
  BY <1>1 DEF Succ
<1>4. PassSlice(s, phase, c, i) =
          [s EXCEPT ![d][e] = IF phase = 1 THEN Add(@, s[i + 1][e]) ELSE s[i + 1][e]]
  BY <1>1, <1>2 DEF PassSlice
<1>5. PassSlice(s, phase, c, i) = r
  BY <1>1, <1>3, <1>4
<1> HIDE DEF v
<1>6. DOMAIN r = 1..n /\ \A x \in 1..n : DOMAIN r[x] = 1..n
  BY <1>1, <1>3
<1>7. Len(r) = n
  BY <1>1, <1>6
<1>8. \A x, y \in 1..n : r[x][y] = IF x = d /\ y = e THEN v ELSE s[x][y]
  BY <1>1, <1>3
<1> HIDE DEF r
<1>9. ASSUME NEW x \in 0..(n - 1), NEW y \in 0..(n - 1)
      PROVE  r[x + 1][y + 1] = IF x = Succ(n, i) /\ y = k
                THEN IF phase = 1 THEN Add(s[x + 1][y + 1], s[i + 1][y + 1])
                     ELSE s[i + 1][y + 1]
                ELSE s[x + 1][y + 1]
  <2>1. x + 1 \in 1..n /\ y + 1 \in 1..n
    BY <1>1
  <2>2. Succ(n, i) \in 0..(n - 1)
    BY <1>1 DEF Succ
  <2>3. (x + 1 = d <=> x = Succ(n, i)) /\ (y + 1 = e <=> y = k)
    BY <2>2
  <2>4. CASE x = Succ(n, i) /\ y = k
    BY <1>8, <2>1, <2>4 DEF v
  <2>5. CASE ~(x = Succ(n, i) /\ y = k)
    BY <1>8, <2>1, <2>3, <2>5
  <2> QED BY <2>4, <2>5
<1> QED BY <1>1, <1>5, <1>6, <1>7, <1>9 DEF Ring

(* The inputs of the devices from k to d, around the ring; of all devices. *)
Between(n, k, d) == {x \in 0..(n - 1) : Behind(n, x, k) <= Behind(n, d, k)}
Arc(S, n, k, d) == UNION {S[x + 1] : x \in Between(n, k, d)}
All(S, n) == UNION {S[x + 1] : x \in 0..(n - 1)}

(* Before step i of cycle c, device d has added the slice k of the devices *)
(* before it, or not yet; in the second phase it has the whole sum of the  *)
(* slice, or not yet.                                                      *)
Added(n, c, i, d, k) ==
    LET m == Behind(n, d, k)
    IN  m > 0 /\ (m - 1 < c \/ (m - 1 = c /\ Prev(n, d) < i))

Replaced(n, c, i, d, k) ==
    LET m == Behind(n, d, k)
    IN  m = n - 1 \/ m < c \/ (m = c /\ Prev(n, d) < i)

Adds(s, S, n, w, c, i) ==
    \A d, k \in 0..(n - 1) :
        s[d + 1][k + 1] = Of(IF Added(n, c, i, d, k) THEN Arc(S, n, k, d) ELSE S[d + 1], w[k])

Replaces(s, S, n, w, c, i) ==
    \A d, k \in 0..(n - 1) :
        s[d + 1][k + 1] = Of(IF Replaced(n, c, i, d, k) THEN All(S, n) ELSE Arc(S, n, k, d), w[k])

NextCycle(n, c, i) == IF i = n - 1 THEN c + 1 ELSE c

LEMMA BehindFacts ==
    ASSUME NEW n \in Nat \ {0}, NEW a \in 0..(n - 1), NEW b \in 0..(n - 1)
    PROVE  /\ Behind(n, a, b) \in 0..(n - 1) /\ Succ(n, a) \in 0..(n - 1)
           /\ Prev(n, a) \in 0..(n - 1) /\ Prev(n, Succ(n, a)) = a
           /\ Behind(n, a, Behind(n, a, b)) = b
           /\ Behind(n, a, b) = 0 <=> a = b
           /\ \A x \in 0..(n - 1) : Behind(n, x, b) = Behind(n, a, b) => x = a
           /\ \A x \in 0..(n - 1) : Behind(n, a, x) = Behind(n, a, b) => x = b
           /\ Behind(n, a, b) < n - 1 => Behind(n, Succ(n, a), b) = Behind(n, a, b) + 1
BY DEF Behind, Succ, Prev

LEMMA AddedStep ==
    ASSUME NEW n \in Nat \ {0}, NEW c \in 0..(n - 2), NEW i \in 0..(n - 1)
    PROVE  LET k == Behind(n, i, c)
               d == Succ(n, i)
           IN  /\ Behind(n, i, k) = c /\ Behind(n, d, k) = c + 1
               /\ ~Added(n, c, i, d, k)
               /\ c = 0 => k = i
               /\ c > 0 => Added(n, c, i, i, k)
               /\ \A x, y \in 0..(n - 1) :
                     Added(n, NextCycle(n, c, i), Succ(n, i), x, y) <=>
                        Added(n, c, i, x, y) \/ (x = d /\ y = k)
<1> DEFINE k == Behind(n, i, c)
           d == Succ(n, i)
<1>0. c \in 0..(n - 1) /\ i \in 0..(n - 1) /\ c < n - 1
  OBVIOUS
<1>1. k \in 0..(n - 1) /\ d \in 0..(n - 1) /\ Prev(n, d) = i /\ Behind(n, i, k) = c
  BY <1>0, BehindFacts
<1>2. Behind(n, d, k) = c + 1
  BY <1>0, <1>1 DEF Behind, Succ
<1> HIDE DEF k, d
<1>3. ~Added(n, c, i, d, k)
  BY <1>1, <1>2 DEF Added
<1>4. c = 0 => k = i
  BY DEF Behind, k
<1>5. c > 0 => Added(n, c, i, i, k)
  BY <1>1 DEF Added
<1>6. ASSUME NEW x \in 0..(n - 1), NEW y \in 0..(n - 1)
      PROVE  Added(n, NextCycle(n, c, i), Succ(n, i), x, y) <=>
                Added(n, c, i, x, y) \/ (x = d /\ y = k)
  <2> DEFINE m == Behind(n, x, y)
             p == Prev(n, x)
  <2>1. m \in 0..(n - 1) /\ p \in 0..(n - 1)
    BY BehindFacts
  <2>2. p = i <=> x = d
    BY DEF Prev, Succ, d
  <2>3. x = d => (m = c + 1 <=> y = k)
    BY <1>0, <1>1, <1>2 DEF Behind
  <2>4. Added(n, c, i, x, y) <=> m > 0 /\ (m - 1 < c \/ (m - 1 = c /\ p < i))
    BY DEF Added
  <2>5. Added(n, NextCycle(n, c, i), Succ(n, i), x, y) <=>
          m > 0 /\ (m - 1 < NextCycle(n, c, i) \/ (m - 1 = NextCycle(n, c, i) /\ p < Succ(n, i)))
    BY DEF Added
  <2> HIDE DEF m, p
  <2>6. CASE i = n - 1
    <3>1. NextCycle(n, c, i) = c + 1 /\ Succ(n, i) = 0
      BY <2>6 DEF NextCycle, Succ
    <3> QED BY <2>1, <2>2, <2>3, <2>4, <2>5, <2>6, <3>1
  <2>7. CASE i # n - 1
    <3>1. NextCycle(n, c, i) = c /\ Succ(n, i) = i + 1
      BY <2>7 DEF NextCycle, Succ
    <3> QED BY <2>1, <2>2, <2>3, <2>4, <2>5, <2>7, <3>1
  <2> QED BY <2>6, <2>7
<1> QED BY <1>1, <1>2, <1>3, <1>4, <1>5, <1>6 DEF k, d

LEMMA ReplacedStep ==
    ASSUME NEW n \in Nat \ {0}, NEW c \in 0..(n - 2), NEW i \in 0..(n - 1)
    PROVE  LET k == Behind(n, Succ(n, i), c)
               d == Succ(n, i)
           IN  /\ k \in 0..(n - 1) /\ d \in 0..(n - 1)
               /\ Replaced(n, c, i, i, k)
               /\ \A x, y \in 0..(n - 1) :
                     Replaced(n, NextCycle(n, c, i), Succ(n, i), x, y) <=>
                        Replaced(n, c, i, x, y) \/ (x = d /\ y = k)
<1> DEFINE d == Succ(n, i)
           k == Behind(n, d, c)
<1>0. c \in 0..(n - 1) /\ i \in 0..(n - 1) /\ c < n - 1
  OBVIOUS
<1>1. d \in 0..(n - 1) /\ Prev(n, d) = i
  BY BehindFacts
<1> HIDE DEF d
<1>2. k \in 0..(n - 1) /\ Behind(n, d, k) = c
  BY <1>0, <1>1 DEF Behind
<1>3. Behind(n, i, k) = IF c = 0 THEN n - 1 ELSE c - 1
  BY <1>0 DEF Behind, Succ, d
<1> HIDE DEF k
<1>4. Replaced(n, c, i, i, k)
  BY <1>3 DEF Replaced
<1>6. ASSUME NEW x \in 0..(n - 1), NEW y \in 0..(n - 1)
      PROVE  Replaced(n, NextCycle(n, c, i), Succ(n, i), x, y) <=>
                Replaced(n, c, i, x, y) \/ (x = d /\ y = k)
  <2> DEFINE m == Behind(n, x, y)
             p == Prev(n, x)
  <2>1. m \in 0..(n - 1) /\ p \in 0..(n - 1)
    BY BehindFacts
  <2>2. p = i <=> x = d
    BY DEF Prev, Succ, d
  <2>3. x = d => (m = c <=> y = k)
    BY <1>1, <1>2 DEF Behind
  <2>4. Replaced(n, c, i, x, y) <=> m = n - 1 \/ m < c \/ (m = c /\ p < i)
    BY DEF Replaced
  <2>5. Replaced(n, NextCycle(n, c, i), Succ(n, i), x, y) <=>
          m = n - 1 \/ m < NextCycle(n, c, i) \/ (m = NextCycle(n, c, i) /\ p < Succ(n, i))
    BY DEF Replaced
  <2> HIDE DEF m, p
  <2>6. CASE i = n - 1
    <3>1. NextCycle(n, c, i) = c + 1 /\ Succ(n, i) = 0
      BY <2>6 DEF NextCycle, Succ
    <3> QED BY <2>1, <2>2, <2>3, <2>4, <2>5, <2>6, <3>1
  <2>7. CASE i # n - 1
    <3>1. NextCycle(n, c, i) = c /\ Succ(n, i) = i + 1
      BY <2>7 DEF NextCycle, Succ
    <3> QED BY <2>1, <2>2, <2>3, <2>4, <2>5, <2>7, <3>1
  <2> QED BY <2>6, <2>7
<1> QED BY <1>1, <1>2, <1>4, <1>6 DEF k, d

Disjoint(S, n) == \A a, b \in 0..(n - 1) : a # b => S[a + 1] \cap S[b + 1] = {}

LEMMA ArcFacts ==
    ASSUME NEW n \in Nat \ {0}, NEW S, Disjoint(S, n), NEW k \in 0..(n - 1), NEW i \in 0..(n - 1)
    PROVE  /\ Arc(S, n, k, k) = S[k + 1]
           /\ Behind(n, i, k) = n - 1 => Arc(S, n, k, i) = All(S, n)
           /\ Behind(n, i, k) < n - 1 =>
                 /\ S[Succ(n, i) + 1] \cap Arc(S, n, k, i) = {}
                 /\ S[Succ(n, i) + 1] \cup Arc(S, n, k, i) = Arc(S, n, k, Succ(n, i))
<1>1. Between(n, k, k) = {k}
  BY DEF Between, Behind
<1>2. Arc(S, n, k, k) = S[k + 1]
  BY <1>1 DEF Arc
<1>3. ASSUME Behind(n, i, k) = n - 1 PROVE Arc(S, n, k, i) = All(S, n)
  <2>1. Between(n, k, i) = 0..(n - 1)
    <3>1. \A x \in 0..(n - 1) : Behind(n, x, k) \in 0..(n - 1)
      BY BehindFacts
    <3> QED BY <1>3, <3>1 DEF Between
  <2> QED BY <2>1 DEF Arc, All
<1>4. ASSUME Behind(n, i, k) < n - 1
      PROVE  /\ S[Succ(n, i) + 1] \cap Arc(S, n, k, i) = {}
             /\ S[Succ(n, i) + 1] \cup Arc(S, n, k, i) = Arc(S, n, k, Succ(n, i))
  <2> DEFINE d == Succ(n, i)
  <2>1. d \in 0..(n - 1) /\ Behind(n, d, k) = Behind(n, i, k) + 1
    BY <1>4, BehindFacts
  <2> HIDE DEF d
  <2>2. ASSUME NEW x \in 0..(n - 1)
        PROVE  x \in Between(n, k, d) <=> x \in Between(n, k, i) \/ x = d
    <3>1. Behind(n, x, k) \in 0..(n - 1) /\ Behind(n, i, k) \in 0..(n - 1)
      BY BehindFacts
    <3>2. Behind(n, x, k) = Behind(n, d, k) <=> x = d
      BY <2>1 DEF Behind
    <3> QED BY <2>1, <3>1, <3>2 DEF Between
  <2>3. d \notin Between(n, k, i)
    BY <2>1, BehindFacts DEF Between
  <2>4. Between(n, k, d) = Between(n, k, i) \cup {d}
    BY <2>1, <2>2 DEF Between
  <2>5. Between(n, k, i) \subseteq 0..(n - 1)
    BY DEF Between
  <2>6. S[d + 1] \cup Arc(S, n, k, i) = Arc(S, n, k, d)
    BY <2>4 DEF Arc
  <2>7. \A x \in Between(n, k, i) : S[d + 1] \cap S[x + 1] = {}
    BY <2>1, <2>3, <2>5 DEF Disjoint
  <2>8. S[d + 1] \cap Arc(S, n, k, i) = {}
    BY <2>7 DEF Arc
  <2> QED BY <2>6, <2>8 DEF d
<1> QED BY <1>2, <1>3, <1>4

LEMMA AddsStep ==
    ASSUME NEW n, NEW s, Ring(s, n), NEW S, Disjoint(S, n), NEW w, \A k \in 0..(n - 1) : w[k] \in Nat,
           NEW c \in 0..(n - 2), NEW i \in 0..(n - 1), Adds(s, S, n, w, c, i)
    PROVE  LET r == PassSlice(s, 1, c, i)
           IN  Ring(r, n) /\ Adds(r, S, n, w, NextCycle(n, c, i), Succ(n, i))
<1> DEFINE k == Behind(n, i, c)
           d == Succ(n, i)
           r == PassSlice(s, 1, c, i)
<1>1. n \in Nat \ {0} /\ c \in 0..(n - 1) /\ c < n - 1
  BY DEF Ring
<1>2. SliceToPass(n, 1, c, i) = k /\ k \in 0..(n - 1) /\ d \in 0..(n - 1)
  BY <1>1, BehindModulo, BehindFacts DEF SliceToPass
<1>3. /\ Behind(n, i, k) = c /\ Behind(n, d, k) = c + 1
      /\ ~Added(n, c, i, d, k)
      /\ c = 0 => k = i
      /\ c > 0 => Added(n, c, i, i, k)
      /\ \A x, y \in 0..(n - 1) :
            Added(n, NextCycle(n, c, i), Succ(n, i), x, y) <=>
               Added(n, c, i, x, y) \/ (x = d /\ y = k)
  BY <1>1, AddedStep
<1> HIDE DEF k
<1>4. /\ Ring(r, n)
      /\ \A x, y \in 0..(n - 1) :
            r[x + 1][y + 1] = IF x = d /\ y = k THEN Add(s[x + 1][y + 1], s[i + 1][y + 1])
                              ELSE s[x + 1][y + 1]
  BY <1>1, <1>2, PassFacts
<1> HIDE DEF r, d
<1>5. s[i + 1][k + 1] = Of(Arc(S, n, k, i), w[k])
  <2>1. CASE c = 0
    <3>1. k = i /\ ~Added(n, c, i, i, k)
      <4>1. Behind(n, i, k) = 0
        BY <1>3, <2>1
      <4> QED BY <1>3, <2>1, <4>1 DEF Added
    <3>2. s[i + 1][k + 1] = Of(S[i + 1], w[k])
      BY <1>2, <3>1 DEF Adds
    <3> QED BY <1>1, <1>2, <3>1, <3>2, ArcFacts
  <2>2. CASE c # 0
    <3>1. Added(n, c, i, i, k)
      BY <1>3, <2>2
    <3> QED BY <1>2, <3>1 DEF Adds
  <2> QED BY <2>1, <2>2
<1>6. s[d + 1][k + 1] = Of(S[d + 1], w[k])
  BY <1>2, <1>3 DEF Adds
<1>7. S[d + 1] \cap Arc(S, n, k, i) = {} /\ S[d + 1] \cup Arc(S, n, k, i) = Arc(S, n, k, d)
  BY <1>1, <1>2, <1>3, ArcFacts DEF d
<1>8. Add(s[d + 1][k + 1], s[i + 1][k + 1]) = Of(Arc(S, n, k, d), w[k])
  BY <1>2, <1>5, <1>6, <1>7, AddOf
<1>9. ASSUME NEW x \in 0..(n - 1), NEW y \in 0..(n - 1)
      PROVE  r[x + 1][y + 1] =
                Of(IF Added(n, NextCycle(n, c, i), Succ(n, i), x, y) THEN Arc(S, n, y, x)
                   ELSE S[x + 1], w[y])
  <2>1. CASE x = d /\ y = k
    BY <1>3, <1>4, <1>8, <2>1
  <2>2. CASE ~(x = d /\ y = k)
    <3>1. r[x + 1][y + 1] = s[x + 1][y + 1]
      BY <1>4, <2>2
    <3>2. Added(n, NextCycle(n, c, i), Succ(n, i), x, y) <=> Added(n, c, i, x, y)
      BY <1>3, <2>2
    <3>3. s[x + 1][y + 1] =
             Of(IF Added(n, c, i, x, y) THEN Arc(S, n, y, x) ELSE S[x + 1], w[y])
      BY DEF Adds
    <3> QED BY <3>1, <3>2, <3>3
  <2> QED BY <2>1, <2>2
<1>10. Adds(r, S, n, w, NextCycle(n, c, i), Succ(n, i))
  BY <1>9 DEF Adds
<1> QED BY <1>4, <1>10 DEF r

LEMMA ReplacesStep ==
    ASSUME NEW n, NEW s, Ring(s, n), NEW S, NEW w,
           NEW c \in 0..(n - 2), NEW i \in 0..(n - 1), Replaces(s, S, n, w, c, i)
    PROVE  LET r == PassSlice(s, 2, c, i)
           IN  Ring(r, n) /\ Replaces(r, S, n, w, NextCycle(n, c, i), Succ(n, i))
<1> DEFINE d == Succ(n, i)
           k == Behind(n, d, c)
           r == PassSlice(s, 2, c, i)
<1>1. n \in Nat \ {0} /\ c \in 0..(n - 1) /\ c < n - 1
  BY DEF Ring
<1>2. SliceToPass(n, 2, c, i) = k
  BY <1>1, NextBehindModulo DEF SliceToPass
<1>3. /\ k \in 0..(n - 1) /\ d \in 0..(n - 1)
      /\ Replaced(n, c, i, i, k)
      /\ \A x, y \in 0..(n - 1) :
            Replaced(n, NextCycle(n, c, i), Succ(n, i), x, y) <=>
               Replaced(n, c, i, x, y) \/ (x = d /\ y = k)
  BY <1>1, ReplacedStep
<1> HIDE DEF k
<1>4. /\ Ring(r, n)
      /\ \A x, y \in 0..(n - 1) :
            r[x + 1][y + 1] = IF x = d /\ y = k THEN s[i + 1][y + 1] ELSE s[x + 1][y + 1]
  <2>1. 2 \in {1, 2} /\ 2 # 1
    OBVIOUS
  <2>2. /\ Ring(r, n)
        /\ \A x, y \in 0..(n - 1) :
              r[x + 1][y + 1] = IF x = d /\ y = k
                 THEN IF 2 = 1 THEN Add(s[x + 1][y + 1], s[i + 1][y + 1]) ELSE s[i + 1][y + 1]
                 ELSE s[x + 1][y + 1]
    <3> HIDE DEF d
    <3>1. k \in 0..(n - 1) /\ SliceToPass(n, 2, c, i) = k /\ c \in 0..(n - 1)
      BY <1>1, <1>2, <1>3
    <3> QED BY <2>1, <3>1, PassFacts DEF d
  <2> HIDE DEF r, d
  <2> QED BY <2>1, <2>2
<1> HIDE DEF r, d
<1>5. s[i + 1][k + 1] = Of(All(S, n), w[k])
  BY <1>3 DEF Replaces
<1>9. ASSUME NEW x \in 0..(n - 1), NEW y \in 0..(n - 1)
      PROVE  r[x + 1][y + 1] =
                Of(IF Replaced(n, NextCycle(n, c, i), Succ(n, i), x, y) THEN All(S, n)
                   ELSE Arc(S, n, y, x), w[y])
  <2>1. CASE x = d /\ y = k
    BY <1>3, <1>4, <1>5, <2>1
  <2>2. CASE ~(x = d /\ y = k)
    <3>1. r[x + 1][y + 1] = s[x + 1][y + 1]
      BY <1>4, <2>2
    <3>2. Replaced(n, NextCycle(n, c, i), Succ(n, i), x, y) <=> Replaced(n, c, i, x, y)
      BY <1>3, <2>2
    <3>3. s[x + 1][y + 1] =
             Of(IF Replaced(n, c, i, x, y) THEN All(S, n) ELSE Arc(S, n, y, x), w[y])
      BY DEF Replaces
    <3> QED BY <3>1, <3>2, <3>3
  <2> QED BY <2>1, <2>2
<1>10. Replaces(r, S, n, w, NextCycle(n, c, i), Succ(n, i))
  BY <1>9 DEF Replaces
<1> QED BY <1>4, <1>10 DEF r

-----------------------------------------------------------------------------
(* Rings: all steps.                                                       *)

RunSteps(g, s, phase, n, k) ==
    g = [j \in 0..k |-> IF j = 0 THEN s
                        ELSE PassSlice(g[j - 1], phase, (j - 1) \div n, (j - 1) % n)]

LEMMA RunsExist ==
    ASSUME NEW s, NEW phase, NEW n, NEW last \in Nat
    PROVE  \E g : RunSteps(g, s, phase, n, last)
<1> DEFINE Bad == {k \in Nat : ~\E g : RunSteps(g, s, phase, n, k)}
           Pass(x, j) == PassSlice(x, phase, (j - 1) \div n, (j - 1) % n)
<1> SUFFICES ASSUME Bad # {} PROVE FALSE
  OBVIOUS
<1>1. PICK k \in Bad : \A j \in Bad : k <= j
  BY NatMinimum
<1>2. k # 0
  <2> DEFINE h == [i \in 0..0 |-> s]
  <2>1. h = [i \in 0..0 |-> IF i = 0 THEN s ELSE Pass(h[i - 1], i)]
    OBVIOUS
  <2> HIDE DEF h
  <2>2. RunSteps(h, s, phase, n, 0)
    BY <2>1 DEF RunSteps
  <2> QED BY <1>1, <2>2
<1>3. k - 1 \in Nat /\ k - 1 \notin Bad
  BY <1>1, <1>2
<1>4. PICK g : RunSteps(g, s, phase, n, k - 1)
  BY <1>3
<1>5. \A i \in 0..(k - 1) : g[i] = IF i = 0 THEN s ELSE Pass(g[i - 1], i)
  BY <1>4 DEF RunSteps
<1> DEFINE h == [i \in 0..k |-> IF i = k THEN Pass(g[k - 1], k) ELSE g[i]]
<1> HIDE DEF Pass
<1>6. \A i \in 0..k : h[i] = IF i = 0 THEN s ELSE Pass(h[i - 1], i)
  <2> SUFFICES ASSUME NEW i \in 0..k PROVE h[i] = IF i = 0 THEN s ELSE Pass(h[i - 1], i)
    OBVIOUS
  <2>1. CASE i = k
    <3>1. k - 1 \in 0..k /\ k - 1 # k
      BY <1>3
    <3>2. h[k - 1] = g[k - 1]
      BY <3>1
    <3> QED BY <1>2, <2>1, <3>2
  <2>2. CASE i = 0
    BY <1>2, <1>3, <1>5, <2>2
  <2>3. CASE i # k /\ i # 0
    <3>1. i \in 0..(k - 1) /\ i - 1 \in 0..k /\ i - 1 # k
      BY <1>3, <2>3
    <3> QED BY <1>5, <2>3, <3>1
  <2> QED BY <2>1, <2>2, <2>3
<1>7. h = [i \in 0..k |-> h[i]]
  OBVIOUS
<1> HIDE DEF h
<1>8. RunSteps(h, s, phase, n, k)
  BY <1>6, <1>7 DEF RunSteps, Pass
<1> QED BY <1>1, <1>8

LEMMA RingCyclesRun ==
    ASSUME NEW n, NEW s, Ring(s, n), NEW phase
    PROVE  \E g : /\ RingCycles(s, phase) = g[n * (n - 1)]
                  /\ g[0] = s
                  /\ \A j \in 0..(n * (n - 1) - 1) :
                        g[j + 1] = PassSlice(g[j], phase, j \div n, j % n)
<1> DEFINE last == n * (n - 1)
           g == CHOOSE f : RunSteps(f, s, phase, n, last)
<1>1. n \in Nat \ {0} /\ Len(s) = n
  BY DEF Ring
<1>2. last \in Nat
  BY <1>1
<1>3. RingCycles(s, phase) = g[last]
  BY <1>1 DEF RingCycles, RunSteps
<1> HIDE DEF last
<1>4. RunSteps(g, s, phase, n, last)
  BY <1>2, RunsExist
<1> HIDE DEF g
<1>5. \A i \in 0..last : g[i] = IF i = 0 THEN s
                         ELSE PassSlice(g[i - 1], phase, (i - 1) \div n, (i - 1) % n)
  BY <1>4 DEF RunSteps
<1>6. ASSUME NEW j \in 0..(last - 1)
      PROVE  g[j + 1] = PassSlice(g[j], phase, j \div n, j % n)
  <2>1. j + 1 \in 0..last /\ j + 1 # 0 /\ (j + 1) - 1 = j
    BY <1>2
  <2> QED BY <1>5, <2>1
<1>7. g[0] = s
  BY <1>2, <1>5
<1> QED BY <1>3, <1>6, <1>7 DEF last

LEMMA FirstPhase ==
    ASSUME NEW n, NEW s, Ring(s, n), NEW S, Disjoint(S, n), NEW w, \A k \in 0..(n - 1) : w[k] \in Nat,
           Adds(s, S, n, w, 0, 0)
    PROVE  /\ Ring(RingCycles(s, 1), n)
           /\ Adds(RingCycles(s, 1), S, n, w, n - 1, 0)
<1> DEFINE last == n * (n - 1)
<1>1. PICK g : /\ RingCycles(s, 1) = g[last]
               /\ g[0] = s
               /\ \A j \in 0..(last - 1) : g[j + 1] = PassSlice(g[j], 1, j \div n, j % n)
  BY RingCyclesRun
<1> DEFINE Good(j) == Ring(g[j], n) /\ Adds(g[j], S, n, w, j \div n, j % n)
           Bad == {j \in 0..last : ~Good(j)}
<1>2. /\ n \in Nat \ {0} /\ last \in Nat
      /\ 0 \div n = 0 /\ 0 % n = 0 /\ last \div n = n - 1 /\ last % n = 0
      /\ \A j \in 0..(last - 1) : j \div n \in 0..(n - 2)
  BY StepBounds DEF Ring
<1> HIDE DEF last
<1>3. Good(0)
  BY <1>1, <1>2
<1>4. ASSUME NEW j \in 0..(last - 1), Good(j) PROVE Good(j + 1)
  <2> DEFINE c == j \div n
             i == j % n
  <2>1. j \in Nat /\ c \in 0..(n - 2) /\ i \in 0..(n - 1)
    <3>1. j \in Nat
      BY <1>2
    <3>2. c \in 0..(n - 2)
      BY <1>2
    <3>3. i \in 0..(n - 1)
      BY <1>2, <3>1, DivMod
    <3> QED BY <3>1, <3>2, <3>3
  <2>2. (j + 1) \div n = NextCycle(n, c, i) /\ (j + 1) % n = Succ(n, i)
    BY <1>2, <2>1, NextStep DEF NextCycle
  <2>3. g[j + 1] = PassSlice(g[j], 1, c, i)
    BY <1>1
  <2>4. Ring(g[j], n) /\ Adds(g[j], S, n, w, c, i)
    BY <1>4
  <2> HIDE DEF c, i
  <2>5. Ring(g[j + 1], n) /\ Adds(g[j + 1], S, n, w, NextCycle(n, c, i), Succ(n, i))
    BY <2>1, <2>3, <2>4, AddsStep
  <2> QED BY <2>2, <2>5
<1>5. Good(last)
  <2> HIDE DEF Good
  <2> SUFFICES ASSUME Bad # {} PROVE FALSE
    BY <1>2
  <2>1. Bad \in SUBSET Nat
    BY <1>2
  <2>2. PICK m \in Bad : \A j \in Bad : m <= j
    BY <2>1, NatMinimum
  <2>3. m # 0 /\ m \in 0..last
    BY <1>3, <2>2
  <2>4. m - 1 \in 0..(last - 1) /\ m - 1 \in 0..last /\ (m - 1) + 1 = m /\ ~(m <= m - 1)
    BY <1>2, <2>3
  <2>5. Good(m - 1)
    BY <2>2, <2>4
  <2>6. Good((m - 1) + 1)
    BY <1>4, <2>4, <2>5
  <2> QED BY <2>2, <2>4, <2>6
<1> QED BY <1>1, <1>2, <1>5

LEMMA SecondPhase ==
    ASSUME NEW n, NEW s, Ring(s, n), NEW S, NEW w, Replaces(s, S, n, w, 0, 0)
    PROVE  /\ Ring(RingCycles(s, 2), n)
           /\ Replaces(RingCycles(s, 2), S, n, w, n - 1, 0)
<1> DEFINE last == n * (n - 1)
<1>1. PICK g : /\ RingCycles(s, 2) = g[last]
               /\ g[0] = s
               /\ \A j \in 0..(last - 1) : g[j + 1] = PassSlice(g[j], 2, j \div n, j % n)
  BY RingCyclesRun
<1> DEFINE Good(j) == Ring(g[j], n) /\ Replaces(g[j], S, n, w, j \div n, j % n)
           Bad == {j \in 0..last : ~Good(j)}
<1>2. /\ n \in Nat \ {0} /\ last \in Nat
      /\ 0 \div n = 0 /\ 0 % n = 0 /\ last \div n = n - 1 /\ last % n = 0
      /\ \A j \in 0..(last - 1) : j \div n \in 0..(n - 2)
  BY StepBounds DEF Ring
<1> HIDE DEF last
<1>3. Good(0)
  BY <1>1, <1>2
<1>4. ASSUME NEW j \in 0..(last - 1), Good(j) PROVE Good(j + 1)
  <2> DEFINE c == j \div n
             i == j % n
  <2>1. j \in Nat /\ c \in 0..(n - 2) /\ i \in 0..(n - 1)
    <3>1. j \in Nat
      BY <1>2
    <3>2. c \in 0..(n - 2)
      BY <1>2
    <3>3. i \in 0..(n - 1)
      BY <1>2, <3>1, DivMod
    <3> QED BY <3>1, <3>2, <3>3
  <2>2. (j + 1) \div n = NextCycle(n, c, i) /\ (j + 1) % n = Succ(n, i)
    BY <1>2, <2>1, NextStep DEF NextCycle
  <2>3. g[j + 1] = PassSlice(g[j], 2, c, i)
    BY <1>1
  <2>4. Ring(g[j], n) /\ Replaces(g[j], S, n, w, c, i)
    BY <1>4
  <2> HIDE DEF c, i
  <2>5. Ring(g[j + 1], n) /\ Replaces(g[j + 1], S, n, w, NextCycle(n, c, i), Succ(n, i))
    BY <2>1, <2>3, <2>4, ReplacesStep
  <2> QED BY <2>2, <2>5
<1>5. Good(last)
  <2> HIDE DEF Good
  <2> SUFFICES ASSUME Bad # {} PROVE FALSE
    BY <1>2
  <2>1. Bad \in SUBSET Nat
    BY <1>2
  <2>2. PICK m \in Bad : \A j \in Bad : m <= j
    BY <2>1, NatMinimum
  <2>3. m # 0 /\ m \in 0..last
    BY <1>3, <2>2
  <2>4. m - 1 \in 0..(last - 1) /\ m - 1 \in 0..last /\ (m - 1) + 1 = m /\ ~(m <= m - 1)
    BY <1>2, <2>3
  <2>5. Good(m - 1)
    BY <2>2, <2>4
  <2>6. Good((m - 1) + 1)
    BY <1>4, <2>4, <2>5
  <2> QED BY <2>2, <2>4, <2>6
<1> QED BY <1>1, <1>2, <1>5

-----------------------------------------------------------------------------
(* Rings: the slices, and the tensors put together again.                  *)

Cut(cut, n, size) ==
    /\ cut \in [0..n -> 0..size] /\ cut[0] = 0 /\ cut[n] = size
    /\ \A i \in 1..n : cut[i - 1] <= cut[i]

LEMMA SlicesCut ==
    ASSUME NEW n \in Nat \ {0}, NEW size \in Nat, CanSlice(size, n)
    PROVE  \E cut : /\ Cut(cut, n, size)
                    /\ \A i \in 1..n : /\ SliceRanges(size, n)[i].start = cut[i - 1]
                                       /\ SliceRanges(size, n)[i].end = cut[i]
<1> DEFINE width == (size + n - 1) \div n
           cut == [k \in 0..n |-> IF k = n THEN size ELSE k * width]
<1>1. width \in Nat
  <2>1. size + n - 1 \in Nat
    OBVIOUS
  <2> QED BY <2>1, DivMod
<1>2. SliceRanges(size, n) = [i \in 1..n |-> [start |-> (i - 1) * width,
                             end |-> IF i = n THEN size ELSE i * width]]
  BY DEF SliceRanges
<1> HIDE DEF width
<1>3. ASSUME NEW i \in 1..n
      PROVE  SliceRanges(size, n)[i].start = cut[i - 1] /\ SliceRanges(size, n)[i].end = cut[i]
  <2>1. i \in 0..n /\ i - 1 \in 0..n /\ i - 1 # n
    OBVIOUS
  <2>2. SliceRanges(size, n)[i].start = (i - 1) * width
        /\ SliceRanges(size, n)[i].end = IF i = n THEN size ELSE i * width
    BY <1>2
  <2> QED BY <2>1, <2>2
<1>4. cut[0] = 0 /\ cut[n] = size /\ 0 \in 0..n
  BY <1>1
<1>5. DOMAIN cut = 0..n /\ cut = [k \in 0..n |-> cut[k]] /\ \A k \in 0..n : cut[k] \in Nat
  BY <1>1
<1> HIDE DEF cut
<1>6. \A i \in 1..n : cut[i - 1] <= cut[i] /\ cut[i] <= size
  BY <1>3 DEF CanSlice
<1>7. \A k \in 0..n : cut[k] \in 0..size
  <2> TAKE k \in 0..n
  <2>1. CASE k = 0
    BY <1>4, <2>1
  <2>2. CASE k # 0
    <3>1. k \in 1..n
      BY <2>2
    <3>2. cut[k] \in Nat /\ cut[k] <= size
      BY <1>5, <1>6, <3>1
    <3> QED BY <3>2
  <2> QED BY <2>1, <2>2
<1>8. cut \in [0..n -> 0..size]
  BY <1>5, <1>7
<1> QED BY <1>3, <1>4, <1>6, <1>8 DEF Cut

LEMMA SliceOf ==
    ASSUME NEW S, NEW size \in Nat, NEW a \in 0..size, NEW b \in 0..size, a <= b
    PROVE  SubSeq(Of(S, size), a + 1, b) = Of(S, b - a)
<1>1. SubSeq(Of(S, size), a + 1, b) = [i \in 1..(b - (a + 1) + 1) |-> Of(S, size)[(a + 1) + i - 1]]
  OBVIOUS
<1>2. b - (a + 1) + 1 = b - a
  OBVIOUS
<1>3. \A i \in 1..(b - a) : (a + 1) + i - 1 \in 1..size
  OBVIOUS
<1> QED BY <1>1, <1>2, <1>3 DEF Of

LEMMA JoinOf ==
    ASSUME NEW A, NEW a \in Nat, NEW b \in Nat
    PROVE  Of(A, a) \o Of(A, b) = Of(A, a + b)
<1> DEFINE T == {SetToBag(A)}
           x == Of(A, a)
           y == Of(A, b)
           z == x \o y
<1>1. Len(x) = a /\ x \in Seq(T) /\ Len(y) = b /\ y \in Seq(T)
  BY DEF Of
<1> HIDE DEF T, x, y
<1>2. /\ z \in Seq(T) /\ Len(z) = Len(x) + Len(y)
      /\ \A i \in 1..(Len(x) + Len(y)) : z[i] = IF i <= Len(x) THEN x[i] ELSE y[i - Len(x)]
  BY <1>1, ConcatProperties
<1> HIDE DEF z
<1>3. \A i \in 1..(a + b) : IF i <= a THEN i \in 1..a ELSE i - a \in 1..b
  OBVIOUS
<1>4. \A i \in 1..(a + b) : z[i] = SetToBag(A)
  BY <1>1, <1>2, <1>3 DEF Of, x, y
<1>5. z = [i \in 1..(a + b) |-> z[i]]
  BY <1>1, <1>2
<1> QED BY <1>4, <1>5 DEF Of, x, y, z

FlattenSteps(g, q) == g = [i \in 1..Len(q) |-> IF i = 1 THEN q[i] ELSE g[i - 1] \o q[i]]

LEMMA FlattenOf ==
    ASSUME NEW n \in Nat \ {0}, NEW size \in Nat, NEW cut, Cut(cut, n, size), NEW A, NEW q,
           Len(q) = n, \A i \in 1..n : q[i] = Of(A, cut[i] - cut[i - 1])
    PROVE  FlattenSeq(q) = Of(A, size)
<1>1. \A k \in 0..n : cut[k] \in Nat
  BY DEF Cut
<1>2. q[1] = Of(A, cut[1])
  <2>1. 1 \in 1..n /\ 1 - 1 = 0 /\ cut[0] = 0 /\ cut[1] \in Nat
    BY <1>1 DEF Cut
  <2>2. q[1] = Of(A, cut[1] - cut[0])
    BY <2>1
  <2> QED BY <2>1, <2>2
<1>3. ASSUME NEW i \in 2..n PROVE Of(A, cut[i - 1]) \o q[i] = Of(A, cut[i])
  <2>1. /\ cut[i - 1] \in Nat /\ cut[i] - cut[i - 1] \in Nat /\ i \in 1..n
        /\ cut[i - 1] + (cut[i] - cut[i - 1]) = cut[i]
    BY <1>1 DEF Cut
  <2> DEFINE a == cut[i - 1]
             b == cut[i] - cut[i - 1]
  <2>2. q[i] = Of(A, b) /\ a + b = cut[i] /\ a \in Nat /\ b \in Nat
    BY <2>1
  <2> HIDE DEF b
  <2>3. Of(A, a) \o Of(A, b) = Of(A, a + b)
    BY <2>2, JoinOf
  <2> QED BY <2>2, <2>3
<1>4. \E g : FlattenSteps(g, q)
  <2> DEFINE g == [i \in 1..n |-> Of(A, cut[i])]
  <2>1. \A i \in 1..n : g[i] = IF i = 1 THEN q[i] ELSE g[i - 1] \o q[i]
    <3> SUFFICES ASSUME NEW i \in 1..n
                 PROVE  g[i] = IF i = 1 THEN q[i] ELSE g[i - 1] \o q[i]
      OBVIOUS
    <3>1. CASE i = 1
      BY <3>1, <1>2
    <3>2. CASE i # 1
      <4>1. i \in 2..n /\ i - 1 \in 1..n
        BY <3>2
      <4> QED BY <4>1, <3>2, <1>3
    <3> QED BY <3>1, <3>2
  <2>2. g = [i \in 1..n |-> g[i]]
    OBVIOUS
  <2> HIDE DEF g
  <2>3. g = [i \in 1..n |-> IF i = 1 THEN q[i] ELSE g[i - 1] \o q[i]]
    BY <2>1, <2>2
  <2>4. FlattenSteps(g, q)
    BY <2>3, Zenon DEF FlattenSteps
  <2> QED BY <2>4
<1>5. ASSUME NEW g, FlattenSteps(g, q), NEW i \in 1..n, g[i] # Of(A, cut[i])
      PROVE  FALSE
  <2> DEFINE Bad == {j \in 1..n : g[j] # Of(A, cut[j])}
  <2>1. \A j \in 1..n : g[j] = IF j = 1 THEN q[j] ELSE g[j - 1] \o q[j]
    BY <1>5 DEF FlattenSteps
  <2>2. Bad \in SUBSET Nat /\ Bad # {}
    BY <1>5
  <2>3. PICK m \in Bad : \A j \in Bad : m <= j
    BY <2>2, NatMinimum
  <2>4. m # 1
    BY <2>1, <1>2
  <2>5. m \in 2..n /\ m - 1 \in 1..n
    BY <2>4
  <2>6. m - 1 \notin Bad
    BY <2>3, <2>5
  <2>7. g[m - 1] = Of(A, cut[m - 1])
    BY <2>5, <2>6
  <2> QED BY <2>1, <2>4, <2>5, <2>7, <1>3
<1>6. FlattenSeq(q) = (CHOOSE g : FlattenSteps(g, q))[n]
  BY DEF FlattenSeq, FlattenSteps
<1>7. FlattenSteps(CHOOSE g : FlattenSteps(g, q), q)
  BY <1>4
<1>8. n \in 1..n /\ cut[n] = size
  BY DEF Cut
<1> QED BY <1>5, <1>6, <1>7, <1>8

LEMMA SlicesAre ==
    ASSUME NEW n \in Nat \ {0}, NEW size \in Nat, NEW S, NEW t, Parts(t, S, size),
           Len(t) = n, DOMAIN t = 1..n,
           NEW cut, Cut(cut, n, size),
           \A i \in 1..n : /\ SliceRanges(size, n)[i].start = cut[i - 1]
                           /\ SliceRanges(size, n)[i].end = cut[i]
    PROVE  /\ Ring(SliceTensors(t), n)
           /\ \A d, k \in 0..(n - 1) :
                 SliceTensors(t)[d + 1][k + 1] = Of(S[d + 1], cut[k + 1] - cut[k])
<1> DEFINE s == SliceTensors(t)
           Piece(d, i) == SubSeq(t[d], SliceRanges(Len(t[d]), n)[i].start + 1,
                                 SliceRanges(Len(t[d]), n)[i].end)
<1>1. s = [d \in 1..n |-> [i \in 1..n |-> Piece(d, i)]]
  BY DEF SliceTensors
<1>2. ASSUME NEW d \in 1..n, NEW i \in 1..n PROVE Piece(d, i) = Of(S[d], cut[i] - cut[i - 1])
  <2>1. t[d] = Of(S[d], size)
    BY <1>2 DEF Parts
  <2>2. Len(t[d]) = size
    BY <2>1 DEF Of
  <2>3. i - 1 \in 0..n /\ i \in 0..n
    OBVIOUS
  <2>4. cut[i - 1] \in 0..size /\ cut[i] \in 0..size /\ cut[i - 1] <= cut[i]
    BY <2>3 DEF Cut
  <2>5. Piece(d, i) = SubSeq(Of(S[d], size), cut[i - 1] + 1, cut[i])
    BY <2>1, <2>2
  <2> HIDE DEF Piece
  <2> QED BY <2>4, <2>5, SliceOf
<1> HIDE DEF Piece, s
<1>3. DOMAIN s = 1..n /\ \A d \in 1..n : DOMAIN s[d] = 1..n
  BY <1>1
<1>4. Len(s) = n
  BY <1>1
<1>5. ASSUME NEW d \in 0..(n - 1), NEW k \in 0..(n - 1)
      PROVE  s[d + 1][k + 1] = Of(S[d + 1], cut[k + 1] - cut[k])
  <2>1. d + 1 \in 1..n /\ k + 1 \in 1..n /\ (k + 1) - 1 = k
    OBVIOUS
  <2> QED BY <1>1, <1>2, <2>1
<1> QED BY <1>3, <1>4, <1>5 DEF Ring, s

LEMMA AllIsUnion ==
    ASSUME NEW n \in Nat \ {0}, NEW S
    PROVE  All(S, n) = FirstSets(S, n)
<1>1. \A x \in 0..(n - 1) : x + 1 \in 1..n
  OBVIOUS
<1>2. \A j \in 1..n : j - 1 \in 0..(n - 1) /\ (j - 1) + 1 = j
  OBVIOUS
<1>3. ASSUME NEW e PROVE (\E x \in 0..(n - 1) : e \in S[x + 1]) <=> \E j \in 1..n : e \in S[j]
  <2>1. ASSUME NEW j \in 1..n, e \in S[j] PROVE \E x \in 0..(n - 1) : e \in S[x + 1]
    BY <1>2, <2>1
  <2> QED BY <1>1, <2>1
<1>4. ASSUME NEW e PROVE e \in All(S, n) <=> \E x \in 0..(n - 1) : e \in S[x + 1]
  BY DEF All
<1>5. ASSUME NEW e PROVE e \in FirstSets(S, n) <=> \E j \in 1..n : e \in S[j]
  BY DEF FirstSets
<1> QED BY <1>3, <1>4, <1>5

LEMMA RingOf ==
    ASSUME NEW n \in Nat \ {0}, NEW size \in Nat, NEW S, NEW t, Parts(t, S, size),
           Len(t) = n, DOMAIN t = 1..n, CanSlice(size, n), NEW i \in 1..n
    PROVE  LET sliced == RingCycles(RingCycles(SliceTensors(t), 1), 2)
           IN  i \in DOMAIN sliced /\ FlattenSeq(sliced[i]) = Of(FirstSets(S, n), size)
<1>1. PICK cut : /\ Cut(cut, n, size)
                 /\ \A j \in 1..n : /\ SliceRanges(size, n)[j].start = cut[j - 1]
                                    /\ SliceRanges(size, n)[j].end = cut[j]
  BY SlicesCut
<1> DEFINE s == SliceTensors(t)
           w == [k \in 0..(n - 1) |-> cut[k + 1] - cut[k]]
           s1 == RingCycles(s, 1)
           s2 == RingCycles(s1, 2)
<1>2. /\ Ring(s, n)
      /\ \A d, k \in 0..(n - 1) : s[d + 1][k + 1] = Of(S[d + 1], cut[k + 1] - cut[k])
  <2>1. Cut(cut, n, size)
    BY <1>1
  <2>2. \A j \in 1..n : /\ SliceRanges(size, n)[j].start = cut[j - 1]
                       /\ SliceRanges(size, n)[j].end = cut[j]
    BY <1>1
  <2>3. /\ Ring(SliceTensors(t), n)
        /\ \A d, k \in 0..(n - 1) :
              SliceTensors(t)[d + 1][k + 1] = Of(S[d + 1], cut[k + 1] - cut[k])
    <3> HIDE DEF w, s, s1, s2
    <3> QED BY ONLY Parts(t, S, size), Len(t) = n, DOMAIN t = 1..n, n \in Nat \ {0},
                    size \in Nat, <2>1, <2>2, SlicesAre
  <2> QED BY <2>3
<1>3. \A k \in 0..(n - 1) : w[k] \in Nat /\ w[k] = cut[k + 1] - cut[k]
  <2> TAKE k \in 0..(n - 1)
  <2>1. k \in 0..n /\ k + 1 \in 0..n /\ k + 1 \in 1..n /\ (k + 1) - 1 = k
    OBVIOUS
  <2>2. cut[k] \in Nat /\ cut[k + 1] \in Nat /\ cut[k] <= cut[k + 1]
    BY <1>1, <2>1 DEF Cut
  <2> QED BY <2>2
<1> HIDE DEF w, s, s1, s2
<1>4. Disjoint(S, n)
  <2>1. \A a \in 0..(n - 1) : a + 1 \in 1..n
    OBVIOUS
  <2>2. \A a, b \in 0..(n - 1) : a # b => a + 1 # b + 1
    OBVIOUS
  <2> QED BY <2>1, <2>2 DEF Parts, Disjoint
<1>5. Adds(s, S, n, w, 0, 0)
  <2>1. ASSUME NEW d \in 0..(n - 1), NEW k \in 0..(n - 1) PROVE ~Added(n, 0, 0, d, k)
    <3>1. Prev(n, d) \in Nat /\ Behind(n, d, k) \in Nat
      BY BehindFacts
    <3> QED BY <3>1 DEF Added
  <2> QED BY <1>2, <1>3, <2>1 DEF Adds
<1>6. Ring(s1, n) /\ Adds(s1, S, n, w, n - 1, 0)
  BY <1>2, <1>3, <1>4, <1>5, FirstPhase DEF s1
<1>7. Replaces(s1, S, n, w, 0, 0)
  <2>1. ASSUME NEW d \in 0..(n - 1), NEW k \in 0..(n - 1)
        PROVE  s1[d + 1][k + 1] =
                  Of(IF Replaced(n, 0, 0, d, k) THEN All(S, n) ELSE Arc(S, n, k, d), w[k])
    <3>1. /\ Behind(n, d, k) \in 0..(n - 1) /\ Prev(n, d) \in 0..(n - 1)
          /\ Behind(n, d, k) = 0 <=> d = k
      BY BehindFacts
    <3>2. Added(n, n - 1, 0, d, k) <=> Behind(n, d, k) > 0
      BY <3>1 DEF Added
    <3>3. Replaced(n, 0, 0, d, k) <=> Behind(n, d, k) = n - 1
      BY <3>1 DEF Replaced
    <3>4. s1[d + 1][k + 1] =
             Of(IF Added(n, n - 1, 0, d, k) THEN Arc(S, n, k, d) ELSE S[d + 1], w[k])
      BY <1>6 DEF Adds
    <3>5. s1[d + 1][k + 1] = Of(Arc(S, n, k, d), w[k])
      <4>1. CASE Behind(n, d, k) = 0
        <5>1. d = k /\ ~Added(n, n - 1, 0, d, k)
          BY <3>1, <3>2, <4>1
        <5>2. Arc(S, n, k, d) = S[d + 1]
          BY <1>4, <5>1, ArcFacts
        <5> QED BY <3>4, <5>1, <5>2
      <4>2. CASE Behind(n, d, k) # 0
        BY <3>1, <3>2, <3>4, <4>2
      <4> QED BY <4>1, <4>2
    <3>6. Behind(n, d, k) = n - 1 => Arc(S, n, k, d) = All(S, n)
      BY <1>4, ArcFacts
    <3> QED BY <3>3, <3>5, <3>6
  <2> QED BY <2>1 DEF Replaces
<1>8. Ring(s2, n) /\ Replaces(s2, S, n, w, n - 1, 0)
  BY <1>6, <1>7, SecondPhase DEF s2
<1>9. ASSUME NEW k \in 1..n PROVE s2[i][k] = Of(All(S, n), cut[k] - cut[k - 1])
  <2>1. i - 1 \in 0..(n - 1) /\ (i - 1) + 1 = i /\ k - 1 \in 0..(n - 1) /\ (k - 1) + 1 = k
    OBVIOUS
  <2>2. Behind(n, i - 1, k - 1) \in 0..(n - 1)
    BY <2>1, BehindFacts
  <2>3. Replaced(n, n - 1, 0, i - 1, k - 1)
    BY <2>2 DEF Replaced
  <2>4. s2[(i - 1) + 1][(k - 1) + 1] = Of(All(S, n), w[k - 1])
    BY <1>8, <2>1, <2>3 DEF Replaces
  <2> QED BY <1>3, <2>1, <2>4
<1>10. i \in DOMAIN s2 /\ DOMAIN s2[i] = 1..n
  BY <1>8 DEF Ring
<1>11. Len(s2[i]) = n
  BY <1>10
<1>12. FlattenSeq(s2[i]) = Of(All(S, n), size)
  <2> DEFINE q == s2[i]
             A == All(S, n)
  <2>1. Cut(cut, n, size) /\ Len(q) = n /\ \A k \in 1..n : q[k] = Of(A, cut[k] - cut[k - 1])
    BY <1>1, <1>9, <1>11
  <2> HIDE DEF q, A
  <2>2. FlattenSeq(q) = Of(A, size)
    BY <2>1, FlattenOf
  <2> QED BY <2>2 DEF q, A
<1> QED BY <1>10, <1>12, AllIsUnion DEF s, s1, s2

-----------------------------------------------------------------------------
(* all_reduce_local_only (local/all_reduce/base.rs): with each strategy,    *)
(* whatever the number of devices, and for a ring whatever the slices, if  *)
(* the tensors can be cut in them, every device gets in every element the  *)
(* inputs of all devices, each once.                                       *)
THEOREM AllDevicesGetTheSum ==
    ASSUME NEW size \in Nat, NEW S, NEW tensors, Parts(tensors, S, size),
           DOMAIN tensors = 1..Len(tensors),
           NEW strategy \in {"ring", "tree", "centralized"},
           strategy = "ring" => CanCut(tensors), NEW i \in 1..Len(tensors)
    PROVE  AllReduceSum(strategy, tensors)[i] = Of(FirstSets(S, Len(tensors)), size)
<1> DEFINE n == Len(tensors)
<1>1. n \in Nat \ {0} /\ 1 \in 1..n
  BY DEF Parts
<1>2. TreeSum(tensors, 2) = Of(FirstSets(S, n), size)
  BY TreeSumOf
<1>3. AllReduceTree(tensors, 2)[i] = Of(FirstSets(S, n), size)
  BY <1>2 DEF AllReduceTree
<1>4. CASE strategy = "ring"
  <2>1. AllReduceSum(strategy, tensors) = AllReduceRing(tensors)
    BY <1>4 DEF AllReduceSum
  <2>2. Len(Head(tensors)) = size
    <3>1. Head(tensors) = Of(S[1], size)
      BY <1>1 DEF Parts
    <3> QED BY <3>1 DEF Of
  <2>3. CASE size < n
    BY <1>3, <2>1, <2>2, <2>3 DEF AllReduceRing
  <2>4. CASE ~(size < n)
    <3> DEFINE sliced == RingCycles(RingCycles(SliceTensors(tensors), 1), 2)
    <3>1. CanSlice(size, n)
      BY <1>4, <2>2, <2>4 DEF CanCut
    <3>2. i \in DOMAIN sliced /\ FlattenSeq(sliced[i]) = Of(FirstSets(S, n), size)
      BY <1>1, <3>1, RingOf
    <3>3. AllReduceRing(tensors) = [t \in DOMAIN sliced |-> FlattenSeq(sliced[t])]
      BY <2>2, <2>4 DEF AllReduceRing
    <3> HIDE DEF sliced
    <3> QED BY <2>1, <3>2, <3>3
  <2> QED BY <2>3, <2>4
<1>5. CASE strategy = "tree"
  BY <1>3, <1>5 DEF AllReduceSum
<1>6. CASE strategy = "centralized"
  BY <1>6, SumOf DEF AllReduceSum, AllReduceCentralized
<1> QED BY <1>4, <1>5, <1>6
=============================================================================
