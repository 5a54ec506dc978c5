-------------------------- MODULE GlobalTree_proofs --------------------------
(***************************************************************************)
(* Proofs about the transfers of GlobalAllReduce in a tree, of any arity   *)
(* and any number of nodes; a centralized all-reduce is the tree of one    *)
(* level.  With what GlobalRing_proofs shows of the ring, the sums are     *)
(* complete whatever the strategy.                                         *)
(***************************************************************************)
EXTENDS GlobalRing_proofs, WellFoundedInduction

-----------------------------------------------------------------------------
(* The tree.                                                               *)

C(n) == Children(strategy, n)

(* A set of nodes with all children of its members. *)
Closed(S) == \A p \in S : C(p) \subseteq S

(* A node and all below it. *)
Sub(n) == {m \in Nodes : \A S \in SUBSET Nodes : n \in S /\ Closed(S) => m \in S}

LEMMA TimesIs ==
    ASSUME NEW x \in Nat, NEW y \in Nat, NEW a \in Nat \ {0}
    PROVE  /\ x * a \in Nat /\ x * a >= x
           /\ x < y => x * a + a <= y * a
<1>1. x * a \in Nat /\ x * a >= x
  BY SMT
<1>2. x < y => x * a + a <= y * a
  BY SMT
<1> QED BY <1>1, <1>2

LEMMA GroupIs ==
    ASSUME NEW c \in Nat, c > 0, NEW a \in Nat \ {0}
    PROVE  \E p \in Nat : p * a < c /\ c <= p * a + a
<1> DEFINE p == (c - 1) \div a
<1>1. p \in Nat /\ a * p + ((c - 1) % a) = c - 1 /\ (c - 1) % a \in 0 .. (a - 1)
  BY Z3
<1>2. a * p = p * a
  BY <1>1
<1> HIDE DEF p
<1>3. p * a \in Nat
  BY <1>1
<1>4. p * a < c /\ c <= p * a + a
  BY <1>1, <1>2, <1>3
<1> QED BY <1>1, <1>4

(* Children come after their parent, ... *)
LEMMA ChildIs ==
    ASSUME NEW n \in Nodes, NEW c \in C(n)
    PROVE  c \in Nodes /\ c \in Nat /\ n \in Nat /\ n < c
<1>1. c \in Nodes /\ c \in Nat /\ n \in Nat
  BY DEF C, Children, Nodes
<1>2. CASE strategy = "tree"
  <2>1. n * Arity < c
    BY <1>2 DEF C, Children
  <2>2. n * Arity \in Nat /\ n * Arity >= n
    BY <1>1, TimesIs, TopologyAssumption
  <2> QED BY <1>1, <2>1, <2>2
<1>3. CASE strategy # "tree"
  BY <1>1, <1>3 DEF C, Children, Central, Nodes
<1> QED BY <1>1, <1>2, <1>3

(* ... have only one, ... *)
LEMMA OneParent ==
    ASSUME NEW p \in Nodes, NEW q \in Nodes, NEW c \in C(p), c \in C(q)
    PROVE  p = q
<1>1. c \in Nat /\ p \in Nat /\ q \in Nat
  BY DEF C, Children, Nodes
<1>2. CASE strategy = "tree"
  <2>1. /\ p * Arity < c /\ c <= p * Arity + Arity
        /\ q * Arity < c /\ c <= q * Arity + Arity
    BY <1>2 DEF C, Children
  <2>2. /\ p * Arity \in Nat /\ q * Arity \in Nat
        /\ p < q => p * Arity + Arity <= q * Arity
        /\ q < p => q * Arity + Arity <= p * Arity
    BY <1>1, TimesIs, TopologyAssumption
  <2>3. ~(p < q) /\ ~(q < p)
    BY <1>1, <2>1, <2>2, TopologyAssumption
  <2> QED BY <1>1, <2>3
<1>3. CASE strategy # "tree"
  BY <1>3 DEF C, Children
<1> QED BY <1>2, <1>3

(* ... and all nodes but the first are children. *)
LEMMA ParentExists ==
    ASSUME NEW c \in Nodes, c # 0, strategy # "ring"
    PROVE  \E p \in Nodes : c \in C(p)
<1>1. c \in Nat /\ c > 0 /\ c < N /\ N \in Nat
  BY TopologyAssumption DEF Nodes
<1>2. CASE strategy = "tree"
  <2>0. Arity \in Nat \ {0}
    BY TopologyAssumption
  <2>1. PICK p \in Nat : p * Arity < c /\ c <= p * Arity + Arity
    BY <1>1, <2>0, GroupIs
  <2>2. p * Arity \in Nat /\ p * Arity >= p
    BY <2>0, TimesIs
  <2>3. p \in Nodes
    BY <1>1, <2>1, <2>2 DEF Nodes
  <2> QED BY <1>2, <2>1, <2>3 DEF C, Children
<1>3. CASE strategy # "tree"
  <2>1. Central \in Nodes /\ c \in C(Central)
    BY <1>3, NodesFinite DEF C, Children, Central
  <2> QED BY <2>1
<1> QED BY <1>2, <1>3

(* A non-empty set of nodes has a least one. *)
LEMMA LeastNode ==
    ASSUME NEW S \in SUBSET Nat, S # {}
    PROVE  \E m \in S : \A n \in S : m <= n
<1> DEFINE R == {ss \in Nat \X Nat : ss[1] < ss[2]}
<1>1. IsWellFoundedOn(R, Nat)
  <2>1. OpToRel(<, Nat) = R
    BY DEF OpToRel
  <2> QED BY <2>1, NatLessThanWellFounded
<1>2. \A a, b \in Nat : a < b => <<a, b>> \in R
  OBVIOUS
<1> HIDE DEF R
<1>3. PICK m \in S : \A n \in S : ~(<<n, m>> \in R)
  BY <1>1, WFMin
<1>4. ASSUME NEW n \in S PROVE m <= n
  <2>1. n \in Nat /\ m \in Nat /\ ~(n < m)
    BY <1>2, <1>3
  <2> QED BY <2>1
<1> QED BY <1>4

(* The subtree of a node is the least closed set with the node. *)
LEMMA SubIs ==
    ASSUME NEW n \in Nodes
    PROVE  /\ n \in Sub(n) /\ Sub(n) \subseteq Nodes /\ Closed(Sub(n))
           /\ \A S \in SUBSET Nodes : n \in S /\ Closed(S) => Sub(n) \subseteq S
<1>1. ASSUME NEW p \in Sub(n), NEW c \in C(p) PROVE c \in Sub(n)
  <2>1. p \in Nodes
    BY DEF Sub
  <2>2. c \in Nodes
    BY <2>1, ChildIs
  <2> QED BY <2>2 DEF Sub, Closed
<1> QED BY <1>1 DEF Sub, Closed

LEMMA SubAbove ==
    ASSUME NEW n \in Nodes, NEW m \in Sub(n)
    PROVE  m \in Nat /\ m >= n
<1> DEFINE S == {x \in Nodes : x >= n}
<1>0. Nodes \subseteq Nat
  BY NodesFinite
<1>1. Closed(S)
  <2> SUFFICES ASSUME NEW p \in S, NEW c \in C(p) PROVE c \in S
    BY DEF Closed
  <2>1. c \in Nodes /\ c \in Nat /\ p \in Nat /\ p < c
    BY ChildIs
  <2> QED BY <1>0, <2>1
<1>2. n \in S /\ S \in SUBSET Nodes
  BY <1>0
<1> HIDE DEF S
<1>3. m \in S
  BY <1>1, <1>2, SubIs
<1> USE DEF S
<1> QED BY <1>0, <1>3

(* Who is below a node is it or has its parent there. *)
LEMMA ParentInSub ==
    ASSUME NEW n \in Nodes, NEW m \in Sub(n), m # n, NEW p \in Nodes, m \in C(p)
    PROVE  p \in Sub(n)
<1> DEFINE S == {n} \cup {x \in Sub(n) : \E q \in Sub(n) : x \in C(q)}
<1>1. Closed(S)
  <2> SUFFICES ASSUME NEW q \in S, NEW c \in C(q) PROVE c \in S
    BY DEF Closed
  <2>1. q \in Sub(n)
    BY SubIs
  <2>2. c \in Sub(n)
    BY <2>1, SubIs DEF Closed
  <2> QED BY <2>1, <2>2
<1>2. n \in S /\ S \in SUBSET Nodes
  BY SubIs
<1> HIDE DEF S
<1>3. m \in S
  BY <1>1, <1>2, SubIs
<1> USE DEF S
<1>4. PICK q \in Sub(n) : m \in C(q)
  BY <1>3
<1>5. q = p
  <2>1. q \in Nodes
    BY SubIs
  <2> QED BY <1>4, <2>1, OneParent
<1> QED BY <1>4, <1>5

(* The subtrees of the children of a node are apart, and not its own; with *)
(* the node they make up its subtree.                                      *)
LEMMA ChildSub ==
    ASSUME NEW n \in Nodes, NEW c \in C(n)
    PROVE  /\ n \notin Sub(c)
           /\ \A d \in C(n) \ {c} : Sub(c) \cap Sub(d) = {}
<1>0. ASSUME NEW d \in C(n) PROVE d \in Nodes /\ n \notin Sub(d)
  <2>1. d \in Nodes /\ d \in Nat /\ n \in Nat /\ n < d
    BY ChildIs
  <2>2. ~(n >= d)
    BY <2>1
  <2> QED BY <2>1, <2>2, SubAbove
<1>1. ASSUME NEW d \in C(n) \ {c} PROVE Sub(c) \cap Sub(d) = {}
  <2> DEFINE S == {x \in Sub(c) : x \notin Sub(d)}
  <2>0. c \in Nodes /\ d \in Nodes /\ n \notin Sub(c) /\ n \notin Sub(d)
    BY <1>0
  <2>1. c \in S
    <3>1. c \notin Sub(d)
      BY <2>0, ParentInSub
    <3> QED BY <2>0, <3>1, SubIs
  <2>2. Closed(S)
    <3> SUFFICES ASSUME NEW p \in S, NEW x \in C(p), x \in Sub(d) PROVE FALSE
      <4>1. \A p \in S : C(p) \subseteq Sub(c)
        BY <2>0, SubIs DEF Closed
      <4> QED BY <4>1 DEF Closed
    <3>1. p \in Nodes /\ p \in Sub(c) /\ p \notin Sub(d)
      BY <2>0, SubIs
    <3>2. x # d
      BY <2>0, <3>1, OneParent
    <3> QED BY <2>0, <3>1, <3>2, ParentInSub
  <2>3. S \in SUBSET Nodes
    BY <2>0, SubIs
  <2> HIDE DEF S
  <2>4. Sub(c) \subseteq S
    BY <2>0, <2>1, <2>2, <2>3, SubIs
  <2> USE DEF S
  <2> QED BY <2>4
<1> QED BY <1>0, <1>1

LEMMA SubParts ==
    ASSUME NEW n \in Nodes
    PROVE  Sub(n) = {n} \cup UNION {Sub(c) : c \in C(n)}
<1> DEFINE S == {n} \cup UNION {Sub(c) : c \in C(n)}
<1>1. \A c \in C(n) : c \in Nodes /\ c \in Sub(c) /\ Sub(c) \subseteq Nodes /\ Closed(Sub(c))
  BY ChildIs, SubIs
<1>2. Closed(S)
  <2> SUFFICES ASSUME NEW p \in S, NEW x \in C(p) PROVE x \in S
    BY DEF Closed
  <2>1. CASE p = n
    BY <1>1, <2>1
  <2>2. CASE p # n
    <3>1. PICK c \in C(n) : p \in Sub(c)
      BY <2>2
    <3>2. x \in Sub(c)
      BY <1>1, <3>1 DEF Closed
    <3> QED BY <3>1, <3>2
  <2> QED BY <2>1, <2>2
<1>3. n \in S /\ S \in SUBSET Nodes
  BY <1>1
<1>4. S \subseteq Sub(n)
  <2> SUFFICES ASSUME NEW c \in C(n) PROVE Sub(c) \subseteq Sub(n)
    BY SubIs
  <2>1. c \in Sub(n) /\ Sub(n) \in SUBSET Nodes /\ Closed(Sub(n))
    BY SubIs DEF Closed
  <2> QED BY <1>1, <2>1, SubIs
<1> HIDE DEF S
<1>5. Sub(n) \subseteq S
  BY <1>2, <1>3, SubIs
<1> USE DEF S
<1> QED BY <1>4, <1>5

(* All nodes are below the first. *)
LEMMA RootSub ==
    ASSUME strategy # "ring", NEW n \in Nodes, \A p \in Nodes : n \notin C(p)
    PROVE  Sub(n) = Nodes
<1>1. n = 0
  BY ParentExists
<1> DEFINE S == Nodes \ Sub(n)
<1>2. ASSUME S # {} PROVE FALSE
  <2>1. PICK m \in S : \A x \in S : m <= x
    BY <1>2, LeastNode, NodesFinite
  <2>2. m \in Nodes /\ m # 0
    BY <1>1, SubIs
  <2>3. PICK p \in Nodes : m \in C(p)
    BY <2>2, ParentExists
  <2>4. p \in Nat /\ m \in Nat /\ p < m
    BY <2>3, ChildIs
  <2>5. p \in Sub(n)
    BY <2>1, <2>4
  <2> QED BY <2>3, <2>5, SubIs DEF Closed
<1> QED BY <1>2, SubIs

-----------------------------------------------------------------------------
(* The invariant.                                                          *)

(* How far nodes are in the tree all-reduce they are in: node p has the    *)
(* tensor of child c, a node has exposed its sum, node c has the result of *)
(* parent p, a node has exposed the result; ...                            *)
Gathered(p, c) ==
    \/ pc[p] \in {"offer", "receive", "give", "given", "sync", "barrier"}
    \/ pc[p] = "gather" /\ request[p][c].phase \in {"none", "reply"}

Offered(n) ==
    \/ pc[n] \in {"receive", "give", "given", "sync", "barrier"}
    \/ pc[n] = "offer" /\ upload[n].phase # "insert"

Informed(c, p) ==
    \/ pc[c] \in {"give", "given", "sync", "barrier"}
    \/ pc[c] = "receive" /\ request[c][p].phase = "reply"

Gave(n) ==
    \/ pc[n] \in {"sync", "barrier"}
    \/ pc[n] = "given" /\ upload[n].phase # "insert"

(* ... and that they are that far in a given all-reduce. *)
HasGathered(p, c, r) == round[p] > r \/ (round[p] = r /\ Gathered(p, c))

HasOffered(n, r) == round[n] > r \/ (round[n] = r /\ Offered(n))

HasInformed(c, p, r) == round[c] > r \/ (round[c] = r /\ Informed(c, p))

HasGiven(n, r) == round[n] > r \/ (round[n] = r /\ Gave(n))

(* What has been exposed is downloaded, and nothing else. *)
TreeOrder ==
    \A p \in Nodes : \A c \in C(p), r \in Nat :
        /\ HasGathered(p, c, r) => HasOffered(c, r)
        /\ HasInformed(c, p, r) => HasGiven(p, r)

UploadFits(n) ==
    upload[n].phase # "none" =>
        \/ /\ pc[n] = "offer" /\ (\E p \in Nodes : n \in C(p))
           /\ upload[n].id = 0 /\ upload[n].max = 1 /\ upload[n].tensor = Total(n, Sub(n))
        \/ /\ pc[n] = "given" /\ (C(n) # {} \/ N = 1)
           /\ upload[n].id = 1 /\ upload[n].max = Cardinality(C(n))
           /\ upload[n].tensor = Total(n, Nodes)

RequestFits(n, m) ==
    request[n][m].phase # "none" =>
        \/ /\ pc[n] = "gather" /\ m \in C(n)
           /\ IF request[n][m].phase = "reply"
              THEN request[n][m].tensor = Total(n, Sub(m))
              ELSE request[n][m].id = 0
        \/ /\ pc[n] = "receive" /\ n \in C(m)
           /\ IF request[n][m].phase = "reply"
              THEN request[n][m].tensor = Total(n, Nodes)
              ELSE request[n][m].id = 1

(* The nodes whose inputs are in the tensor of a node that gathers. *)
GatheredNodes(n) ==
    {n} \cup UNION {Sub(c) : c \in {d \in C(n) : request[n][d].phase = "none"}}

TensorFits(n) ==
    /\ pc[n] = "gather" => tensor[n][0] = Total(n, GatheredNodes(n))
    /\ pc[n] \in {"offer", "receive"} => tensor[n][0] = Total(n, Sub(n))
    /\ pc[n] \in {"give", "given", "sync", "barrier"} => tensor[n][0] = Total(n, Nodes)

TreeNode(n) == UploadFits(n) /\ (\A m \in Nodes : RequestFits(n, m)) /\ TensorFits(n)

(* The sum of a subtree that the parent has yet to download. *)
SumExposed(n, i) ==
    /\ i = 0
    /\ exposed[n][i] = [tensor |-> Total(n, Sub(n)), max |-> 1, count |-> 0]
    /\ HasOffered(n, round[n])
    /\ \E p \in Nodes : n \in C(p) /\ ~HasGathered(p, n, round[n])

Uninformed(n) == {c \in C(n) : ~HasInformed(c, n, round[n])}

(* The result, with a download left for each child that does not have it.  *)
ResultExposed(n, i) ==
    /\ i = 1 /\ C(n) # {}
    /\ exposed[n][i].tensor = Total(n, Nodes)
    /\ exposed[n][i].max = Cardinality(C(n))
    /\ exposed[n][i].count < exposed[n][i].max
    /\ exposed[n][i].count + Cardinality(Uninformed(n)) = exposed[n][i].max
    /\ HasGiven(n, round[n])

(* The center of a centralized all-reduce of one node exposes the result   *)
(* for nobody.                                                             *)
TreeExposed ==
    \A n \in Nodes : \A i \in DOMAIN exposed[n] :
        SumExposed(n, i) \/ ResultExposed(n, i) \/ (i = 1 /\ C(n) = {})

TreeInv == TreeOrder /\ TreeExposed /\ \A n \in Nodes : TreeNode(n)

-----------------------------------------------------------------------------
(* As the strategy stays, the tree does. *)
LEMMA TreeStays ==
    ASSUME strategy' = strategy
    PROVE  \A n : C(n)' = C(n) /\ Sub(n)' = Sub(n)
BY DEF C, Sub, Closed

(* What is exposed in one state and the next, of a node whose round stays. *)
LEMMA SumStays ==
    ASSUME strategy' = strategy, NEW n \in Nodes, NEW i, round'[n] = round[n],
           exposed'[n][i] = exposed[n][i], SumExposed(n, i),
           HasOffered(n, round[n]) => HasOffered(n, round[n])',
           \A p \in Nodes : n \in C(p) =>
               (HasGathered(p, n, round[n])' => HasGathered(p, n, round[n]))
    PROVE  SumExposed(n, i)'
<1>1. \A m : C(m)' = C(m) /\ Sub(m)' = Sub(m)
  BY TreeStays
<1> QED BY <1>1 DEF SumExposed, Total

LEMMA ResultStays ==
    ASSUME strategy' = strategy, NEW n \in Nodes, NEW i, round'[n] = round[n],
           exposed'[n][i] = exposed[n][i], ResultExposed(n, i),
           HasGiven(n, round[n]) => HasGiven(n, round[n])',
           \A c \in C(n) : HasInformed(c, n, round[n])' <=> HasInformed(c, n, round[n])
    PROVE  ResultExposed(n, i)'
<1>1. \A m : C(m)' = C(m)
  BY TreeStays
<1>2. Uninformed(n)' = Uninformed(n)
  BY <1>1 DEF Uninformed
<1> QED BY <1>1, <1>2 DEF ResultExposed, Total

LEMMA ExposedStays ==
    ASSUME strategy' = strategy, NEW n \in Nodes, NEW i, round'[n] = round[n],
           exposed'[n][i] = exposed[n][i],
           HasOffered(n, round[n]) => HasOffered(n, round[n])',
           HasGiven(n, round[n]) => HasGiven(n, round[n])',
           \A p \in Nodes : n \in C(p) =>
               (HasGathered(p, n, round[n])' => HasGathered(p, n, round[n])),
           \A c \in C(n) : HasInformed(c, n, round[n])' <=> HasInformed(c, n, round[n])
    PROVE  /\ SumExposed(n, i) => SumExposed(n, i)'
           /\ ResultExposed(n, i) => ResultExposed(n, i)'
BY SumStays, ResultStays

(* A step of a node that leaves the order as it is. *)
LEMMA TreeStep ==
    ASSUME TreeInv, NEW n \in Nodes, TreeNode(n)', UNCHANGED <<strategy, round, exposed>>,
           \A m \in Nodes \ {n} :
               /\ pc'[m] = pc[m] /\ tensor'[m] = tensor[m]
               /\ upload'[m] = upload[m] /\ request'[m] = request[m],
           \A c \in C(n) : Gathered(n, c)' <=> Gathered(n, c),
           \A p \in Nodes : n \in C(p) => (Informed(n, p)' <=> Informed(n, p)),
           Offered(n) => Offered(n)', Gave(n) => Gave(n)'
    PROVE  TreeInv'
<1>0. \A m : C(m)' = C(m) /\ Sub(m)' = Sub(m)
  BY TreeStays
<1>1. \A p \in Nodes : \A c : c \in C(p) =>
         (Gathered(p, c)' <=> Gathered(p, c)) /\ (Informed(c, p)' <=> Informed(c, p))
  <2> SUFFICES ASSUME NEW p \in Nodes, NEW c \in C(p)
               PROVE (Gathered(p, c)' <=> Gathered(p, c)) /\ (Informed(c, p)' <=> Informed(c, p))
    OBVIOUS
  <2>0. c \in Nodes
    BY ChildIs
  <2>1. Gathered(p, c)' <=> Gathered(p, c)
    <3>1. CASE p = n
      BY <3>1
    <3>2. CASE p # n
      BY <3>2 DEF Gathered
    <3> QED BY <3>1, <3>2
  <2>2. Informed(c, p)' <=> Informed(c, p)
    <3>1. CASE c = n
      BY <3>1
    <3>2. CASE c # n
      BY <2>0, <3>2 DEF Informed
    <3> QED BY <3>1, <3>2
  <2> QED BY <2>1, <2>2
<1>2. \A m \in Nodes : (Offered(m) => Offered(m)') /\ (Gave(m) => Gave(m)')
  BY DEF Offered, Gave
<1>3. \A p \in Nodes : \A c, r : c \in C(p) =>
         /\ HasGathered(p, c, r)' <=> HasGathered(p, c, r)
         /\ HasInformed(c, p, r)' <=> HasInformed(c, p, r)
  BY <1>1 DEF HasGathered, HasInformed
<1>4. \A m \in Nodes : \A r : (HasOffered(m, r) => HasOffered(m, r)') /\ (HasGiven(m, r) => HasGiven(m, r)')
  BY <1>2 DEF HasOffered, HasGiven
<1>5. TreeOrder'
  BY <1>0, <1>3, <1>4, ChildIs DEF TreeInv, TreeOrder
<1>6. TreeExposed'
  <2> SUFFICES ASSUME NEW m \in Nodes, NEW i \in DOMAIN exposed[m]
               PROVE  SumExposed(m, i)' \/ ResultExposed(m, i)' \/ (i = 1 /\ C(m)' = {})
    BY DEF TreeExposed
  <2>1. SumExposed(m, i) \/ ResultExposed(m, i) \/ (i = 1 /\ C(m) = {})
    BY DEF TreeInv, TreeExposed
  <2>2. HasOffered(m, round[m]) => HasOffered(m, round[m])'
    BY <1>2 DEF HasOffered
  <2>3. HasGiven(m, round[m]) => HasGiven(m, round[m])'
    BY <1>2 DEF HasGiven
  <2>4. \A p \in Nodes : m \in C(p) =>
            (HasGathered(p, m, round[m])' => HasGathered(p, m, round[m]))
    BY <1>1 DEF HasGathered
  <2>5. \A c \in C(m) : HasInformed(c, m, round[m])' <=> HasInformed(c, m, round[m])
    BY <1>1 DEF HasInformed
  <2>6. /\ SumExposed(m, i) => SumExposed(m, i)'
        /\ ResultExposed(m, i) => ResultExposed(m, i)'
    BY <2>2, <2>3, <2>4, <2>5, ExposedStays
  <2> QED BY <1>0, <2>1, <2>6
<1>7. ASSUME NEW m \in Nodes \ {n} PROVE TreeNode(m)'
  <2>0. TreeNode(m)
    BY DEF TreeInv
  <2>1. UploadFits(m)'
    BY <1>0, <1>7, <2>0 DEF TreeNode, UploadFits, Total
  <2>2. \A d \in Nodes : RequestFits(m, d)'
    BY <1>0, <1>7, <2>0 DEF TreeNode, RequestFits, Total
  <2>3. GatheredNodes(m)' = GatheredNodes(m)
    BY <1>0, <1>7 DEF GatheredNodes
  <2>4. TensorFits(m)'
    BY <1>0, <1>7, <2>0, <2>3 DEF TreeNode, TensorFits, Total
  <2> QED BY <2>1, <2>2, <2>4 DEF TreeNode
<1> QED BY <1>5, <1>6, <1>7 DEF TreeInv

-----------------------------------------------------------------------------
(* The steps of the nodes. *)

LEMMA NoRequests ==
    ASSUME TreeInv, NEW n \in Nodes, pc[n] \notin {"gather", "receive"}
    PROVE  \A m \in Nodes : request[n][m].phase = "none"
BY DEF TreeInv, TreeNode, RequestFits

LEMMA NoUploads ==
    ASSUME TreeInv, NEW n \in Nodes, pc[n] \notin {"offer", "given"}
    PROVE  upload[n].phase = "none"
BY DEF TreeInv, TreeNode, UploadFits

(* A node that has no call of the data service open, and has the right tensor. *)
LEMMA QuietNode ==
    ASSUME NEW n \in Nodes, strategy' = strategy, upload'[n].phase = "none",
           \A m \in Nodes : request'[n][m].phase = "none", TensorFits(n)'
    PROVE  TreeNode(n)'
BY DEF TreeNode, UploadFits, RequestFits

LEMMA BeginTreeR ==
    ASSUME TInv, TreeInv, NEW n \in Nodes, BeginTree(n)
    PROVE  TreeInv'
<1>1. /\ pc[n] = "idle" /\ pc' = [pc EXCEPT ![n] = "gather"]
      /\ UNCHANGED <<strategy, round, exposed, upload>>
  BY DEF BeginTree, Goto
<1>2. /\ \A s \in Nodes : request'[n][s] = IF s \in C(n) THEN Asked(0) ELSE request[n][s]
      /\ \A m \in Nodes \ {n} : request'[m] = request[m] /\ tensor'[m] = tensor[m]
      /\ tensor'[n][0] = SumOf({<<round[n] + 1, n>>})
  BY BeginTreeT DEF C
<1>3. pc'[n] = "gather" /\ \A m \in Nodes \ {n} : pc'[m] = pc[m]
  BY <1>1 DEF TInv, NodeTypes
<1>4. \A m : C(m)' = C(m) /\ Sub(m)' = Sub(m)
  BY <1>1, TreeStays
<1>5. /\ upload'[n].phase = "none"
      /\ \A m \in Nodes : IF m \in C(n) THEN request'[n][m].phase = "check" /\ request'[n][m].id = 0
                          ELSE request'[n][m].phase = "none"
  BY <1>1, <1>2, NoUploads, NoRequests, AskedIs
<1>6. TensorFits(n)'
  <2>1. GatheredNodes(n)' = {n}
    <3>1. {d \in C(n)' : request'[n][d].phase = "none"} = {}
      BY <1>4, <1>5, ChildIs
    <3> QED BY <3>1 DEF GatheredNodes
  <2>2. {<<round[n] + 1, n>>} = {round[n] + 1} \X {n}
    OBVIOUS
  <2>3. tensor'[n][0] = Total(n, GatheredNodes(n))'
    BY <1>1, <1>2, <2>1, <2>2 DEF Total
  <2> QED BY <1>3, <2>3 DEF TensorFits
<1>7. TreeNode(n)'
  <2>1. \A m \in Nodes : RequestFits(n, m)'
    BY <1>3, <1>4, <1>5 DEF RequestFits
  <2> QED BY <1>5, <1>6, <2>1 DEF TreeNode, UploadFits
<1>8. \A c \in C(n) : Gathered(n, c)' <=> Gathered(n, c)
  BY <1>1, <1>3, <1>5, ChildIs DEF Gathered
<1>9. /\ \A p \in Nodes : Informed(n, p)' <=> Informed(n, p)
      /\ (Offered(n) => Offered(n)') /\ (Gave(n) => Gave(n)')
  BY <1>1, <1>3 DEF Informed, Offered, Gave
<1> QED BY <1>1, <1>2, <1>3, <1>7, <1>8, <1>9, TreeStep

LEMMA GatherR ==
    ASSUME TInv, TreeInv, NEW n \in Nodes, NEW c \in Nodes, Gather(n, c)
    PROVE  TreeInv'
<1>1. /\ pc[n] = "gather" /\ c \in C(n) /\ request[n][c].phase = "reply"
      /\ UNCHANGED <<strategy, pc, round, exposed, upload>>
  BY DEF Gather, C
<1>2. /\ tensor'[n][0] = Plus(tensor[n][0], request[n][c].tensor)
      /\ \A m \in Nodes \ {n} : tensor'[m] = tensor[m]
      /\ request'[n][c] = NoRequest /\ TInv'
      /\ \A d, m \in Nodes : (d # n \/ m # c) => request'[d][m] = request[d][m]
  BY GatherT
<1>3. \A m : C(m)' = C(m) /\ Sub(m)' = Sub(m)
  BY <1>1, TreeStays
<1>4. request'[n][c].phase = "none" /\ upload'[n].phase = "none"
  BY <1>1, <1>2, NoUploads, PhaseOf
<1>5. /\ request[n][c].tensor = Total(n, Sub(c))
      /\ tensor[n][0] = Total(n, GatheredNodes(n))
  <2>1. RequestFits(n, c) /\ TensorFits(n)
    BY DEF TreeInv, TreeNode
  <2> QED BY <1>1, <2>1 DEF RequestFits, TensorFits
<1>6. TensorFits(n)'
  <2> DEFINE X == GatheredNodes(n)
             Y == Sub(c)
  <2>1. X \cap Y = {}
    <3>1. n \notin Sub(c) /\ \A d \in C(n) \ {c} : Sub(c) \cap Sub(d) = {}
      BY <1>1, ChildSub
    <3> QED BY <1>1, <3>1 DEF GatheredNodes
  <2>2. GatheredNodes(n)' = X \cup Y
    <3>1. \A d \in C(n) : request'[n][d].phase = "none" <=> (request[n][d].phase = "none" \/ d = c)
      BY <1>2, <1>4, ChildIs
    <3>2. {d \in C(n)' : request'[n][d].phase = "none"} = {d \in C(n) : request[n][d].phase = "none"} \cup {c}
      BY <1>1, <1>3, <3>1
    <3> QED BY <1>3, <3>2 DEF GatheredNodes
  <2> HIDE DEF X, Y
  <2>3. Plus(Total(n, X), Total(n, Y)) = Total(n, X \cup Y)
    BY <2>1, TotalsAddUp
  <2>4. tensor'[n][0] = Total(n, X \cup Y)
    BY <1>2, <1>5, <2>3 DEF X, Y
  <2>5. tensor'[n][0] = Total(n, GatheredNodes(n))'
    BY <1>1, <2>2, <2>4 DEF Total
  <2> QED BY <1>1, <2>5 DEF TensorFits
<1>7. TreeNode(n)'
  <2>1. ASSUME NEW m \in Nodes PROVE RequestFits(n, m)'
    <3>1. CASE m = c
      BY <1>4, <3>1 DEF RequestFits
    <3>2. CASE m # c
      <4>1. RequestFits(n, m)
        BY DEF TreeInv, TreeNode
      <4> QED BY <1>1, <1>2, <1>3, <3>2, <4>1 DEF RequestFits, Total
    <3> QED BY <3>1, <3>2
  <2> QED BY <1>4, <1>6, <2>1 DEF TreeNode, UploadFits
<1>8. \A d \in C(n) : Gathered(n, d)' <=> Gathered(n, d)
  BY <1>1, <1>2, <1>4, ChildIs DEF Gathered
<1>9. /\ \A p \in Nodes : Informed(n, p)' <=> Informed(n, p)
      /\ (Offered(n) => Offered(n)') /\ (Gave(n) => Gave(n)')
  BY <1>1 DEF Informed, Offered, Gave
<1>10. \A m \in Nodes \ {n} : request'[m] = request[m]
  BY <1>2 DEF TInv, DataTypes
<1> QED BY <1>1, <1>2, <1>7, <1>8, <1>9, <1>10, TreeStep

LEMMA EndGatherR ==
    ASSUME TInv, TreeInv, NEW n \in Nodes, EndGather(n)
    PROVE  TreeInv'
<1>1. /\ pc[n] = "gather" /\ \A c \in Nodes : request[n][c].phase = "none"
      /\ UNCHANGED <<strategy, round, tensor, exposed, request>>
  BY DEF EndGather
<1>2. /\ strategy # "ring" /\ tensor[n][0] \in Slice
      /\ \/ /\ ParentsOf(strategy, n) # {} /\ Goto(n, "offer")
            /\ upload'[n] = Upload(0, tensor[n][0], 1)
            /\ \A m \in Nodes \ {n} : upload'[m] = upload[m]
         \/ ParentsOf(strategy, n) = {} /\ Goto(n, "give") /\ UNCHANGED upload
  BY EndGatherT
<1>3. \A m : C(m)' = C(m) /\ Sub(m)' = Sub(m)
  BY <1>1, TreeStays
<1>4. tensor[n][0] = Total(n, Sub(n))
  <2>1. {d \in C(n) : request[n][d].phase = "none"} = C(n)
    BY <1>1, ChildIs
  <2>2. GatheredNodes(n) = Sub(n)
    BY <2>1, SubParts DEF GatheredNodes
  <2>3. TensorFits(n)
    BY DEF TreeInv, TreeNode
  <2> QED BY <1>1, <2>2, <2>3 DEF TensorFits
<1>5. \A p \in Nodes : p \in ParentsOf(strategy, n) <=> n \in C(p)
  BY DEF ParentsOf, C
<1>6. CASE ParentsOf(strategy, n) # {}
  <2>1. /\ pc' = [pc EXCEPT ![n] = "offer"] /\ upload'[n] = Upload(0, tensor[n][0], 1)
        /\ \A m \in Nodes \ {n} : upload'[m] = upload[m]
    BY <1>2, <1>6 DEF Goto
  <2>2. pc'[n] = "offer" /\ \A m \in Nodes \ {n} : pc'[m] = pc[m]
    BY <2>1 DEF TInv, NodeTypes
  <2>3. /\ upload'[n].phase = "insert" /\ upload'[n].id = 0 /\ upload'[n].max = 1
        /\ upload'[n].tensor = tensor[n][0]
    BY <1>2, <2>1, UploadIs
  <2>4. UploadFits(n)'
    <3>1. PICK p \in Nodes : n \in C(p)
      BY <1>5, <1>6 DEF ParentsOf
    <3>2. n \in C(p)'
      BY <1>3, <3>1
    <3>3. upload'[n].tensor = Total(n, Sub(n))'
      BY <1>1, <1>3, <1>4, <2>3 DEF Total
    <3> QED BY <2>2, <2>3, <3>2, <3>3 DEF UploadFits
  <2>5. TensorFits(n)'
    BY <1>1, <1>3, <1>4, <2>2 DEF TensorFits, Total
  <2>6. TreeNode(n)'
    BY <1>1, <2>4, <2>5 DEF TreeNode, RequestFits
  <2>7. /\ \A c \in C(n) : Gathered(n, c)' <=> Gathered(n, c)
        /\ \A p \in Nodes : Informed(n, p)' <=> Informed(n, p)
        /\ (Offered(n) => Offered(n)') /\ (Gave(n) => Gave(n)')
    BY <1>1, <2>2, ChildIs DEF Gathered, Informed, Offered, Gave
  <2> QED BY <1>1, <2>1, <2>2, <2>6, <2>7, TreeStep
<1>7. CASE ParentsOf(strategy, n) = {}
  <2>1. pc' = [pc EXCEPT ![n] = "give"] /\ UNCHANGED upload
    BY <1>2, <1>7 DEF Goto
  <2>2. pc'[n] = "give" /\ \A m \in Nodes \ {n} : pc'[m] = pc[m]
    BY <2>1 DEF TInv, NodeTypes
  <2>3. \A p \in Nodes : n \notin C(p)
    BY <1>5, <1>7
  <2>4. tensor[n][0] = Total(n, Nodes)
    BY <1>2, <1>4, <2>3, RootSub
  <2>5. TensorFits(n)'
    BY <1>1, <2>2, <2>4 DEF TensorFits, Total
  <2>6. TreeNode(n)'
    BY <1>1, <2>1, <2>5, NoUploads, QuietNode
  <2>7. /\ \A c \in C(n) : Gathered(n, c)' <=> Gathered(n, c)
        /\ (Offered(n) => Offered(n)') /\ (Gave(n) => Gave(n)')
    BY <1>1, <2>2, ChildIs DEF Gathered, Offered, Gave
  <2> QED BY <1>1, <2>1, <2>2, <2>3, <2>6, <2>7, TreeStep
<1> QED BY <1>6, <1>7

LEMMA AskParentR ==
    ASSUME TInv, TreeInv, NEW n \in Nodes, NEW p \in Nodes, AskParent(n, p)
    PROVE  TreeInv'
<1>1. /\ pc[n] = "offer" /\ pc' = [pc EXCEPT ![n] = "receive"]
      /\ upload[n].phase = "none" /\ n \in C(p)
      /\ UNCHANGED <<strategy, round, tensor, exposed, upload>>
  BY DEF AskParent, Goto, ParentsOf, C
<1>2. /\ request'[n][p] = Asked(1) /\ TInv'
      /\ \A d, m \in Nodes : (d # n \/ m # p) => request'[d][m] = request[d][m]
  BY AskParentT
<1>3. \A m : C(m)' = C(m) /\ Sub(m)' = Sub(m)
  BY <1>1, TreeStays
<1>4. pc'[n] = "receive" /\ \A m \in Nodes \ {n} : pc'[m] = pc[m]
  BY <1>1 DEF TInv, NodeTypes
<1>5. /\ request'[n][p].phase = "check" /\ request'[n][p].id = 1
      /\ \A m \in Nodes \ {p} : request'[n][m].phase = "none"
  BY <1>1, <1>2, NoRequests, AskedIs
<1>6. TreeNode(n)'
  <2>1. ASSUME NEW m \in Nodes PROVE RequestFits(n, m)'
    <3>1. n \in C(p)'
      BY <1>1, <1>3
    <3> QED BY <1>4, <1>5, <3>1 DEF RequestFits
  <2>2. TensorFits(n)'
    <3>1. TensorFits(n)
      BY DEF TreeInv, TreeNode
    <3> QED BY <1>1, <1>3, <1>4, <3>1 DEF TensorFits, Total
  <2> QED BY <1>1, <2>1, <2>2 DEF TreeNode, UploadFits
<1>7. \A q \in Nodes : n \in C(q) => (Informed(n, q)' <=> Informed(n, q))
  <2>1. \A q \in Nodes : n \in C(q) => q = p
    BY <1>1, OneParent
  <2> QED BY <1>1, <1>4, <1>5, <2>1 DEF Informed
<1>8. /\ \A c \in C(n) : Gathered(n, c)' <=> Gathered(n, c)
      /\ (Offered(n) => Offered(n)') /\ (Gave(n) => Gave(n)')
  BY <1>1, <1>4 DEF Gathered, Offered, Gave
<1>9. \A m \in Nodes \ {n} : request'[m] = request[m]
  BY <1>2 DEF TInv, DataTypes
<1> QED BY <1>1, <1>4, <1>6, <1>7, <1>8, <1>9, TreeStep

LEMMA ReceiveR ==
    ASSUME TInv, TreeInv, NEW n \in Nodes, NEW p \in Nodes, Receive(n, p)
    PROVE  TreeInv'
<1>1. /\ pc[n] = "receive" /\ pc' = [pc EXCEPT ![n] = "give"]
      /\ request[n][p].phase = "reply" /\ n \in C(p)
      /\ UNCHANGED <<strategy, round, exposed, upload>>
  BY DEF Receive, Goto, ParentsOf, C
<1>2. /\ tensor'[n][0] = request[n][p].tensor /\ TInv'
      /\ \A m \in Nodes \ {n} : tensor'[m] = tensor[m]
      /\ request'[n][p] = NoRequest
      /\ \A d, m \in Nodes : (d # n \/ m # p) => request'[d][m] = request[d][m]
  BY ReceiveT
<1>3. pc'[n] = "give" /\ \A m \in Nodes \ {n} : pc'[m] = pc[m]
  BY <1>1 DEF TInv, NodeTypes
<1>4. \A q \in Nodes : n \in C(q) => q = p
  BY <1>1, OneParent
<1>5. \A m \in Nodes : request'[n][m].phase = "none"
  <2>1. \A m \in Nodes : RequestFits(n, m)
    BY DEF TreeInv, TreeNode
  <2>2. \A m \in Nodes \ {p} : request[n][m].phase = "none"
    BY <1>1, <1>4, <2>1 DEF RequestFits
  <2> QED BY <1>2, <2>2, PhaseOf
<1>6. TensorFits(n)'
  <2>1. RequestFits(n, p)
    BY DEF TreeInv, TreeNode
  <2>2. tensor'[n][0] = Total(n, Nodes)
    BY <1>1, <1>2, <2>1 DEF RequestFits
  <2> QED BY <1>1, <1>3, <2>2 DEF TensorFits, Total
<1>7. TreeNode(n)'
  <2>1. upload'[n].phase = "none"
    BY <1>1, NoUploads
  <2> QED BY <1>1, <1>5, <1>6, <2>1, QuietNode
<1>8. \A q \in Nodes : n \in C(q) => (Informed(n, q)' <=> Informed(n, q))
  BY <1>1, <1>3, <1>4 DEF Informed
<1>9. /\ \A c \in C(n) : Gathered(n, c)' <=> Gathered(n, c)
      /\ (Offered(n) => Offered(n)') /\ (Gave(n) => Gave(n)')
  BY <1>1, <1>3 DEF Gathered, Offered, Gave
<1>10. \A m \in Nodes \ {n} : request'[m] = request[m]
  BY <1>2 DEF TInv, DataTypes
<1> QED BY <1>1, <1>2, <1>3, <1>7, <1>8, <1>9, <1>10, TreeStep

LEMMA GiveR ==
    ASSUME TInv, TreeInv, NEW n \in Nodes, Give(n)
    PROVE  TreeInv'
<1>1. pc[n] = "give" /\ UNCHANGED <<strategy, round, tensor, exposed, request>>
  BY DEF Give
<1>2. /\ tensor[n][0] \in Slice /\ Cardinality(C(n)) \in Nat
      /\ \/ /\ C(n) # {} \/ (strategy = "centralized" /\ n = Central)
            /\ Goto(n, "given")
            /\ upload'[n] = Upload(1, tensor[n][0], Cardinality(C(n)))
            /\ \A m \in Nodes \ {n} : upload'[m] = upload[m]
         \/ C(n) = {} /\ Goto(n, "sync") /\ UNCHANGED upload
  BY GiveT, ChildrenFinite DEF C
<1>3. \A m : C(m)' = C(m) /\ Sub(m)' = Sub(m)
  BY <1>1, TreeStays
<1>4. tensor[n][0] = Total(n, Nodes)
  BY <1>1 DEF TreeInv, TreeNode, TensorFits
<1>5. CASE /\ C(n) # {} \/ (strategy = "centralized" /\ n = Central)
           /\ Goto(n, "given")
           /\ upload'[n] = Upload(1, tensor[n][0], Cardinality(C(n)))
           /\ \A m \in Nodes \ {n} : upload'[m] = upload[m]
  <2>1. pc'[n] = "given" /\ \A m \in Nodes \ {n} : pc'[m] = pc[m]
    BY <1>5 DEF TInv, NodeTypes, Goto
  <2>2. /\ upload'[n].phase = "insert" /\ upload'[n].id = 1
        /\ upload'[n].max = Cardinality(C(n)) /\ upload'[n].tensor = tensor[n][0]
    BY <1>2, <1>5, UploadIs
  <2>3. C(n) # {} \/ N = 1
    <3>1. CASE strategy = "centralized" /\ n = Central /\ N # 1
      <4>1. 1 \in C(n)
        BY <3>1, TopologyAssumption DEF C, Children, Central, Nodes
      <4> QED BY <4>1
    <3> QED BY <1>5, <3>1
  <2>4. UploadFits(n)'
    <3>1. C(n)' # {} \/ N = 1
      BY <1>3, <2>3
    <3>2. upload'[n].max = Cardinality(C(n)')
      BY <1>3, <2>2
    <3>3. upload'[n].tensor = Total(n, Nodes)'
      BY <1>1, <1>4, <2>2 DEF Total
    <3> QED BY <2>1, <2>2, <3>1, <3>2, <3>3 DEF UploadFits
  <2>5. TensorFits(n)'
    BY <1>1, <1>4, <2>1 DEF TensorFits, Total
  <2>6. TreeNode(n)'
    <3>1. \A m \in Nodes : request'[n][m].phase = "none"
      BY <1>1, NoRequests
    <3> QED BY <2>4, <2>5, <3>1 DEF TreeNode, RequestFits
  <2>7. /\ \A c \in C(n) : Gathered(n, c)' <=> Gathered(n, c)
        /\ \A p \in Nodes : Informed(n, p)' <=> Informed(n, p)
        /\ (Offered(n) => Offered(n)') /\ (Gave(n) => Gave(n)')
    BY <1>1, <2>1 DEF Gathered, Informed, Offered, Gave
  <2> QED BY <1>1, <1>5, <2>1, <2>6, <2>7, TreeStep
<1>6. CASE C(n) = {} /\ Goto(n, "sync") /\ UNCHANGED upload
  <2>1. pc'[n] = "sync" /\ \A m \in Nodes \ {n} : pc'[m] = pc[m]
    BY <1>6 DEF TInv, NodeTypes, Goto
  <2>2. TensorFits(n)'
    BY <1>1, <1>4, <2>1 DEF TensorFits, Total
  <2>3. TreeNode(n)'
    BY <1>1, <1>6, <2>2, NoUploads, NoRequests, QuietNode
  <2>4. /\ \A c \in C(n) : Gathered(n, c)' <=> Gathered(n, c)
        /\ \A p \in Nodes : Informed(n, p)' <=> Informed(n, p)
        /\ (Offered(n) => Offered(n)') /\ (Gave(n) => Gave(n)')
    BY <1>1, <2>1 DEF Gathered, Informed, Offered, Gave
  <2> QED BY <1>1, <1>6, <2>1, <2>3, <2>4, TreeStep
<1> QED BY <1>2, <1>5, <1>6

LEMMA EndGiveR ==
    ASSUME TInv, TreeInv, NEW n \in Nodes, EndGive(n)
    PROVE  TreeInv'
<1>1. /\ pc[n] = "given" /\ upload[n].phase = "none" /\ pc' = [pc EXCEPT ![n] = "sync"]
      /\ UNCHANGED <<strategy, round, tensor, exposed, upload, request>>
  BY DEF EndGive, Goto, dataVars
<1>2. pc'[n] = "sync" /\ \A m \in Nodes \ {n} : pc'[m] = pc[m]
  BY <1>1 DEF TInv, NodeTypes
<1>3. TreeNode(n)'
  <2>1. TensorFits(n)'
    BY <1>1, <1>2 DEF TreeInv, TreeNode, TensorFits, Total
  <2> QED BY <1>1, <2>1, NoRequests, QuietNode
<1>4. /\ \A c \in C(n) : Gathered(n, c)' <=> Gathered(n, c)
      /\ \A p \in Nodes : Informed(n, p)' <=> Informed(n, p)
      /\ (Offered(n) => Offered(n)') /\ (Gave(n) => Gave(n)')
  BY <1>1, <1>2 DEF Gathered, Informed, Offered, Gave
<1> QED BY <1>1, <1>2, <1>3, <1>4, TreeStep

LEMMA SyncTreeR ==
    ASSUME TInv, TreeInv, NEW n \in Nodes, Sync(n)
    PROVE  TreeInv'
<1>1. /\ pc[n] = "sync" /\ pc' = [pc EXCEPT ![n] = "barrier"]
      /\ UNCHANGED <<strategy, round, tensor, exposed, upload, request>>
  BY DEF Sync, Goto, dataVars
<1>2. pc'[n] = "barrier" /\ \A m \in Nodes \ {n} : pc'[m] = pc[m]
  BY <1>1 DEF TInv, NodeTypes
<1>3. TreeNode(n)'
  <2>1. TensorFits(n)'
    BY <1>1, <1>2 DEF TreeInv, TreeNode, TensorFits, Total
  <2> QED BY <1>1, <2>1, NoUploads, NoRequests, QuietNode
<1>4. /\ \A c \in C(n) : Gathered(n, c)' <=> Gathered(n, c)
      /\ \A p \in Nodes : Informed(n, p)' <=> Informed(n, p)
      /\ (Offered(n) => Offered(n)') /\ (Gave(n) => Gave(n)')
  BY <1>1, <1>2 DEF Gathered, Informed, Offered, Gave
<1> QED BY <1>1, <1>2, <1>3, <1>4, TreeStep

(* A node that leaves the barrier leaves nothing exposed: its parent and   *)
(* its children have come to it, with all they were to get.                *)
LEMMA ReturnTreeR ==
    ASSUME IInv', TInv, TreeInv, NEW n \in Nodes, Return(n)
    PROVE  TreeInv'
<1>1. /\ pc[n] = "barrier" /\ pc' = [pc EXCEPT ![n] = "idle"]
      /\ round' = [round EXCEPT ![n] = round[n] + 1]
      /\ UNCHANGED <<strategy, tensor, exposed, upload, request>>
  BY DEF Return, Goto, dataVars
<1>2. /\ pc'[n] = "idle" /\ round'[n] = round[n] + 1
      /\ \A m \in Nodes : round[m] \in Nat
      /\ \A m \in Nodes \ {n} : pc'[m] = pc[m] /\ round'[m] = round[m]
  BY <1>1 DEF TInv, NodeTypes
<1>3. \A m : C(m)' = C(m) /\ Sub(m)' = Sub(m)
  BY <1>1, TreeStays
<1>4. \A m \in Nodes, r \in Nat :
         /\ HasOffered(m, r)' <=> HasOffered(m, r)
         /\ HasGiven(m, r)' <=> HasGiven(m, r)
  <2>1. Offered(n) /\ Gave(n) /\ ~Offered(n)' /\ ~Gave(n)'
    BY <1>1, <1>2 DEF Offered, Gave
  <2>2. \A m \in Nodes \ {n} : (Offered(m)' <=> Offered(m)) /\ (Gave(m)' <=> Gave(m))
    BY <1>1, <1>2 DEF Offered, Gave
  <2> QED BY <1>2, <2>1, <2>2 DEF HasOffered, HasGiven
<1>5. \A m, d \in Nodes, r \in Nat :
         /\ HasGathered(m, d, r)' <=> HasGathered(m, d, r)
         /\ HasInformed(m, d, r)' <=> HasInformed(m, d, r)
  <2>1. \A d \in Nodes : Gathered(n, d) /\ Informed(n, d) /\ ~Gathered(n, d)' /\ ~Informed(n, d)'
    BY <1>1, <1>2 DEF Gathered, Informed
  <2>2. \A m \in Nodes \ {n}, d \in Nodes :
           (Gathered(m, d)' <=> Gathered(m, d)) /\ (Informed(m, d)' <=> Informed(m, d))
    BY <1>1, <1>2 DEF Gathered, Informed
  <2> QED BY <1>2, <2>1, <2>2 DEF HasGathered, HasInformed
<1>6. TreeOrder'
  BY <1>3, <1>4, <1>5, ChildIs DEF TreeInv, TreeOrder
<1>7. ASSUME NEW m \in Nodes PROVE round[m] > round[n] \/ (round[m] = round[n] /\ pc[m] = "barrier")
  <2>1. CASE m = n
    BY <1>1, <2>1
  <2>2. CASE m # n
    <3>1. NoEarlyLeave'
      BY BarrierFollows, PTL
    <3>2. round'[n] > round'[m] => pc'[m] = "barrier" /\ round'[n] = round'[m] + 1
      BY <3>1 DEF NoEarlyLeave
    <3>3. round[m] <= round[n] => pc[m] = "barrier" /\ round[n] = round[m]
      BY <1>2, <2>2, <3>2
    <3> QED BY <1>2, <3>3
  <2> QED BY <2>1, <2>2
<1>8. ASSUME NEW i \in DOMAIN exposed[n] PROVE i = 1 /\ C(n) = {}
  <2>1. ~SumExposed(n, i)
    BY <1>7 DEF SumExposed, HasGathered, Gathered
  <2>2. ~ResultExposed(n, i)
    <3>1. \A c \in C(n) : HasInformed(c, n, round[n])
      BY <1>7, ChildIs DEF HasInformed, Informed
    <3>2. Uninformed(n) = {}
      BY <3>1 DEF Uninformed
    <3>3. Cardinality(Uninformed(n)) = 0
      BY <3>2, FS_EmptySet
    <3>4. exposed[n][i].count \in Nat
      <4>1. exposed[n][i] \in Entry
        BY TableIs DEF TInv, DataTypes
      <4> QED BY <4>1 DEF Entry
    <3> QED BY <3>3, <3>4 DEF ResultExposed
  <2> QED BY <2>1, <2>2 DEF TreeInv, TreeExposed
<1>9. TreeExposed'
  <2> SUFFICES ASSUME NEW m \in Nodes, NEW i \in DOMAIN exposed[m]
               PROVE  SumExposed(m, i)' \/ ResultExposed(m, i)' \/ (i = 1 /\ C(m)' = {})
    BY <1>1 DEF TreeExposed
  <2>1. CASE m = n
    BY <1>3, <1>8, <2>1
  <2>2. CASE m # n
    <3>0. round'[m] = round[m] /\ round[m] \in Nat
      BY <1>2, <2>2
    <3>1. SumExposed(m, i) \/ ResultExposed(m, i) \/ (i = 1 /\ C(m) = {})
      BY DEF TreeInv, TreeExposed
    <3>2. HasOffered(m, round[m]) => HasOffered(m, round[m])'
      BY <1>4, <3>0 DEF HasOffered
    <3>3. HasGiven(m, round[m]) => HasGiven(m, round[m])'
      BY <1>4, <3>0 DEF HasGiven
    <3>4. \A p \in Nodes : m \in C(p) =>
              (HasGathered(p, m, round[m])' => HasGathered(p, m, round[m]))
      <4>1. \A p \in Nodes : HasGathered(p, m, round[m]) <=>
               (round'[p] > round[m] \/ (round'[p] = round[m] /\ Gathered(p, m)'))
        BY <1>5, <3>0 DEF HasGathered
      <4> QED BY <3>0, <4>1 DEF HasGathered
    <3>5. \A c \in C(m) : HasInformed(c, m, round[m])' <=> HasInformed(c, m, round[m])
      <4>1. \A c \in Nodes : HasInformed(c, m, round[m]) <=>
               (round'[c] > round[m] \/ (round'[c] = round[m] /\ Informed(c, m)'))
        BY <1>5, <3>0 DEF HasInformed
      <4> QED BY <3>0, <4>1, ChildIs DEF HasInformed
    <3>6. /\ SumExposed(m, i) => SumExposed(m, i)'
          /\ ResultExposed(m, i) => ResultExposed(m, i)'
      BY <1>1, <3>0, <3>2, <3>3, <3>4, <3>5, ExposedStays
    <3> QED BY <1>3, <3>1, <3>6
  <2> QED BY <2>1, <2>2
<1>10. ASSUME NEW m \in Nodes PROVE TreeNode(m)'
  <2>1. CASE m = n
    <3>1. TensorFits(n)'
      BY <1>2 DEF TensorFits
    <3>2. upload'[n].phase = "none" /\ \A d \in Nodes : request'[n][d].phase = "none"
      BY <1>1, NoUploads, NoRequests
    <3>3. TreeNode(n)'
      BY <1>1, <3>1, <3>2, QuietNode
    <3> QED BY <2>1, <3>3
  <2>2. CASE m # n
    <3>0. TreeNode(m) /\ round'[m] = round[m] /\ pc'[m] = pc[m]
      BY <1>2, <2>2 DEF TreeInv
    <3>1. UploadFits(m)'
      BY <1>1, <1>3, <3>0 DEF TreeNode, UploadFits, Total
    <3>2. \A d \in Nodes : RequestFits(m, d)'
      BY <1>1, <1>3, <3>0 DEF TreeNode, RequestFits, Total
    <3>3. GatheredNodes(m)' = GatheredNodes(m)
      BY <1>1, <1>3 DEF GatheredNodes
    <3>4. TensorFits(m)'
      BY <1>1, <1>3, <3>0, <3>3 DEF TreeNode, TensorFits, Total
    <3> QED BY <3>1, <3>2, <3>4 DEF TreeNode
  <2> QED BY <2>1, <2>2
<1> QED BY <1>6, <1>9, <1>10 DEF TreeInv

-----------------------------------------------------------------------------
(* The steps of the data service. *)

LEMMA TreeNodeKept ==
    ASSUME UNCHANGED <<strategy, pc, round, tensor>>, NEW n \in Nodes, TreeNode(n),
           upload'[n].phase # "none" =>
               /\ upload[n].phase # "none" /\ upload'[n].id = upload[n].id
               /\ upload'[n].max = upload[n].max /\ upload'[n].tensor = upload[n].tensor,
           \A m \in Nodes : request'[n][m].phase = "none" <=> request[n][m].phase = "none",
           \A m \in Nodes : RequestFits(n, m)'
    PROVE  TreeNode(n)'
<1>1. \A m : C(m)' = C(m) /\ Sub(m)' = Sub(m)
  BY TreeStays
<1>2. UploadFits(n)'
  BY <1>1 DEF TreeNode, UploadFits, Total
<1>3. GatheredNodes(n)' = GatheredNodes(n)
  <2>1. {d \in C(n)' : request'[n][d].phase = "none"} = {d \in C(n) : request[n][d].phase = "none"}
    BY <1>1, ChildIs
  <2> QED BY <1>1, <2>1 DEF GatheredNodes
<1>4. TensorFits(n)'
  BY <1>1, <1>3 DEF TreeNode, TensorFits, Total
<1> QED BY <1>2, <1>4 DEF TreeNode

LEMMA TreeWaits ==
    ASSUME TInv, TreeInv, UNCHANGED <<strategy, pc, round, tensor, exposed>>,
           \A n, m \in Nodes : SameRequest(n, m),
           \A n \in Nodes : \/ upload'[n] = upload[n]
                            \/ upload[n].phase = "notify" /\ upload'[n].phase = "none"
    PROVE  TreeInv'
<1>0. \A m : C(m)' = C(m) /\ Sub(m)' = Sub(m)
  BY TreeStays
<1>1. \A n, m \in Nodes : (Gathered(n, m)' <=> Gathered(n, m)) /\ (Informed(n, m)' <=> Informed(n, m))
  BY SameRequestIs DEF Gathered, Informed
<1>2. \A n \in Nodes : (Offered(n)' <=> Offered(n)) /\ (Gave(n)' <=> Gave(n))
  BY DEF Offered, Gave
<1>3. TreeOrder'
  BY <1>0, <1>1, <1>2, ChildIs
     DEF TreeInv, TreeOrder, HasGathered, HasInformed, HasOffered, HasGiven
<1>4. TreeExposed'
  <2> SUFFICES ASSUME NEW m \in Nodes, NEW i \in DOMAIN exposed[m]
               PROVE  SumExposed(m, i)' \/ ResultExposed(m, i)' \/ (i = 1 /\ C(m)' = {})
    BY DEF TreeExposed
  <2>1. SumExposed(m, i) \/ ResultExposed(m, i) \/ (i = 1 /\ C(m) = {})
    BY DEF TreeInv, TreeExposed
  <2>2. /\ HasOffered(m, round[m]) => HasOffered(m, round[m])'
        /\ HasGiven(m, round[m]) => HasGiven(m, round[m])'
    BY <1>2 DEF HasOffered, HasGiven
  <2>3. \A p \in Nodes : HasGathered(p, m, round[m])' => HasGathered(p, m, round[m])
    BY <1>1 DEF HasGathered
  <2>4. \A c \in C(m) : HasInformed(c, m, round[m])' <=> HasInformed(c, m, round[m])
    BY <1>1, ChildIs DEF HasInformed
  <2>5. /\ SumExposed(m, i) => SumExposed(m, i)'
        /\ ResultExposed(m, i) => ResultExposed(m, i)'
    BY <2>2, <2>3, <2>4, ExposedStays
  <2> QED BY <1>0, <2>1, <2>5
<1>5. ASSUME NEW n \in Nodes PROVE TreeNode(n)'
  <2>0. TreeNode(n) /\ (upload'[n].phase # "none" => upload'[n] = upload[n])
    BY DEF TreeInv
  <2>1. ASSUME NEW m \in Nodes PROVE RequestFits(n, m)'
    <3>1. request[n][m].phase \in {"none", "reply"} \cup Waiting
      BY PhaseOf DEF TInv, DataTypes
    <3>2. RequestFits(n, m)
      BY <2>0 DEF TreeNode
    <3> QED BY <1>0, <3>1, <3>2, SameRequestIs DEF RequestFits, Total
  <2>2. \A m \in Nodes : request'[n][m].phase = "none" <=> request[n][m].phase = "none"
    BY SameRequestIs
  <2> QED BY <2>0, <2>1, <2>2, TreeNodeKept
<1> QED BY <1>3, <1>4, <1>5 DEF TreeInv

(* Exposing a tensor overwrites none, and precedes its downloads. *)
LEMMA InsertTreeR ==
    ASSUME TInv, TreeInv, NEW s \in Nodes, Insert(s), UNCHANGED nodeVars
    PROVE  TreeInv'
<1> DEFINE i == upload[s].id
<1>1. /\ upload[s] \in FullUploads
      /\ upload[s].phase = "insert" /\ upload'[s].phase = "notify"
      /\ upload'[s].id = upload[s].id /\ upload'[s].max = upload[s].max
      /\ upload'[s].tensor = upload[s].tensor
      /\ \A m \in Nodes \ {s} : upload'[m] = upload[m] /\ exposed'[m] = exposed[m]
      /\ DOMAIN exposed'[s] = DOMAIN exposed[s] \cup {i}
      /\ exposed'[s][i] = [tensor |-> upload[s].tensor, max |-> upload[s].max, count |-> 0]
      /\ \A j \in DOMAIN exposed[s] \ {i} : exposed'[s][j] = exposed[s][j]
      /\ request' = request
  BY InsertIs DEF TInv
<1>2. UNCHANGED <<strategy, pc, round, tensor>> /\ round[s] \in Nat
  BY DEF nodeVars, TInv, NodeTypes
<1>3. \A m : C(m)' = C(m) /\ Sub(m)' = Sub(m)
  BY <1>2, TreeStays
<1>4. /\ \A n, m : (Gathered(n, m)' <=> Gathered(n, m)) /\ (Informed(n, m)' <=> Informed(n, m))
      /\ \A n \in Nodes : (Offered(n) => Offered(n)') /\ (Gave(n) => Gave(n)')
  BY <1>1, <1>2 DEF Gathered, Informed, Offered, Gave
<1>5. TreeOrder'
  BY <1>2, <1>3, <1>4, ChildIs
     DEF TreeInv, TreeOrder, HasGathered, HasInformed, HasOffered, HasGiven
<1>6. UploadFits(s)
  BY DEF TreeInv, TreeNode
<1>7. (i = 0 /\ SumExposed(s, 0)') \/ (i = 1 /\ ResultExposed(s, 1)') \/ (i = 1 /\ C(s)' = {})
  <2>1. CASE pc[s] = "offer"
    <3>1. PICK p \in Nodes : s \in C(p)
      BY <1>1, <1>6, <2>1 DEF UploadFits
    <3>2. i = 0 /\ upload[s].max = 1 /\ upload[s].tensor = Total(s, Sub(s))
      BY <1>1, <1>6, <2>1 DEF UploadFits
    <3>3. ~HasOffered(s, round[s])
      BY <1>1, <1>2, <2>1 DEF HasOffered, Offered
    <3>4. ~HasGathered(p, s, round[s])
      BY <1>2, <3>1, <3>3 DEF TreeInv, TreeOrder
    <3>5. ~HasGathered(p, s, round[s])'
      BY <1>2, <1>4, <3>4 DEF HasGathered
    <3>6. HasOffered(s, round[s])'
      BY <1>1, <1>2, <2>1 DEF HasOffered, Offered
    <3>7. exposed'[s][i] = [tensor |-> Total(s, Sub(s))', max |-> 1, count |-> 0]
      BY <1>1, <1>2, <1>3, <3>2 DEF Total
    <3>8. s \in C(p)'
      BY <1>3, <3>1
    <3>9. SumExposed(s, 0)'
      BY <3>2, <3>5, <3>6, <3>7, <3>8 DEF SumExposed
    <3> QED BY <3>2, <3>9
  <2>2. CASE pc[s] = "given" /\ C(s) # {}
    <3>1. /\ i = 1 /\ upload[s].max = Cardinality(C(s)) /\ upload[s].tensor = Total(s, Nodes)
      BY <1>1, <1>6, <2>2 DEF UploadFits
    <3>2. ~HasGiven(s, round[s])
      BY <1>1, <1>2, <2>2 DEF HasGiven, Gave
    <3>3. \A c \in C(s) : ~HasInformed(c, s, round[s])
      BY <1>2, <3>2 DEF TreeInv, TreeOrder
    <3>4. \A c \in C(s) : ~HasInformed(c, s, round[s])'
      BY <1>2, <1>4, <3>3 DEF HasInformed
    <3>5. Uninformed(s)' = C(s)
      BY <1>3, <3>4 DEF Uninformed
    <3>6. HasGiven(s, round[s])'
      BY <1>1, <1>2, <2>2 DEF HasGiven, Gave
    <3>7. /\ exposed'[s][1].tensor = Total(s, Nodes)'
          /\ exposed'[s][1].max = Cardinality(C(s)') /\ exposed'[s][1].count = 0
      <4>1. exposed'[s][1] = [tensor |-> upload[s].tensor, max |-> upload[s].max, count |-> 0]
        BY <1>1, <3>1
      <4>2. Total(s, Nodes)' = Total(s, Nodes)
        BY <1>2 DEF Total
      <4>3. Cardinality(C(s)') = Cardinality(C(s))
        BY <1>3
      <4> QED BY <3>1, <4>1, <4>2, <4>3
    <3>8. Cardinality(C(s)) \in Nat /\ Cardinality(C(s)) > 0
      <4>1. IsFiniteSet(C(s)) /\ Cardinality(C(s)) \in Nat
        BY ChildrenFinite DEF C
      <4> QED BY <2>2, <4>1, FS_EmptySet
    <3>9. ResultExposed(s, 1)'
      BY <1>3, <2>2, <3>5, <3>6, <3>7, <3>8 DEF ResultExposed
    <3> QED BY <3>1, <3>9
  <2>3. CASE pc[s] = "given" /\ C(s) = {}
    BY <1>1, <1>3, <1>6, <2>3 DEF UploadFits
  <2> QED BY <1>1, <1>6, <2>1, <2>2, <2>3 DEF UploadFits
<1> HIDE DEF i
<1>8. TreeExposed'
  <2> SUFFICES ASSUME NEW m \in Nodes, NEW j \in DOMAIN exposed'[m]
               PROVE  SumExposed(m, j)' \/ ResultExposed(m, j)' \/ (j = 1 /\ C(m)' = {})
    BY DEF TreeExposed
  <2>1. CASE m = s /\ j = i
    <3>1. (j = 0 /\ SumExposed(m, 0)') \/ (j = 1 /\ ResultExposed(m, 1)') \/ (j = 1 /\ C(m)' = {})
      BY <1>7, <2>1
    <3> QED BY <3>1
  <2>2. CASE ~(m = s /\ j = i)
    <3>1. j \in DOMAIN exposed[m] /\ exposed'[m][j] = exposed[m][j]
      BY <1>1, <2>2
    <3>2. SumExposed(m, j) \/ ResultExposed(m, j) \/ (j = 1 /\ C(m) = {})
      BY <3>1 DEF TreeInv, TreeExposed
    <3>3. /\ HasOffered(m, round[m]) => HasOffered(m, round[m])'
          /\ HasGiven(m, round[m]) => HasGiven(m, round[m])'
      BY <1>2, <1>4 DEF HasOffered, HasGiven
    <3>4. \A p \in Nodes : HasGathered(p, m, round[m])' => HasGathered(p, m, round[m])
      BY <1>2, <1>4 DEF HasGathered
    <3>5. \A c \in C(m) : HasInformed(c, m, round[m])' <=> HasInformed(c, m, round[m])
      BY <1>2, <1>4 DEF HasInformed
    <3>6. /\ SumExposed(m, j) => SumExposed(m, j)'
          /\ ResultExposed(m, j) => ResultExposed(m, j)'
      BY <1>2, <3>1, <3>3, <3>4, <3>5, ExposedStays
    <3> QED BY <1>3, <3>2, <3>6
  <2> QED BY <2>1, <2>2
<1>9. ASSUME NEW n \in Nodes PROVE TreeNode(n)'
  <2>0. TreeNode(n)
    BY DEF TreeInv
  <2>1. \A m \in Nodes : RequestFits(n, m)'
    BY <1>1, <1>2, <1>3, <2>0 DEF TreeNode, RequestFits, Total
  <2>2. /\ upload[n].phase # "none" /\ upload'[n].id = upload[n].id
        /\ upload'[n].max = upload[n].max /\ upload'[n].tensor = upload[n].tensor
        \/ upload'[n].phase = "none"
    BY <1>1
  <2> QED BY <1>1, <1>2, <2>0, <2>1, <2>2, TreeNodeKept
<1> QED BY <1>5, <1>8, <1>9 DEF TreeInv

(* What a served request has been waiting for: the sum of a child, ... *)
LEMMA GatherServed ==
    ASSUME IInv, TInv, TreeInv, NEW c \in Nodes, NEW s \in Nodes,
           pc[c] = "gather", s \in C(c), request[c][s].phase \in Waiting,
           0 \in DOMAIN exposed[s]
    PROVE  /\ round[s] = round[c] /\ HasOffered(s, round[c])
           /\ exposed[s][0] = [tensor |-> Total(c, Sub(s)), max |-> 1, count |-> 0]
<1>1. SumExposed(s, 0)
  BY DEF TreeInv, TreeExposed, ResultExposed
<1>2. PICK p \in Nodes : s \in C(p) /\ ~HasGathered(p, s, round[s])
  BY <1>1 DEF SumExposed
<1>3. p = c
  BY <1>2, OneParent
<1>4. round[s] = round[c]
  <2>1. round[s] \in Nat /\ round[c] \in Nat
    BY DEF TInv, NodeTypes
  <2>2. ~(round[s] > round[c])
    BY BarrierFollows DEF NoEarlyLeave
  <2>3. ~(round[c] > round[s])
    BY <1>2, <1>3 DEF HasGathered
  <2> QED BY <2>1, <2>2, <2>3
<1> QED BY <1>1, <1>4 DEF SumExposed, Total

(* ... or the result of the parent. *)
LEMMA ReceiveServed ==
    ASSUME IInv, TInv, TreeInv, NEW c \in Nodes, NEW s \in Nodes,
           pc[c] = "receive", c \in C(s), request[c][s].phase \in Waiting,
           1 \in DOMAIN exposed[s]
    PROVE  /\ round[s] = round[c] /\ HasGiven(s, round[c])
           /\ exposed[s][1].tensor = Total(c, Nodes)
           /\ ResultExposed(s, 1) /\ c \in Uninformed(s)
<1>1. ResultExposed(s, 1)
  <2>1. SumExposed(s, 1) \/ ResultExposed(s, 1) \/ C(s) = {}
    BY DEF TreeInv, TreeExposed
  <2>2. ~SumExposed(s, 1)
    BY DEF SumExposed
  <2> QED BY <2>1, <2>2
<1>2. \A d \in Nodes : round[d] \in Nat
  BY DEF TInv, NodeTypes
<1>3. NoEarlyLeave
  BY BarrierFollows
<1>4. ~(round[s] > round[c])
  BY <1>3 DEF NoEarlyLeave
<1>5. ASSUME round[c] > round[s] PROVE FALSE
  <2>1. round[c] = round[s] + 1
    BY <1>3, <1>5 DEF NoEarlyLeave
  <2>2. ASSUME NEW d \in C(s) PROVE HasInformed(d, s, round[s])
    <3>0. d \in Nodes
      BY ChildIs
    <3>1. CASE round[c] > round[d]
      <4>1. pc[d] = "barrier" /\ round[c] = round[d] + 1
        BY <1>3, <3>0, <3>1 DEF NoEarlyLeave
      <4>2. round[d] = round[s]
        BY <1>2, <2>1, <3>0, <4>1
      <4> QED BY <4>1, <4>2 DEF HasInformed, Informed
    <3>2. CASE ~(round[c] > round[d])
      <4>1. round[d] > round[s]
        BY <1>2, <1>5, <3>0, <3>2
      <4> QED BY <4>1 DEF HasInformed
    <3> QED BY <3>1, <3>2
  <2>3. Cardinality(Uninformed(s)) = 0
    <3>1. Uninformed(s) = {}
      BY <2>2 DEF Uninformed
    <3> QED BY <3>1, FS_EmptySet
  <2>4. exposed[s][1].count \in Nat
    <3>1. exposed[s][1] \in Entry
      BY TableIs DEF TInv, DataTypes
    <3> QED BY <3>1 DEF Entry
  <2> QED BY <1>1, <2>3, <2>4 DEF ResultExposed
<1>6. round[s] = round[c]
  BY <1>2, <1>4, <1>5
<1>7. c \in Uninformed(s)
  <2>1. ~Informed(c, s)
    BY DEF Informed, Waiting
  <2> QED BY <1>2, <1>6, <2>1 DEF Uninformed, HasInformed
<1> QED BY <1>1, <1>6, <1>7 DEF ResultExposed, Total

(* What a served request changes of the other calls: nothing. *)
LEMMA ServedNode ==
    ASSUME TInv, TreeInv, UNCHANGED <<strategy, pc, round, tensor, upload>>,
           NEW c \in Nodes, NEW s \in Nodes,
           request[c][s].phase \in Waiting, request'[c][s].phase = "reply",
           \A d, m \in Nodes : (d # c \/ m # s) => request'[d][m] = request[d][m],
           RequestFits(c, s)', NEW n \in Nodes
    PROVE  TreeNode(n)'
<1>0. \A m : C(m)' = C(m) /\ Sub(m)' = Sub(m)
  BY TreeStays
<1>1. TreeNode(n)
  BY DEF TreeInv
<1>2. ASSUME NEW m \in Nodes
      PROVE  RequestFits(n, m)' /\ (request'[n][m].phase = "none" <=> request[n][m].phase = "none")
  <2>1. CASE n = c /\ m = s
    BY <2>1 DEF Waiting
  <2>2. CASE ~(n = c /\ m = s)
    <3>1. request'[n][m] = request[n][m] /\ RequestFits(n, m)
      BY <1>1, <2>2 DEF TreeNode
    <3> QED BY <1>0, <3>1 DEF RequestFits, Total
  <2> QED BY <2>1, <2>2
<1> QED BY <1>1, <1>2, TreeNodeKept

(* A parent gets the sum of a child. *)
LEMMA ServeSumR ==
    ASSUME IInv, TInv, TreeInv, NEW c \in Nodes, NEW s \in Nodes, Serve(c, s),
           UNCHANGED nodeVars, pc[c] = "gather"
    PROVE  TreeInv'
<1>1. /\ request[c][s] \in OpenRequests /\ request[c][s].id \in DOMAIN exposed[s]
      /\ request'[c][s] = [phase |-> "reply", tensor |-> exposed[s][request[c][s].id].tensor]
      /\ \A d, m \in Nodes : (d # c \/ m # s) => request'[d][m] = request[d][m]
      /\ exposed'[s] = Taken(exposed[s], request[c][s].id)
      /\ \A m \in Nodes \ {s} : exposed'[m] = exposed[m]
      /\ upload' = upload
  BY ServeIs DEF TInv
<1>2. UNCHANGED <<strategy, pc, round, tensor>> /\ round[c] \in Nat /\ round[s] \in Nat
  BY DEF nodeVars, TInv, NodeTypes
<1>3. \A m : C(m)' = C(m) /\ Sub(m)' = Sub(m)
  BY <1>2, TreeStays
<1>4. request[c][s].phase \in Waiting /\ request[c][s].phase \notin {"none", "reply"}
  BY <1>1, PhaseOf DEF Waiting
<1>5. s \in C(c) /\ request[c][s].id = 0
  BY <1>4 DEF TreeInv, TreeNode, RequestFits
<1>6. /\ round[s] = round[c] /\ HasOffered(s, round[c])
      /\ exposed[s][0] = [tensor |-> Total(c, Sub(s)), max |-> 1, count |-> 0]
  BY <1>1, <1>4, <1>5, GatherServed
<1>7. request'[c][s].phase = "reply" /\ request'[c][s].tensor = Total(c, Sub(s))
  BY <1>1, <1>5, <1>6
<1>8. /\ DOMAIN exposed'[s] = DOMAIN exposed[s] \ {0}
      /\ \A j \in DOMAIN exposed[s] \ {0} : exposed'[s][j] = exposed[s][j]
  <2> DEFINE t == exposed[s]
             u == exposed'[s]
  <2>1. t \in Tables /\ 0 \in DOMAIN t /\ t[0].count + 1 = t[0].max /\ u = Taken(t, 0)
    BY <1>1, <1>5, <1>6 DEF TInv, DataTypes
  <2> HIDE DEF t, u
  <2>2. DOMAIN u = DOMAIN t \ {0} /\ \A j \in DOMAIN t \ {0} : u[j] = t[j]
    BY <2>1, TakenIs
  <2> QED BY <2>2 DEF t, u
<1>9. /\ \A n, m \in Nodes : (n # c \/ m # s) => (Gathered(n, m)' <=> Gathered(n, m))
      /\ \A n, m \in Nodes : Informed(n, m)' <=> Informed(n, m)
      /\ \A n \in Nodes : (Offered(n)' <=> Offered(n)) /\ (Gave(n)' <=> Gave(n))
  BY <1>1, <1>2 DEF Gathered, Informed, Offered, Gave
<1>10. ASSUME NEW n \in Nodes, NEW m \in Nodes, NEW r \in Nat
       PROVE  /\ HasGathered(n, m, r)' => HasGathered(n, m, r) \/ (n = c /\ m = s /\ r = round[c])
              /\ HasInformed(n, m, r)' <=> HasInformed(n, m, r)
              /\ HasOffered(n, r)' <=> HasOffered(n, r)
              /\ HasGiven(n, r)' <=> HasGiven(n, r)
  BY <1>2, <1>9 DEF HasGathered, HasInformed, HasOffered, HasGiven
<1>11. TreeOrder'
  <2> SUFFICES ASSUME NEW p \in Nodes, NEW d \in C(p), NEW r \in Nat
               PROVE  /\ HasGathered(p, d, r)' => HasOffered(d, r)'
                      /\ HasInformed(d, p, r)' => HasGiven(p, r)'
    BY <1>3 DEF TreeOrder
  <2>1. d \in Nodes
    BY ChildIs
  <2>2. /\ HasGathered(p, d, r) => HasOffered(d, r)
        /\ HasInformed(d, p, r) => HasGiven(p, r)
    BY DEF TreeInv, TreeOrder
  <2> QED BY <1>6, <1>10, <2>1, <2>2
<1>12. TreeExposed'
  <2> SUFFICES ASSUME NEW m \in Nodes, NEW j \in DOMAIN exposed'[m]
               PROVE  SumExposed(m, j)' \/ ResultExposed(m, j)' \/ (j = 1 /\ C(m)' = {})
    BY DEF TreeExposed
  <2>1. j \in DOMAIN exposed[m] /\ exposed'[m][j] = exposed[m][j] /\ ~(m = s /\ j = 0)
    BY <1>1, <1>8
  <2>2. SumExposed(m, j) \/ ResultExposed(m, j) \/ (j = 1 /\ C(m) = {})
    BY <2>1 DEF TreeInv, TreeExposed
  <2>3. round[m] \in Nat
    BY DEF TInv, NodeTypes
  <2>4. CASE SumExposed(m, j)
    <3>1. m # s
      BY <2>1, <2>4 DEF SumExposed
    <3>2. HasOffered(m, round[m])'
      BY <1>2, <1>9, <2>4 DEF SumExposed, HasOffered
    <3>3. \A p \in Nodes : HasGathered(p, m, round[m])' => HasGathered(p, m, round[m])
      BY <1>2, <1>9, <3>1 DEF HasGathered
    <3> QED BY <1>2, <2>1, <2>4, <3>2, <3>3, SumStays
  <2>5. CASE ResultExposed(m, j)
    <3>1. HasGiven(m, round[m])'
      BY <1>2, <1>9, <2>5 DEF ResultExposed, HasGiven
    <3>2. \A d \in C(m) : HasInformed(d, m, round[m])' <=> HasInformed(d, m, round[m])
      BY <1>2, <1>9, ChildIs DEF HasInformed
    <3> QED BY <1>2, <2>1, <2>5, <3>1, <3>2, ResultStays
  <2> QED BY <1>3, <2>2, <2>4, <2>5
<1>13. RequestFits(c, s)'
  <2>1. request'[c][s].tensor = Total(c, Sub(s))'
    BY <1>2, <1>3, <1>7 DEF Total
  <2>2. s \in C(c)'
    BY <1>3, <1>5
  <2> QED BY <1>2, <1>7, <2>1, <2>2 DEF RequestFits
<1>14. \A n \in Nodes : TreeNode(n)'
  BY <1>1, <1>2, <1>4, <1>7, <1>13, ServedNode
<1> QED BY <1>11, <1>12, <1>14 DEF TreeInv

(* A child gets the result of its parent. *)
LEMMA ServeResultR ==
    ASSUME IInv, TInv, TreeInv, NEW c \in Nodes, NEW s \in Nodes, Serve(c, s),
           UNCHANGED nodeVars, pc[c] = "receive"
    PROVE  TreeInv'
<1>1. /\ request[c][s] \in OpenRequests /\ request[c][s].id \in DOMAIN exposed[s]
      /\ request'[c][s] = [phase |-> "reply", tensor |-> exposed[s][request[c][s].id].tensor]
      /\ \A d, m \in Nodes : (d # c \/ m # s) => request'[d][m] = request[d][m]
      /\ exposed'[s] = Taken(exposed[s], request[c][s].id)
      /\ \A m \in Nodes \ {s} : exposed'[m] = exposed[m]
      /\ upload' = upload
  BY ServeIs DEF TInv
<1>2. UNCHANGED <<strategy, pc, round, tensor>> /\ round[c] \in Nat /\ round[s] \in Nat
  BY DEF nodeVars, TInv, NodeTypes
<1>3. \A m : C(m)' = C(m) /\ Sub(m)' = Sub(m)
  BY <1>2, TreeStays
<1>4. request[c][s].phase \in Waiting /\ request[c][s].phase \notin {"none", "reply"}
  BY <1>1, PhaseOf DEF Waiting
<1>5. c \in C(s) /\ request[c][s].id = 1
  BY <1>4 DEF TreeInv, TreeNode, RequestFits
<1>6. /\ round[s] = round[c] /\ HasGiven(s, round[c])
      /\ exposed[s][1].tensor = Total(c, Nodes)
      /\ ResultExposed(s, 1) /\ c \in Uninformed(s)
  BY <1>1, <1>4, <1>5, ReceiveServed
<1>7. request'[c][s].phase = "reply" /\ request'[c][s].tensor = Total(c, Nodes)
  BY <1>1, <1>5, <1>6
<1>8. /\ exposed[s][1].count \in Nat /\ exposed[s][1].max \in Nat
      /\ \A j \in DOMAIN exposed'[s] \ {1} : j \in DOMAIN exposed[s] /\ exposed'[s][j] = exposed[s][j]
      /\ 1 \in DOMAIN exposed'[s] =>
            /\ exposed[s][1].count + 1 # exposed[s][1].max
            /\ exposed'[s][1].tensor = exposed[s][1].tensor
            /\ exposed'[s][1].max = exposed[s][1].max
            /\ exposed'[s][1].count = exposed[s][1].count + 1
  <2> DEFINE t == exposed[s]
             u == exposed'[s]
  <2>1. t \in Tables /\ 1 \in DOMAIN t /\ u = Taken(t, 1)
    BY <1>1, <1>5 DEF TInv, DataTypes
  <2> HIDE DEF t, u
  <2>2. t[1] \in Entry
    BY <2>1, TableIs
  <2>3. /\ t[1].count + 1 = t[1].max =>
              /\ DOMAIN u = DOMAIN t \ {1}
              /\ \A j \in DOMAIN t \ {1} : u[j] = t[j]
        /\ t[1].count + 1 # t[1].max =>
              /\ DOMAIN u = DOMAIN t
              /\ \A j \in DOMAIN t \ {1} : u[j] = t[j]
              /\ u[1] = [tensor |-> t[1].tensor, max |-> t[1].max, count |-> t[1].count + 1]
    BY <2>1, TakenIs
  <2> QED BY <2>2, <2>3 DEF t, u, Entry
<1>9. /\ \A n, m \in Nodes : Gathered(n, m)' <=> Gathered(n, m)
      /\ \A n, m \in Nodes : (n # c \/ m # s) => (Informed(n, m)' <=> Informed(n, m))
      /\ Informed(c, s)'
      /\ \A n \in Nodes : (Offered(n)' <=> Offered(n)) /\ (Gave(n)' <=> Gave(n))
  BY <1>1, <1>2, <1>7 DEF Gathered, Informed, Offered, Gave
<1>10. ASSUME NEW n \in Nodes, NEW m \in Nodes, NEW r \in Nat
       PROVE  /\ HasGathered(n, m, r)' <=> HasGathered(n, m, r)
              /\ HasInformed(n, m, r)' => HasInformed(n, m, r) \/ (n = c /\ m = s /\ r = round[c])
              /\ HasOffered(n, r)' <=> HasOffered(n, r)
              /\ HasGiven(n, r)' <=> HasGiven(n, r)
  BY <1>2, <1>9 DEF HasGathered, HasInformed, HasOffered, HasGiven
<1>11. TreeOrder'
  <2> SUFFICES ASSUME NEW p \in Nodes, NEW d \in C(p), NEW r \in Nat
               PROVE  /\ HasGathered(p, d, r)' => HasOffered(d, r)'
                      /\ HasInformed(d, p, r)' => HasGiven(p, r)'
    BY <1>3 DEF TreeOrder
  <2>1. d \in Nodes
    BY ChildIs
  <2>2. /\ HasGathered(p, d, r) => HasOffered(d, r)
        /\ HasInformed(d, p, r) => HasGiven(p, r)
    BY DEF TreeInv, TreeOrder
  <2> QED BY <1>6, <1>10, <2>1, <2>2
<1>12. 1 \in DOMAIN exposed'[s] => ResultExposed(s, 1)'
  <2> SUFFICES ASSUME 1 \in DOMAIN exposed'[s] PROVE ResultExposed(s, 1)'
    OBVIOUS
  <2>1. Uninformed(s)' = Uninformed(s) \ {c}
    <3>1. HasInformed(c, s, round[s])'
      BY <1>2, <1>6, <1>9 DEF HasInformed
    <3>2. \A d \in C(s) \ {c} : HasInformed(d, s, round[s])' <=> HasInformed(d, s, round[s])
      BY <1>2, <1>9, ChildIs DEF HasInformed
    <3> QED BY <1>3, <3>1, <3>2 DEF Uninformed
  <2>2. /\ Cardinality(Uninformed(s)) \in Nat
        /\ Cardinality(Uninformed(s) \ {c}) = Cardinality(Uninformed(s)) - 1
    <3>1. IsFiniteSet(Uninformed(s))
      <4>1. IsFiniteSet(C(s)) /\ Uninformed(s) \subseteq C(s)
        BY ChildrenFinite DEF C, Uninformed
      <4> QED BY <4>1, FS_Subset
    <3> QED BY <1>6, <3>1, FS_RemoveElement, FS_CardinalityType
  <2>3. HasGiven(s, round[s])'
    BY <1>2, <1>6, <1>9 DEF HasGiven
  <2>4. /\ exposed'[s][1].tensor = Total(s, Nodes)'
        /\ exposed'[s][1].max = Cardinality(C(s)')
    <3>1. /\ exposed'[s][1].tensor = Total(s, Nodes)
          /\ exposed'[s][1].max = Cardinality(C(s))
      BY <1>6, <1>8 DEF ResultExposed
    <3> QED BY <1>2, <1>3, <3>1 DEF Total
  <2>5. /\ exposed'[s][1].count < exposed'[s][1].max
        /\ exposed'[s][1].count + Cardinality(Uninformed(s)') = exposed'[s][1].max
    <3>1. /\ exposed[s][1].count < exposed[s][1].max
          /\ exposed[s][1].count + Cardinality(Uninformed(s)) = exposed[s][1].max
      BY <1>6 DEF ResultExposed
    <3> QED BY <1>8, <2>1, <2>2, <3>1
  <2> QED BY <1>3, <1>5, <2>3, <2>4, <2>5 DEF ResultExposed
<1>13. TreeExposed'
  <2> SUFFICES ASSUME NEW m \in Nodes, NEW j \in DOMAIN exposed'[m], ~(m = s /\ j = 1)
               PROVE  SumExposed(m, j)' \/ ResultExposed(m, j)' \/ (j = 1 /\ C(m)' = {})
    BY <1>12 DEF TreeExposed
  <2>1. j \in DOMAIN exposed[m] /\ exposed'[m][j] = exposed[m][j]
    BY <1>1, <1>8
  <2>2. SumExposed(m, j) \/ ResultExposed(m, j) \/ (j = 1 /\ C(m) = {})
    BY <2>1 DEF TreeInv, TreeExposed
  <2>3. CASE SumExposed(m, j)
    <3>1. HasOffered(m, round[m])'
      BY <1>2, <1>9, <2>3 DEF SumExposed, HasOffered
    <3>2. \A p \in Nodes : HasGathered(p, m, round[m])' => HasGathered(p, m, round[m])
      BY <1>2, <1>9 DEF HasGathered
    <3> QED BY <1>2, <2>1, <2>3, <3>1, <3>2, SumStays
  <2>4. CASE ResultExposed(m, j)
    <3>1. m # s
      BY <2>4 DEF ResultExposed
    <3>2. HasGiven(m, round[m])'
      BY <1>2, <1>9, <2>4 DEF ResultExposed, HasGiven
    <3>3. \A d \in C(m) : HasInformed(d, m, round[m])' <=> HasInformed(d, m, round[m])
      BY <1>2, <1>9, <3>1, ChildIs DEF HasInformed
    <3> QED BY <1>2, <2>1, <2>4, <3>2, <3>3, ResultStays
  <2> QED BY <1>3, <2>2, <2>3, <2>4
<1>14. RequestFits(c, s)'
  <2>1. request'[c][s].tensor = Total(c, Nodes)'
    BY <1>2, <1>7 DEF Total
  <2>2. c \in C(s)'
    BY <1>3, <1>5
  <2> QED BY <1>2, <1>7, <2>1, <2>2 DEF RequestFits
<1>15. \A n \in Nodes : TreeNode(n)'
  BY <1>1, <1>2, <1>4, <1>7, <1>14, ServedNode
<1> QED BY <1>11, <1>13, <1>15 DEF TreeInv

LEMMA ServeTreeR ==
    ASSUME IInv, TInv, TreeInv, NEW c \in Nodes, NEW s \in Nodes, Serve(c, s),
           UNCHANGED nodeVars
    PROVE  TreeInv'
<1>1. request[c][s].phase # "none"
  BY DEF Serve
<1>2. pc[c] = "gather" \/ pc[c] = "receive"
  BY <1>1 DEF TreeInv, TreeNode, RequestFits
<1> QED BY <1>2, ServeSumR, ServeResultR

-----------------------------------------------------------------------------
TrInv == RInv /\ (strategy # "ring" => TreeInv)

LEMMA InitTrInv == Init => TrInv
<1> SUFFICES ASSUME Init PROVE TrInv
  OBVIOUS
<1>1. \A n \in Nodes : pc[n] = "idle" /\ round[n] = 0 /\ exposed[n] = <<>>
      /\ upload[n].phase = "none" /\ \A m \in Nodes : request[n][m].phase = "none"
  BY PhaseOf DEF Init, InitData
<1>2. TreeOrder
  <2>1. \A p, c \in Nodes, r \in Nat : ~HasGathered(p, c, r) /\ ~HasInformed(c, p, r)
    BY <1>1 DEF HasGathered, HasInformed, Gathered, Informed
  <2> QED BY <2>1, ChildIs DEF TreeOrder
<1>3. TreeExposed
  BY <1>1 DEF TreeExposed
<1>4. \A n \in Nodes : TreeNode(n)
  BY <1>1 DEF TreeNode, UploadFits, RequestFits, TensorFits
<1> QED BY <1>2, <1>3, <1>4, InitRInv DEF TrInv, TreeInv

LEMMA NextTrInv == TrInv /\ [Next]_vars => TrInv'
<1> SUFFICES ASSUME TrInv, [Next]_vars PROVE TrInv'
  OBVIOUS
<1>1. RInv /\ RInv' /\ IInv /\ TInv /\ IInv' /\ TInv' /\ strategy' = strategy
  BY NextRInv, StrategyKept DEF TrInv, RInv
<1>2. ASSUME strategy # "ring" PROVE TreeInv'
  <2>0. TreeInv
    BY <1>2 DEF TrInv
  <2>1. ASSUME NEW n \in Nodes, BeginRing(n) \/ FailRing(n) \/ StartCycle(n) \/ EndCycle(n)
        PROVE  FALSE
    BY <1>1, <1>2, <2>1 DEF BeginRing, FailRing, StartCycle, EndCycle, TInv, LabelsFit
  <2>2. ASSUME NEW n \in Nodes, BeginTree(n) \/ EndGather(n) \/ Give(n) \/ EndGive(n)
        PROVE  TreeInv'
    BY <1>1, <2>0, <2>2, BeginTreeR, EndGatherR, GiveR, EndGiveR
  <2>3. ASSUME NEW n \in Nodes, NEW m \in Nodes, Gather(n, m) \/ AskParent(n, m) \/ Receive(n, m)
        PROVE  TreeInv'
    BY <1>1, <2>0, <2>3, GatherR, AskParentR, ReceiveR
  <2>4. ASSUME NEW n \in Nodes, Sync(n) \/ Return(n) PROVE TreeInv'
    BY <1>1, <2>0, <2>4, SyncTreeR, ReturnTreeR
  <2>5. CASE DataStep /\ UNCHANGED <<nodeVars, syncVars>>
    <3>0. UNCHANGED <<strategy, pc, round, tensor>> /\ UNCHANGED nodeVars
      BY <2>5 DEF nodeVars
    <3>1. ASSUME NEW s \in Nodes, Insert(s) PROVE TreeInv'
      BY <1>1, <2>0, <3>0, <3>1, InsertTreeR
    <3>2. ASSUME NEW s \in Nodes, NotifyTensor(s) PROVE TreeInv'
      <4>1. /\ exposed' = exposed /\ \A n, m \in Nodes : SameRequest(n, m)
            /\ upload[s].phase = "notify" /\ upload'[s].phase = "none"
            /\ \A m \in Nodes \ {s} : upload'[m] = upload[m]
        BY <1>1, <3>2, NotifyIs, PhaseOf DEF TInv
      <4> QED BY <1>1, <2>0, <3>0, <4>1, TreeWaits
    <3>3. ASSUME NEW c \in Nodes, NEW s \in Nodes, Serve(c, s) PROVE TreeInv'
      BY <1>1, <2>0, <3>0, <3>3, ServeTreeR
    <3>4. ASSUME NEW c \in Nodes, NEW s \in Nodes, Miss(c, s) \/ Await(c, s) PROVE TreeInv'
      <4>1. UNCHANGED <<exposed, upload>> /\ \A n, m \in Nodes : SameRequest(n, m)
        BY <1>1, <3>4, MissIs DEF TInv
      <4> QED BY <1>1, <2>0, <3>0, <4>1, TreeWaits
    <3> QED BY <2>5, <3>1, <3>2, <3>3, <3>4 DEF DataStep
  <2>6. CASE UNCHANGED <<nodeVars, dataVars>>
    <3>1. UNCHANGED <<strategy, pc, round, tensor, exposed, upload, request>>
      BY <2>6 DEF nodeVars, dataVars
    <3>2. \A n, m \in Nodes : SameRequest(n, m)
      BY <3>1 DEF SameRequest
    <3> QED BY <1>1, <2>0, <3>1, <3>2, TreeWaits
  <2> QED BY <2>1, <2>2, <2>3, <2>4, <2>5, <2>6 DEF Next, vars
<1> QED BY <1>1, <1>2 DEF TrInv

LEMMA TreeInvariant == Spec => []TrInv
BY InitTrInv, NextTrInv, PTL DEF Spec

(* A global all-reduce, of any number of nodes, with every strategy: the   *)
(* node that comes to the barrier has the sum of the inputs of all nodes   *)
(* of the same all-reduce, each added once.                                *)
THEOREM SumAlwaysComplete == Spec => []SumIsComplete
<1>1. ASSUME TrInv, strategy # "ring" PROVE SumIsComplete
  <2>1. \A n \in Nodes : TensorFits(n)
    BY <1>1 DEF TrInv, TreeInv, TreeNode
  <2> QED BY <1>1, <2>1 DEF SumIsComplete, TensorFits, Total, Slices
<1>2. TrInv => SumIsComplete
  BY <1>1, RingComplete DEF TrInv
<1> QED BY <1>2, TreeInvariant, PTL

(* Of two or more nodes, no node ever exposes a tensor over one that is    *)
(* still to be downloaded: not in an all-reduce, and not in the next one,  *)
(* with the same transfer ids.  A single node with the centralized         *)
(* strategy does: it exposes the result for nobody, and finds it there in  *)
(* its next all-reduce.                                                    *)
THEOREM NothingEverOverwritten == ASSUME N > 1 PROVE Spec => []NothingOverwritten
<1>1. ASSUME TrInv, strategy # "ring" PROVE NothingOverwritten
  <2> SUFFICES ASSUME NEW s \in Nodes, upload[s].phase = "insert",
                      upload[s].id \in DOMAIN exposed[s]
               PROVE  FALSE
    BY DEF NothingOverwritten
  <2>0. TreeInv /\ round[s] \in Nat
    BY <1>1 DEF TrInv, RInv, TInv, NodeTypes
  <2>1. UploadFits(s)
    BY <2>0 DEF TreeInv, TreeNode
  <2>2. CASE pc[s] = "offer"
    <3>1. upload[s].id = 0
      BY <2>1, <2>2 DEF UploadFits
    <3>2. SumExposed(s, 0)
      <4>1. SumExposed(s, 0) \/ ResultExposed(s, 0)
        BY <2>0, <3>1 DEF TreeInv, TreeExposed
      <4> QED BY <4>1 DEF ResultExposed
    <3> QED BY <2>0, <2>2, <3>2 DEF SumExposed, HasOffered, Offered
  <2>3. CASE pc[s] = "given"
    <3>1. upload[s].id = 1 /\ C(s) # {}
      BY <2>1, <2>3 DEF UploadFits
    <3>2. ResultExposed(s, 1)
      <4>1. SumExposed(s, 1) \/ ResultExposed(s, 1)
        BY <2>0, <3>1 DEF TreeInv, TreeExposed
      <4> QED BY <4>1 DEF SumExposed
    <3> QED BY <2>0, <2>3, <3>2 DEF ResultExposed, HasGiven, Gave
  <2> QED BY <2>1, <2>2, <2>3 DEF UploadFits
<1>2. TrInv => NothingOverwritten
  BY <1>1, RingKeeps DEF TrInv
<1> QED BY <1>2, TreeInvariant, PTL
=============================================================================
