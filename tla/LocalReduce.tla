----------------------------- MODULE LocalReduce -----------------------------
(***************************************************************************)
(* The reductions between the devices of one node (burn-collective/src/    *)
(* local/{all_reduce,reduce}): a tree, a central device, and a ring.       *)
(*                                                                         *)
(* A tensor is the sequence of its elements, an element the bag of the     *)
(* inputs that were added to it, so that an input added twice, or lost,    *)
(* shows.  The tensors of a reduction are a sequence: the code sorts them  *)
(* by device, or takes them in the order of a hash map.                    *)
(***************************************************************************)
EXTENDS Naturals, Sequences, Bags, SequencesExt

(* A tensor of n elements that is one input.                               *)
Whole(input, n) == [k \in 1..n |-> SetToBag({input})]

(* float_add.                                                              *)
Add(a, b) == [k \in DOMAIN a |-> a[k] (+) b[k]]

(* The tensors are added to the first, one after the other.                *)
Sum(tensors) ==
    LET acc[i \in 1 .. Len(tensors)] ==
            IF i = 1 THEN tensors[1] ELSE Add(acc[i - 1], tensors[i])
    IN  acc[Len(tensors)]

-----------------------------------------------------------------------------
(* tree.rs.  Groups of one parent and `arity' children, a shorter one last. *)
Groups(tensors, arity) ==
    [g \in 1 .. (Len(tensors) + arity) \div (arity + 1) |->
        SubSeq(tensors, (g - 1) * (arity + 1) + 1,
               IF g * (arity + 1) < Len(tensors) THEN g * (arity + 1) ELSE Len(tensors))]

(* reduce_sum_tree_inner: each parent adds the tensors of its children; the *)
(* parents are the tensors of the next level, until one is left.           *)
TreeSum(tensors, arity) ==
    LET level[i \in 0 .. Len(tensors)] ==
            IF i = 0 THEN tensors
            ELSE LET parents == Groups(level[i - 1], arity)
                 IN  [g \in DOMAIN parents |-> Sum(parents[g])]
    IN  Head(level[Len(tensors)])

(* all_reduce_sum_tree and all_reduce_sum_centralized: the sum goes back   *)
(* the way the tensors came.                                               *)
AllReduceTree(tensors, arity) == [i \in DOMAIN tensors |-> TreeSum(tensors, arity)]
AllReduceCentralized(tensors) == [i \in DOMAIN tensors |-> Sum(tensors)]

-----------------------------------------------------------------------------
(* ring.rs.  get_ring_reduce_slice_ranges: where each slice starts and ends. *)

(* Mutant of SliceRanges: the width is not rounded up but one more.        *)
SliceRanges_Wider(size, count) ==
    LET width == size \div count + 1
    IN  [i \in 1..count |-> [start |-> (i - 1) * width,
                             end |-> IF i = count THEN size ELSE i * width]]

(* The slices have the same width, the last one ends with the tensor.      *)
SliceRanges(size, count) ==
    LET width == (size + count - 1) \div count
    IN  [i \in 1..count |-> [start |-> (i - 1) * width,
                             end |-> IF i = count THEN size ELSE i * width]]

(* A slice that is not within the tensor is a panic: 5 elements cannot be  *)
(* cut in 4 slices.                                                        *)
CanSlice(size, count) ==
    \A i \in 1..count : LET r == SliceRanges(size, count)[i]
                        IN  r.start <= r.end /\ r.end <= size

CanCut(tensors) ==
    Len(Head(tensors)) < Len(tensors) \/ CanSlice(Len(Head(tensors)), Len(tensors))

(* slice_tensors.                                                          *)
SliceTensors(tensors) ==
    [t \in DOMAIN tensors |-> [i \in DOMAIN tensors |->
        LET r == SliceRanges(Len(tensors[t]), Len(tensors))[i]
        IN  SubSeq(tensors[t], r.start + 1, r.end)]]

(* The slice that device i passes on in a cycle: in the second phase, all  *)
(* start with the one they have the sum of.                                *)
(* Mutant of SliceToPass: the second phase starts like the first.          *)
SliceToPass_SameStart(n, phase, cycle, i) == (i + (n - 1) * cycle) % n
SliceToPass(n, phase, cycle, i) ==
    IF phase = 1 THEN (i + (n - 1) * cycle) % n ELSE (i + 1 + (n - 1) * cycle) % n

(* Device i passes it to the next one, which adds it in the first phase,   *)
(* and replaces its own in the second.                                     *)
PassSlice(sliced, phase, cycle, i) ==
    LET n == Len(sliced)
        k == SliceToPass(n, phase, cycle, i) + 1
        sent == sliced[i + 1][k]
    IN  [sliced EXCEPT ![((i + 1) % n) + 1][k] = IF phase = 1 THEN Add(@, sent) ELSE sent]

(* ring_cycles: n - 1 cycles, in each of which every device passes one.    *)
RingCycles(sliced, phase) ==
    LET n == Len(sliced)
        run[j \in 0 .. n * (n - 1)] ==
            IF j = 0 THEN sliced ELSE PassSlice(run[j - 1], phase, (j - 1) \div n, (j - 1) % n)
    IN  run[n * (n - 1)]

(* all_reduce_sum_ring: with fewer elements than devices, a binary tree.   *)
AllReduceRing(tensors) ==
    IF Len(Head(tensors)) < Len(tensors) THEN AllReduceTree(tensors, 2)
    ELSE LET sliced == RingCycles(RingCycles(SliceTensors(tensors), 1), 2)
         IN  [t \in DOMAIN sliced |-> FlattenSeq(sliced[t])]

-----------------------------------------------------------------------------
(* all_reduce_local_only, without the division of a mean.                  *)
AllReduceSum(strategy, tensors) ==
    CASE strategy = "ring" -> AllReduceRing(tensors)
      [] strategy = "tree" -> AllReduceTree(tensors, 2)
      [] strategy = "centralized" -> AllReduceCentralized(tensors)
=============================================================================
