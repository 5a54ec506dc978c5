---------------------------- MODULE GlobalTopology ----------------------------
(***************************************************************************)
(* The nodes of a global all-reduce and who exchanges tensors with whom:   *)
(* the topologies of burn-collective/src/global/node/{ring,tree,           *)
(* centralized}.rs.  The ids of the nodes are consecutive, and the code    *)
(* sorts them, so that a node is its own position.                         *)
(***************************************************************************)
EXTENDS Naturals, FiniteSets

CONSTANTS N,     \* the number of nodes
          Arity  \* of the tree

ASSUME TopologyAssumption == N \in Nat \ {0} /\ Arity \in Nat \ {0}

Nodes == 0 .. N - 1

Strategies == {"ring", "tree", "centralized"}

(* The node that centralized all-reduces gather at. *)
Central == 0

(* The nodes whose tensors a node gathers, and that get the sum from it.  *)
(* A centralized all-reduce is the tree of one level.                     *)
Children(strategy, n) ==
    IF strategy = "tree" THEN {c \in Nodes : n * Arity < c /\ c <= n * Arity + Arity}
    ELSE IF n = Central THEN Nodes \ {Central} ELSE {}

ParentsOf(strategy, n) == {p \in Nodes : n \in Children(strategy, p)}

(* The node a node downloads from in a ring. *)
Previous(n) == (n + N - 1) % N

(* The slice a node sends in cycle k of a ring: its own first, then always *)
(* the one it has just received.                                           *)
SendSlice(n, k) == (n + 2 * N - k) % N

RecvSlice(n, k) == (SendSlice(n, k) + N - 1) % N

Cycles == 2 * (N - 1)

(* Whether a dimension of a size can be cut into one slice per node: the   *)
(* slices have the same width, except the last, which ends with the tensor *)
(* and must not begin beyond its end.                                      *)
CanCut(size) == size >= N /\ (N - 1) * ((size + N - 1) \div N) <= size

(* The slices a tensor is cut into. *)
Slices(strategy) == IF strategy = "ring" THEN Nodes ELSE {0}
=============================================================================
