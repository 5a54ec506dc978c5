--------------------------- MODULE AutodiffServer ---------------------------
(***************************************************************************)
(* One autodiff graph of burn-autodiff: the server that stores the         *)
(* backward steps of its nodes, and the memory management that frees the   *)
(* steps no backward pass can need any more                                *)
(* (crates/burn-autodiff/src/runtime/server.rs, memory_management.rs).     *)
(*                                                                         *)
(* A server is a record:                                                   *)
(*   origin  the node it was created for (Graph.origin)                    *)
(*   steps   nodes whose backward step is stored (steps, actions_builder)  *)
(*   nodes   nodes the memory management knows (nodes)                     *)
(*   leaves  nodes without a child when they were registered (leaves)      *)
(*   holder  the thread that holds its mutex, or NoThread                  *)
(* The parents of a node never change and are kept once, in `parents'.     *)
(* Node ids come from a counter, so parents are smaller than children.     *)
(*                                                                         *)
(* Abstracted: tensors, gradients and checkpoint actions; only tensors     *)
(* that require gradients are nodes.                                       *)
(***************************************************************************)
EXTENDS Integers, Sequences, FiniteSets, Functions

CONSTANTS
    Threads,        \* threads of the program
    NoThread        \* nobody holds the mutex

ASSUME NoThreadAssumption == NoThread \notin Threads

VARIABLES
    parents,        \* the nodes created so far, each a set of parent nodes
    held            \* per thread, the nodes it has tensors of

Created == 1..Len(parents)

(* A tensor of the node exists (the count of its NodeRefCount is above 1). *)
Referenced(n) == \E t \in Threads : n \in held[t]

NewServer(origin) ==
    [origin |-> origin, steps |-> {}, nodes |-> {}, leaves |-> {},
     holder |-> NoThread]

(* The nodes met when walking to parents from start, where only the        *)
(* parents of nodes in `through' are looked up.                            *)
Follow(start, through) ==
    LET above[n \in Created] ==
            {n} \cup (IF n \in through
                      THEN UNION {above[p] : p \in parents[n]} ELSE {})
    IN  UNION {above[n] : n \in start}

-----------------------------------------------------------------------------
(* The server stores a node; its parents are no leaves any more. *)
RegisterNode(server, n) ==
    [server EXCEPT !.steps  = @ \cup {n},
                   !.nodes  = @ \cup {n},
                   !.leaves = (@ \ parents[n]) \cup {n}]

Extend(server, other) ==
    [server EXCEPT !.steps  = @ \cup other.steps,
                   !.nodes  = @ \cup other.nodes,
                   !.leaves = @ \cup other.leaves]

(* Mutant: the server that is merged keeps what it had. *)
Emptied_Copied(server) == server

(* What a merge leaves in the merged server. *)
Emptied(server) ==
    [server EXCEPT !.steps = {}, !.nodes = {}, !.leaves = {}]

(* Mutant: the traversal stops at nodes without a tensor. *)
Visited_HeldOnly(server, root) ==
    Follow({root}, {n \in server.steps : n = root \/ Referenced(n)}) \cap server.steps

(* The nodes whose steps a backward pass from root takes and executes. *)
Visited(server, root) == Follow({root}, server.steps) \cap server.steps

(* Their steps are removed; a node stays known while it has a tensor. *)
Consume(server, visited) ==
    LET unreferenced == {n \in visited : ~Referenced(n)}
    IN  [server EXCEPT !.steps  = @ \ visited,
                       !.nodes  = @ \ unreferenced,
                       !.leaves = @ \ unreferenced]

(* The node, or an ancestor of it, is not known any more. *)
Unavailable(server, n) == Follow({n}, server.nodes) \notin SUBSET server.nodes

(* Mutant: a node is useful only if it has a tensor itself. *)
Useful_HeldOnly(server) ==
    {n \in Follow(server.leaves, server.nodes) :
        ~Unavailable(server, n) /\ Referenced(n)}

(* The available nodes with a tensor, and what their backward passes need. *)
Useful(server) ==
    server.nodes \cap
        Follow({n \in Follow(server.leaves, server.nodes) :
                    ~Unavailable(server, n) /\ Referenced(n)},
               server.nodes)

(* Roots without a tensor; `useful' is the set of nodes known to be useful. *)
UnusedRoots(server, useful) ==
    {n \in server.nodes \ useful :
        ~Referenced(n) /\ parents[n] \cap server.nodes = {}}

(* Nodes from the leaves to the first useful ones, these excluded. *)
Useless(server) ==
    Follow(server.leaves, server.nodes \ Useful(server)) \ Useful(server)

(* Mutant: descendants without a tensor are kept. *)
Unneeded_RootsOnly(server) == UnusedRoots(server, Useful(server))

(* The nodes that free_unavailable_nodes deletes. *)
Unneeded(server) == Useless(server) \cup UnusedRoots(server, Useful(server))

(* Mutant: the steps of deleted nodes are kept. *)
Forget_KeepsSteps(server, nodes) == [server EXCEPT !.nodes = @ \ nodes]

Forget(server, nodes) ==
    [server EXCEPT !.steps = @ \ nodes, !.nodes = @ \ nodes]

(* free_unavailable_nodes: the new leaves are the first useful nodes. *)
FreeUnavailable(server) ==
    LET useful == Useful(server)
        leaves == Follow(server.leaves, server.nodes \ useful) \cap useful
    IN  [Forget(server, Unneeded(server)) EXCEPT !.leaves = leaves]

MaybeUseful(server) == \E n \in server.nodes : Referenced(n)
=============================================================================
