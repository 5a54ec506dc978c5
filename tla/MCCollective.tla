----------------------------- MODULE MCCollective -----------------------------
(***************************************************************************)
(* Two nodes: four peers on one, of which a program may use fewer, and one *)
(* on the other.                                                           *)
(***************************************************************************)
EXTENDS Collective

CONSTANTS a, b,           \* nodes
          a1, a2, a3, a4, b1  \* peers

MCNodes == {a, b}
MCPeers == {a1, a2, a3, a4, b1}
MCNodeOf == (b1 :> b) @@ [p \in MCPeers |-> a]

(* What some peers call, and the others nothing. *)
Only(calling, f(_)) == [p \in MCPeers |-> IF p \in calling THEN f(p) ELSE <<>>]

(* One node: all operations, with every local strategy, with tensors that  *)
(* a ring can cut evenly, unevenly and not at all.                         *)
LocalPrograms ==
    {LET c == Config(Cardinality(calling), 0, strategy)
     IN  Only(calling, LAMBDA p :
             <<Register(c), AllReduce(op, size), Reduce("mean", 1, a2),
               Broadcast(p = a1, 1), AllReduce("sum", size), Finish>>) :
        calling \in {{a1, a2}, {a1, a2, a3}},
        strategy \in {"ring", "tree", "centralized"}, op \in {"sum", "mean"}, size \in {2, 3, 4}}

(* Two nodes, that all-reduce twice. *)
GlobalPrograms ==
    {Only({a1, a2, b1}, LAMBDA p :
        LET c == Config(IF p = b1 THEN 1 ELSE 2, 2, strategy)
        IN  <<Register(c), AllReduce("mean", 2), AllReduce("sum", 2), Finish>>) :
        strategy \in {"ring", "tree"}}

(* Two peers of one node that each do what they want, twice.               *)
Free == {AllReduce("sum", 1), AllReduce("mean", 1), AllReduce("sum", 2), Broadcast(TRUE, 1),
         Broadcast(FALSE, 1), Register(Config(2, 0, "tree")), Register(Config(3, 0, "tree")), Finish}
Reductions == {Reduce("sum", 1, a1), Reduce("sum", 1, a2), Reduce("mean", 1, a1), Broadcast(TRUE, 1)}

FreePrograms ==
    LET register == Register(Config(2, 0, "tree"))
        of(x, y) == Only({a1, a2}, LAMBDA p : <<register>> \o (IF p = a1 THEN x ELSE y))
    IN  {of(x, y) : x \in [1..2 -> Free], y \in [1..2 -> Free]}
        \cup {of(x, y) : x \in [1..2 -> Reductions], y \in [1..2 -> Reductions]}
        \cup {of(<<Finish, x>>, <<y, Finish>>) : x \in Reductions, y \in Reductions}
        \cup {of(<<x, Reset, register, y>>, <<z, register, y>>) : x \in Free, y \in Free, z \in Free}

(* Configurations that are not valid, or not the same, on a node or on two; *)
(* a node that resets its server, and registers a second time.             *)
RefusedPrograms ==
    {Only({a1, b1}, LAMBDA p : IF p = b1 THEN x ELSE
        <<Register(Config(1, 2, "tree")), AllReduce("sum", 1), Reset,
          Register(Config(1, 2, "tree")), AllReduce("sum", 1), Finish>>) :
        x \in {<<Register(Invalid(Config(1, 2, "tree"))), Register(Config(1, 3, "tree")),
                 AllReduce("sum", 1), Finish>>,
               <<Register(Config(1, 2, "tree")), AllReduce("sum", 1), Finish>>}}

(* One peer leaves while the other has called. *)
LeavePrograms ==
    {Only({a1, a2}, LAMBDA p : <<Register(Config(2, 0, "tree")),
                                 IF p = a1 THEN AllReduce("sum", 1) ELSE Finish>>)}

(* Reduce, with a peer that is not registered, and one that may leave.     *)
StrangerPrograms ==
    {Only({a1, a2, a3}, LAMBDA p :
        IF p = a3 THEN <<Reduce("sum", 1, a1)>>
        ELSE <<Register(Config(2, 0, "tree")), IF p = a2 THEN x ELSE Reduce("sum", 1, a1)>>) :
        x \in {Reduce("sum", 1, a1), Finish}}

(* A node that registers between nodes, and after a reset without others.  *)
AlonePrograms ==
    {Only({a1, b1}, LAMBDA p :
        <<Register(Config(1, 2, "tree")), Reset, Register(Config(1, 0, "tree")), x>>) :
        x \in {AllReduce("sum", 1), Reduce("sum", 1, a1), Broadcast(TRUE, 1)}}

(* 5 elements cannot be cut in 4 slices of 2. *)
RingPrograms ==
    {Only({a1, a2, a3, a4}, LAMBDA p : <<Register(Config(4, 0, "ring")), AllReduce("sum", 5), Finish>>)}

(* Two nodes that leave and register again. *)
AgainPrograms ==
    {Only({a1, b1}, LAMBDA p :
        LET c == Config(1, 2, "tree")
        IN  <<Register(c), AllReduce("sum", 1), Finish, Register(c)>>)}

MCNone == {}
MCCoherent == LocalPrograms \cup GlobalPrograms
MCOther ==
    FreePrograms \cup RefusedPrograms \cup LeavePrograms \cup StrangerPrograms
    \cup AlonePrograms \cup RingPrograms \cup AgainPrograms
=============================================================================
