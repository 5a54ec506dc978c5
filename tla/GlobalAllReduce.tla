--------------------------- MODULE GlobalAllReduce ---------------------------
(***************************************************************************)
(* All-reduce between nodes (burn-collective/src/global/node): base.rs,    *)
(* with the strategies ring.rs, tree.rs and centralized.rs, over the data  *)
(* service and the barrier.  Transfer ids start at 0 in every all-reduce:  *)
(* what keeps two all-reduces apart is the barrier between them.           *)
(*                                                                         *)
(* A slice of a tensor is given by how often the input of each node, of    *)
(* each round, has been added to it.  The tensors of a round have the same *)
(* shape; of all dimensions only the one a ring cuts has a size.           *)
(***************************************************************************)
EXTENDS DataService, SyncService

CONSTANTS MaxRounds,  \* bound: all-reduces a node calls
          Sizes       \* of the tensors: the dimension that a ring cuts

ASSUME RoundsAssumption == MaxRounds \in Nat
ASSUME SizesAssumption == Sizes \subseteq Nat

VARIABLES strategy,  \* the same for all nodes
          pc,        \* pc[n]: where the all-reduce of node n is
          round,     \* round[n]: all-reduces that have returned
          cycle,     \* cycle[n]: of the ring
          tensor     \* tensor[n]: by slice

nodeVars == <<strategy, pc, round, cycle, tensor>>
vars == <<nodeVars, dataVars, syncVars>>

Inputs == (1 .. MaxRounds) \X Nodes

Slice == [Inputs -> Nat]

(* The slice that is the sum of some inputs. *)
SumOf(inputs) == [i \in Inputs |-> IF i \in inputs THEN 1 ELSE 0]

Plus(a, b) == [i \in Inputs |-> a[i] + b[i]]

-----------------------------------------------------------------------------
Init ==
    /\ InitData
    /\ InitSync
    /\ strategy \in Strategies
    /\ pc = [n \in Nodes |-> "idle"]
    /\ round = [n \in Nodes |-> 0]
    /\ cycle = [n \in Nodes |-> 0]
    /\ tensor = [n \in Nodes |-> [k \in Slices(strategy) |-> SumOf({})]]

Goto(n, l) == pc' = [pc EXCEPT ![n] = l]

(* Mutant of CycleLabel: one cycle too many. *)
CycleLabel_OneMore(k) == IF k <= Cycles THEN "cycle" ELSE "sync"

(* Where a node of a ring is before cycle k. *)
CycleLabel(k) == IF k < Cycles THEN "cycle" ELSE "sync"

(* A node calls all-reduce with its own tensor. *)
BeginRing(n) ==
    /\ pc[n] = "idle" /\ round[n] < MaxRounds
    /\ strategy = "ring"
    /\ \E size \in Sizes : CanCut(size)
    /\ tensor' = [tensor EXCEPT ![n] =
                     [k \in Slices(strategy) |-> SumOf({<<round[n] + 1, n>>})]]
    /\ cycle' = [cycle EXCEPT ![n] = 0]
    /\ Goto(n, CycleLabel(0))
    /\ UNCHANGED <<strategy, round, dataVars, syncVars>>

(* A tensor that cannot be cut: smaller than the number of nodes, the call *)
(* returns an error and has changed nothing; otherwise taking the slices   *)
(* panics, since the last range ends before it begins.                     *)
FailRing(n) ==
    /\ pc[n] = "idle" /\ round[n] < MaxRounds
    /\ strategy = "ring"
    /\ \E size \in Sizes :
          /\ ~CanCut(size)
          /\ Goto(n, IF size < N THEN "idle" ELSE "panicked")
    /\ UNCHANGED <<strategy, round, cycle, tensor, dataVars, syncVars>>

(* In a tree it first downloads the tensors of all its children. *)
BeginTree(n) ==
    /\ pc[n] = "idle" /\ round[n] < MaxRounds
    /\ strategy # "ring"
    /\ tensor' = [tensor EXCEPT ![n] =
                     [k \in Slices(strategy) |-> SumOf({<<round[n] + 1, n>>})]]
    /\ request' = [request EXCEPT ![n] =
                      [s \in Nodes |-> IF s \in Children(strategy, n) THEN Asked(0) ELSE @[s]]]
    /\ Goto(n, "gather")
    /\ UNCHANGED <<strategy, round, cycle, exposed, upload, syncVars>>

-----------------------------------------------------------------------------
(* A cycle of the ring: one task exposes a slice, another downloads one. *)
StartCycle(n) ==
    /\ pc[n] = "cycle"
    /\ LET k == cycle[n]
       IN  /\ upload' = [upload EXCEPT ![n] = Upload(k, tensor[n][SendSlice(n, k)], 1)]
           /\ request' = [request EXCEPT ![n][Previous(n)] = Asked(k)]
    /\ Goto(n, "transfer")
    /\ UNCHANGED <<strategy, round, cycle, tensor, exposed, syncVars>>

(* Mutant of Received: the first phase is one cycle too long. *)
Received_AddsOnceMore(k, old, new) == IF k < N THEN Plus(old, new) ELSE new

(* The slice received is added in the first phase, and replaces the old    *)
(* one in the second.                                                      *)
Received(k, old, new) == IF k < N - 1 THEN Plus(old, new) ELSE new

(* Both tasks are done. *)
EndCycle(n) ==
    /\ pc[n] = "transfer"
    /\ upload[n].phase = "none"
    /\ LET k == cycle[n]
           r == request[n][Previous(n)]
       IN  /\ r.phase = "reply"
           /\ tensor' = [tensor EXCEPT ![n][RecvSlice(n, k)] = Received(k, @, r.tensor)]
           /\ cycle' = [cycle EXCEPT ![n] = k + 1]
           /\ Goto(n, CycleLabel(k + 1))
    /\ request' = [request EXCEPT ![n][Previous(n)] = NoRequest]
    /\ UNCHANGED <<strategy, round, exposed, upload, syncVars>>

-----------------------------------------------------------------------------
(* A tree: the tensor of a child has come. *)
Gather(n, c) ==
    /\ pc[n] = "gather"
    /\ c \in Children(strategy, n)
    /\ request[n][c].phase = "reply"
    /\ tensor' = [tensor EXCEPT ![n][0] = Plus(@, request[n][c].tensor)]
    /\ request' = [request EXCEPT ![n][c] = NoRequest]
    /\ UNCHANGED <<strategy, pc, round, cycle, exposed, upload, syncVars>>

(* With those of all children added, the sum is exposed for the parent. *)
EndGather(n) ==
    /\ pc[n] = "gather"
    /\ \A c \in Nodes : request[n][c].phase = "none"
    /\ IF ParentsOf(strategy, n) # {}
       THEN /\ upload' = [upload EXCEPT ![n] = Upload(0, tensor[n][0], 1)]
            /\ Goto(n, "offer")
       ELSE /\ UNCHANGED upload
            /\ Goto(n, "give")
    /\ UNCHANGED <<strategy, round, cycle, tensor, exposed, request, syncVars>>

(* Once it is exposed, the node asks the parent for the result. *)
AskParent(n, p) ==
    /\ pc[n] = "offer"
    /\ upload[n].phase = "none"
    /\ p \in ParentsOf(strategy, n)
    /\ request' = [request EXCEPT ![n][p] = Asked(1)]
    /\ Goto(n, "receive")
    /\ UNCHANGED <<strategy, round, cycle, tensor, exposed, upload, syncVars>>

Receive(n, p) ==
    /\ pc[n] = "receive"
    /\ p \in ParentsOf(strategy, n)
    /\ request[n][p].phase = "reply"
    /\ tensor' = [tensor EXCEPT ![n][0] = request[n][p].tensor]
    /\ request' = [request EXCEPT ![n][p] = NoRequest]
    /\ Goto(n, "give")
    /\ UNCHANGED <<strategy, round, cycle, exposed, upload, syncVars>>

(* The result is exposed for all children, if there are any. *)
Give(n) ==
    /\ pc[n] = "give"
    /\ LET children == Children(strategy, n)
       IN  IF children # {} \/ (strategy = "centralized" /\ n = Central)
           THEN /\ upload' = [upload EXCEPT ![n] =
                                 Upload(1, tensor[n][0], Cardinality(children))]
                /\ Goto(n, "given")
           ELSE /\ UNCHANGED upload
                /\ Goto(n, "sync")
    /\ UNCHANGED <<strategy, round, cycle, tensor, exposed, request, syncVars>>

EndGive(n) ==
    /\ pc[n] = "given"
    /\ upload[n].phase = "none"
    /\ Goto(n, "sync")
    /\ UNCHANGED <<strategy, round, cycle, tensor, dataVars, syncVars>>

-----------------------------------------------------------------------------
(* The barrier. *)
Sync(n) ==
    /\ pc[n] = "sync"
    /\ StartSync(n, round[n] + 1)
    /\ Goto(n, "barrier")
    /\ UNCHANGED <<strategy, round, cycle, tensor, dataVars>>

(* All-reduce returns. *)
Return(n) ==
    /\ pc[n] = "barrier"
    /\ EndSync(n)
    /\ round' = [round EXCEPT ![n] = @ + 1]
    /\ Goto(n, "idle")
    /\ UNCHANGED <<strategy, cycle, tensor, dataVars>>

Next ==
    \/ \E n \in Nodes :
          \/ BeginRing(n) \/ FailRing(n) \/ StartCycle(n) \/ EndCycle(n)
          \/ BeginTree(n) \/ EndGather(n) \/ Give(n) \/ EndGive(n)
          \/ \E m \in Nodes : Gather(n, m) \/ AskParent(n, m) \/ Receive(n, m)
          \/ Sync(n) \/ Return(n)
    \/ DataStep /\ UNCHANGED <<nodeVars, syncVars>>
    \/ SyncStep /\ UNCHANGED <<nodeVars, dataVars>>

Spec == Init /\ [][Next]_vars

-----------------------------------------------------------------------------
Labels == {"idle", "cycle", "transfer", "gather", "offer", "receive", "give", "given",
           "sync", "barrier", "panicked"}

(* Type invariant. *)
TypeOK ==
    /\ strategy \in Strategies
    /\ pc \in [Nodes -> Labels]
    /\ round \in [Nodes -> 0 .. MaxRounds]
    /\ cycle \in [Nodes -> 0 .. Cycles]
    /\ tensor \in [Nodes -> [Slices(strategy) -> Slice]]
    /\ \A s \in Nodes :
          /\ DOMAIN exposed[s] \subseteq Nat
          /\ \A i \in DOMAIN exposed[s] :
                exposed[s][i] \in [tensor : Slice, max : Nat, count : Nat]
          /\ upload[s] = NoUpload
             \/ upload[s] \in [phase : {"insert", "notify"}, id : Nat, tensor : Slice, max : Nat]
          /\ \A c \in Nodes :
                request[c][s] \in {NoRequest}
                    \cup [phase : {"check", "missed", "wait"}, id : Nat]
                    \cup [phase : {"reply"}, tensor : Slice]
    /\ syncing \in [Nodes -> [Nodes -> Nat]]
    /\ syncer \in [Nodes -> {"none", "check", "missed", "wait"}]
    /\ notices \subseteq [from : Nodes, to : Nodes, nth : 1 .. MaxRounds]

(* A node that comes to the barrier has the sum of the inputs of all nodes *)
(* of the same all-reduce, each added once, in every slice: the transfers  *)
(* of ring, tree and centralized all-reduces are complete, nothing is      *)
(* added twice, and no tensor of an earlier all-reduce is taken for one of *)
(* this, although both have the same transfer ids.                         *)
SumIsComplete ==
    \A n \in Nodes : pc[n] \in {"sync", "barrier"} =>
        \A k \in Slices(strategy) : tensor[n][k] = SumOf({round[n] + 1} \X Nodes)

(* The barrier: while a node is still in an all-reduce, no other has left  *)
(* it, unless the node has come to the barrier.                            *)
NoEarlyLeave ==
    \A n, m \in Nodes : round[n] > round[m] =>
        pc[m] = "barrier" /\ round[n] = round[m] + 1

(* All of this implements what a global all-reduce promises.               *)
Phase == [n \in Nodes |->
    CASE pc[n] \in {"idle", "panicked"} -> "idle"
      [] pc[n] = "barrier" -> "barrier"
      [] OTHER -> "reducing"]

Barrier == INSTANCE GlobalBarrier WITH phase <- Phase

(* A global all-reduce returns when all nodes have come to the end of theirs. *)
ImplementsBarrier == Barrier!SpecBarrier

(* Exposing a tensor never overwrites one that has not been downloaded as  *)
(* often as it is meant to be.                                             *)
NothingOverwritten ==
    \A s \in Nodes : upload[s].phase = "insert" => upload[s].id \notin DOMAIN exposed[s]

(* "At least one dimension size must be greater than the number of nodes"  *)
(* (ring.rs:49) is all that a ring asks of a tensor: given that, no call   *)
(* panics, and the others wait for no dead node.                           *)
BigTensorsReduced ==
    (\A size \in Sizes : size > N) => \A n \in Nodes : pc[n] # "panicked"

(* "The number of peers that have requested to sync with us since the last *)
(* successful sync" (sync.rs:17): a node that is in no all-reduce has not  *)
(* requested anything of itself since.                                     *)
ListIsOfThisSync ==
    \A n \in Nodes : pc[n] = "idle" => syncing[n][n] = 0
=============================================================================
