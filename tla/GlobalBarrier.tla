---------------------------- MODULE GlobalBarrier ----------------------------
(***************************************************************************)
(* What a global all-reduce promises about when it returns: a node leaves  *)
(* its k-th all-reduce once all nodes have come to the end of theirs.      *)
(* GlobalAllReduce, with its transfers and its barrier, implements this    *)
(* specification; Collective builds the local servers on top of it.        *)
(***************************************************************************)
EXTENDS Naturals

CONSTANT Nodes

VARIABLES phase,  \* phase[n]: where the all-reduce of node n is
          round   \* round[n]: all-reduces node n has left

barrierVars == <<phase, round>>

InitBarrier ==
    /\ phase = [n \in Nodes |-> "idle"]
    /\ round = [n \in Nodes |-> 0]

(* A node calls all-reduce ... *)
Enter(n) ==
    /\ phase[n] = "idle"
    /\ phase' = [phase EXCEPT ![n] = "reducing"]
    /\ UNCHANGED round

(* ... has the sum, and comes to the barrier. *)
Arrive(n) ==
    /\ phase[n] = "reducing"
    /\ phase' = [phase EXCEPT ![n] = "barrier"]
    /\ UNCHANGED round

(* The others have come to it, too, and some may have left it. *)
Leave(n) ==
    /\ phase[n] = "barrier"
    /\ \A m \in Nodes : (phase[m] = "barrier" /\ round[m] = round[n]) \/ round[m] = round[n] + 1
    /\ phase' = [phase EXCEPT ![n] = "idle"]
    /\ round' = [round EXCEPT ![n] = @ + 1]

NextBarrier == \E n \in Nodes : Enter(n) \/ Arrive(n) \/ Leave(n)

SpecBarrier == InitBarrier /\ [][NextBarrier]_barrierVars
=============================================================================
