---------------------------- MODULE AutodiffTape ----------------------------
(***************************************************************************)
(* What automatic differentiation promises to a program, seen from         *)
(* outside.  Tensors are nodes of a growing graph.  The backward pass from *)
(* a tensor executes the backward step of the tensor and of all its        *)
(* ancestors, each once; a pass is possible as long as no step it needs    *)
(* was executed by an earlier one, except those of leaves that the program *)
(* still has (nothing happens in the step of a leaf).  A possible pass     *)
(* never fails and never skips a step.                                     *)
(*                                                                         *)
(* Nothing is said here of graphs, locks or memory: AutodiffGraph is the   *)
(* detailed specification.                                                 *)
(***************************************************************************)
EXTENDS Naturals, Sequences

CONSTANTS
    Threads         \* threads of the program

VARIABLES
    parents,        \* the nodes created so far, each a set of parent nodes
    held,           \* per thread, the nodes it has tensors of
    spent           \* nodes whose step was executed

vars == <<parents, held, spent>>

Created == 1..Len(parents)

Referenced(n) == \E t \in Threads : n \in held[t]

(* Parents are smaller than their children. *)
Ancestors(n) ==
    LET above[m \in Created] == parents[m] \cup UNION {above[p] : p \in parents[m]}
    IN  above[n]

Possible(n) ==
    /\ n \notin spent
    /\ \A m \in Ancestors(n) \cap spent : parents[m] = {} /\ Referenced(m)

Create(t, ps) ==
    /\ ps \subseteq held[t]
    /\ parents' = Append(parents, ps)
    /\ held' = [held EXCEPT ![t] = @ \cup {Len(parents) + 1}]
    /\ UNCHANGED spent

(* A pass that is not possible may execute some of the steps. *)
Backward(t, r) ==
    /\ r \in held[t]
    /\ spent \subseteq spent'
    /\ spent' \subseteq spent \cup {r} \cup Ancestors(r)
    /\ Possible(r) => spent' = spent \cup {r} \cup Ancestors(r)
    /\ UNCHANGED <<parents, held>>

(* Or it panics, and the thread ends. *)
Panic(t, r) ==
    /\ r \in held[t]
    /\ ~Possible(r)
    /\ held' = [held EXCEPT ![t] = {}]
    /\ UNCHANGED <<parents, spent>>

Drop(t, n) ==
    /\ held' = [held EXCEPT ![t] = @ \ {n}]
    /\ UNCHANGED <<parents, spent>>

Share(t, u, n) ==
    /\ n \in held[t]
    /\ held' = [held EXCEPT ![u] = @ \cup {n}]
    /\ UNCHANGED <<parents, spent>>

Next ==
    \E t \in Threads :
        \/ \E ps \in SUBSET held[t] : Create(t, ps)
        \/ \E r \in held[t] : Backward(t, r) \/ Panic(t, r)
        \/ \E n \in held[t] : Drop(t, n)
        \/ \E u \in Threads, n \in held[t] : Share(t, u, n)

(* The program may start with parameters used in earlier backward passes. *)
Init ==
    /\ \A n \in Created : parents[n] = {}
    /\ held = [t \in Threads |-> Created]
    /\ spent = Created

Spec == Init /\ [][Next]_vars
=============================================================================
