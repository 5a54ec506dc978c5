---------------------------- MODULE FusionStream ----------------------------
(***************************************************************************)
(* What the fusion server of burn-fusion promises to its clients, seen     *)
(* from outside: every stream is a first-in first-out queue of tensor      *)
(* operations.  Registering an operation only appends it; the server       *)
(* executes operations in batches, each batch a non-empty prefix of one    *)
(* queue; it serves one call at a time; and a drain (the call behind every *)
(* read of a tensor) returns only when the queue it drains is empty.       *)
(*                                                                         *)
(* Nothing is said here of caches, optimizations or plans: FusionProcessor *)
(* is the detailed specification, and implements this one.                 *)
(***************************************************************************)
EXTENDS Naturals, Sequences

CONSTANTS
    Streams,        \* the client threads, each with a stream of its own
    Ops,            \* the operations a client can register
    NoStream        \* "no call is being served", not a member of Streams

VARIABLES
    queue,          \* per stream, the operations registered and not executed
    serving,        \* the stream whose call is being served, or NoStream
    mode            \* "Lazy": the call registers; "Sync": the call drains

vars == <<queue, serving, mode>>

TypeOK ==
    /\ queue \in [Streams -> Seq(Ops)]
    /\ serving \in Streams \cup {NoStream}
    /\ mode \in {"Lazy", "Sync"}

Init ==
    /\ queue = [s \in Streams |-> <<>>]
    /\ serving = NoStream
    /\ mode = "Lazy"

(* A client registers an operation. *)
Submit(s, op) ==
    /\ serving = NoStream
    /\ queue' = [queue EXCEPT ![s] = Append(@, op)]
    /\ serving' = s
    /\ mode' = "Lazy"

(* A client asks for everything in its stream to be executed. *)
Drain(s) ==
    /\ serving = NoStream
    /\ serving' = s
    /\ mode' = "Sync"
    /\ UNCHANGED queue

(* The server executes the n oldest operations of the stream it serves. *)
Run(s, n) ==
    /\ serving = s
    /\ n \in 1..Len(queue[s])
    /\ queue' = [queue EXCEPT ![s] = SubSeq(@, n + 1, Len(@))]
    /\ UNCHANGED <<serving, mode>>

(* The call returns; a drain leaves nothing behind. *)
Return(s) ==
    /\ serving = s
    /\ mode = "Sync" => queue[s] = <<>>
    /\ serving' = NoStream
    /\ UNCHANGED <<queue, mode>>

Next ==
    \E s \in Streams :
        \/ \E op \in Ops : Submit(s, op)
        \/ Drain(s)
        \/ \E n \in 1..Len(queue[s]) : Run(s, n)
        \/ Return(s)

Spec == Init /\ [][Next]_vars
=============================================================================
