----------------------------- MODULE SyncService -----------------------------
(***************************************************************************)
(* The barrier at the end of a global all-reduce                           *)
(* (burn-collective/src/global/node/sync.rs).  Each node keeps a list of   *)
(* the peers that have asked it to sync, itself among them, and waits      *)
(* until the list is that of all nodes.  The list is kept as how often     *)
(* each peer is in it: the code sorts it before it compares.               *)
(***************************************************************************)
EXTENDS GlobalTopology

VARIABLES syncing,   \* syncing[n][m]: how often m is in the list of node n
          syncer,    \* syncer[n]: where the call of sync of node n is
          notices    \* sync requests on their way

syncVars == <<syncing, syncer, notices>>

InitSync ==
    /\ syncing = [n \in Nodes |-> [m \in Nodes |-> 0]]
    /\ syncer = [n \in Nodes |-> "none"]
    /\ notices = {}

Notice(from, to, nth) == [from |-> from, to |-> to, nth |-> nth]

(* The nth sync of a node: it adds itself, and sends a request to all peers. *)
StartSync(n, nth) ==
    /\ syncer[n] = "none"
    /\ syncing' = [syncing EXCEPT ![n][n] = @ + 1]
    /\ notices' = notices \cup {Notice(n, m, nth) : m \in Nodes \ {n}}
    /\ syncer' = [syncer EXCEPT ![n] = "check"]

(* Mutant of AllSynced: a node forgets that it is in the list itself. *)
AllSynced_WithoutOne(n) == Cardinality({m \in Nodes : syncing[n][m] = 1}) >= N - 1

(* The list is compared, under its lock, with that of all nodes. *)
AllSynced(n) == \A m \in Nodes : syncing[n][m] = 1

(* It is the same: sync returns.  What the code clears is the copy it has  *)
(* sorted, not the list.                                                   *)
EndSync(n) ==
    /\ syncer[n] = "check"
    /\ AllSynced(n)
    /\ syncer' = [syncer EXCEPT ![n] = "none"]
    /\ UNCHANGED <<syncing, notices>>

(* It is not: the node unlocks the list, ... *)
MissPeer(n) ==
    /\ syncer[n] = "check"
    /\ ~AllSynced(n)
    /\ syncer' = [syncer EXCEPT ![n] = "missed"]
    /\ UNCHANGED <<syncing, notices>>

(* ... and only then asks for notifications. *)
AwaitPeer(n) ==
    /\ syncer[n] = "missed"
    /\ syncer' = [syncer EXCEPT ![n] = "wait"]
    /\ UNCHANGED <<syncing, notices>>

(* A request arrives (each has a connection of its own, so in any order),  *)
(* is added to the list, and wakes the node up if it is waiting at that    *)
(* moment.  A check that falls between the two finds the peer in the list  *)
(* already and leads to no state that a check after both does not lead to: *)
(* the two are one step.                                                   *)
AddPeer(m) ==
    /\ m \in notices
    /\ syncing' = [syncing EXCEPT ![m.to][m.from] = @ + 1]
    /\ notices' = notices \ {m}
    /\ syncer' = [syncer EXCEPT ![m.to] = IF @ = "wait" THEN "check" ELSE @]

SyncStep ==
    \/ \E n \in Nodes : MissPeer(n) \/ AwaitPeer(n)
    \/ \E m \in notices : AddPeer(m)
=============================================================================
