----------------------------- MODULE Orchestrator -----------------------------
(***************************************************************************)
(* The global orchestrator (burn-collective/src/global/orchestrator/       *)
(* state.rs) and the client each node talks to it with (global/node/       *)
(* worker.rs).  Nodes register; when as many have as the first one said,   *)
(* all are told who the nodes are.                                         *)
(*                                                                         *)
(* A node has one request at a time, over a session of its own, and there  *)
(* is no more than one session per node: the local server awaits the       *)
(* answer to a request before it does anything else, and a session ends    *)
(* with its Finish.  The address of a node is the node.                    *)
(***************************************************************************)
EXTENDS Naturals, FiniteSets

CONSTANT Nodes

VARIABLES registered,  \* registered_nodes: the node id of each session
          addresses,   \* node_addresses: the node at each node id
          numNodes,    \* cur_num_nodes: what the first register said, or None
          numPeers,    \* num_global_peers
          requests,    \* register_requests: sessions and the node id they got
          request,     \* request[n]: on its way to the orchestrator
          reply        \* reply[n]: on its way back

orchestratorVars == <<registered, addresses, numNodes, numPeers, requests, request, reply>>

None == 0
NoRequest == [kind |-> "none"]
NoReply == [kind |-> "none"]

RegisterRequest(nodes, peers) == [kind |-> "register", nodes |-> nodes, peers |-> peers]
FinishRequest == [kind |-> "finish"]

Error(e) == [kind |-> "error", error |-> e]
Topology(id, nodes, devices) ==
    [kind |-> "topology", id |-> id, nodes |-> nodes, devices |-> devices]

InitOrchestrator ==
    /\ registered = <<>>
    /\ addresses = <<>>
    /\ numNodes = None
    /\ numPeers = 0
    /\ requests = {}
    /\ request = [n \in Nodes |-> NoRequest]
    /\ reply = [n \in Nodes |-> NoReply]

With(f, x, v) == [y \in DOMAIN f \cup {x} |-> IF y = x THEN v ELSE f[y]]
Without(f, x) == [y \in DOMAIN f \ {x} |-> f[y]]

(* The worker of a node sends a request. *)
Send(n, r) == request' = [request EXCEPT ![n] = r]

(* Mutant of NextId: the node is counted itself. *)
NextId_Counted == Cardinality(DOMAIN registered) + 1

(* What a node registers as: the number of nodes there are already. *)
NextId == Cardinality(DOMAIN registered)

(* An error answers the request that met it. *)
Refuse(n, e) ==
    /\ reply' = [reply EXCEPT ![n] = Error(e)]
    /\ request' = [request EXCEPT ![n] = NoRequest]

(* The first request decides how many nodes there are, once and for all. *)
RegisterMismatch(n) ==
    /\ request[n].kind = "register"
    /\ numNodes \notin {None, request[n].nodes}
    /\ Refuse(n, "RegisterParamsMismatch")
    /\ UNCHANGED <<registered, addresses, numNodes, numPeers, requests>>

(* A second node at an address: it is refused, but counted and registered. *)
RegisterDouble(n) ==
    /\ request[n].kind = "register"
    /\ numNodes \in {None, request[n].nodes}
    /\ \E id \in DOMAIN addresses : addresses[id] = n
    /\ numNodes' = request[n].nodes
    /\ numPeers' = numPeers + request[n].peers
    /\ registered' = With(registered, n, NextId)
    /\ Refuse(n, "DoubleRegister")
    /\ UNCHANGED <<addresses, requests>>

(* Mutant of Everyone: one node less than there are is enough.             *)
Everyone_ButOne(sessions, n) == Cardinality(sessions) >= request[n].nodes - 1

(* All nodes have registered. *)
Everyone(sessions, n) == Cardinality(sessions) = request[n].nodes

(* The last one to register has all the requests answered. *)
RegisterNode(n) ==
    /\ request[n].kind = "register"
    /\ numNodes \in {None, request[n].nodes}
    /\ \A id \in DOMAIN addresses : addresses[id] # n
    /\ numNodes' = request[n].nodes
    /\ numPeers' = numPeers + request[n].peers
    /\ registered' = With(registered, n, NextId)
    /\ addresses' = With(addresses, NextId, n)
    /\ LET waiting == requests \cup {[node |-> n, id |-> NextId]}
       IN  IF Everyone(DOMAIN registered', n)
           THEN /\ reply' = [m \in Nodes |->
                               IF \E r \in waiting : r.node = m
                               THEN LET r == CHOOSE r \in waiting : r.node = m
                                    IN  Topology(r.id, addresses', numPeers')
                               ELSE reply[m]]
                /\ requests' = {}
           ELSE requests' = waiting /\ UNCHANGED reply
    /\ request' = [request EXCEPT ![n] = NoRequest]

(* A node leaves, and the peers are counted anew.  (A register request of its session that is pending      *)
(* would be answered with an error; its server awaits it, so none is.)     *)
FinishNode(n) ==
    /\ request[n].kind = "finish"
    /\ n \in DOMAIN registered
    /\ registered' = Without(registered, n)
    /\ addresses' = Without(addresses, registered[n])
    /\ numPeers' = 0
    /\ requests' = {r \in requests : r.node # n}
    /\ reply' = [reply EXCEPT ![n] = [kind |-> "finished"]]
    /\ request' = [request EXCEPT ![n] = NoRequest]
    /\ UNCHANGED numNodes

FinishStranger(n) ==
    /\ request[n].kind = "finish"
    /\ n \notin DOMAIN registered
    /\ Refuse(n, "NotRegisteredOnFinish")
    /\ UNCHANGED <<registered, addresses, numNodes, numPeers, requests>>

OrchestratorStep(n) ==
    \/ RegisterMismatch(n) \/ RegisterDouble(n) \/ RegisterNode(n)
    \/ FinishNode(n) \/ FinishStranger(n)
=============================================================================
