------------------------------ MODULE Collective ------------------------------
(***************************************************************************)
(* Collective operations (burn-collective): the peers of a node, one per   *)
(* device, call a local server (local/{client,server}.rs and               *)
(* local/{all_reduce,reduce,broadcast}/op.rs); the servers register with   *)
(* the orchestrator and all-reduce with each other (global/).              *)
(*                                                                         *)
(* A peer waits for the answer to a call before it makes the next one, and *)
(* a server handles one message at a time, also while it awaits the        *)
(* orchestrator or the other nodes: a call is sent and handled in one step, *)
(* that the server takes when it is free.                                  *)
(***************************************************************************)
EXTENDS LocalReduce, Orchestrator

CONSTANTS Peers,       \* the peers of all nodes
          NodeOf,      \* [Peers -> Nodes]
          CoherentPrograms,  \* calls that go together: [Peers -> Seq(Call)]
          OtherPrograms      \* any other: other parameters, not registered, resets

Programs == CoherentPrograms \cup OtherPrograms

ASSUME PeersAssumption == NodeOf \in [Peers -> Nodes] /\ IsFiniteSet(Peers)

VARIABLES program,  \* the calls each peer makes
          calls,    \* calls[p]: how many it has made
          results,  \* results[p]: what they returned
          config,   \* config[n]: of the server of node n, or NoConfig
          peers,    \* peers[n]: that are registered
          callbacks,  \* callbacks[n]: the peers that wait for the others to register
          ops,      \* ops[n][kind]: the callers of an operation, in order; none: no operation
          task,     \* task[n]: what the server of node n awaits
          client,   \* client[n]: the global client of node n, with its NodeState
          alive,    \* alive[n]: no handler of the server has panicked
          phase, round,   \* of the global all-reduce
          inputs    \* inputs[n]: the tensors that node n gave to global all-reduces

clientVars == <<program, calls, results>>
serverVars == <<config, peers, callbacks, ops, task, client, alive>>
globalVars == <<phase, round, inputs>>
vars == <<clientVars, serverVars, globalVars, orchestratorVars>>

Global == INSTANCE GlobalBarrier

-----------------------------------------------------------------------------
(* Calls.                                                                  *)
NoConfig == [devices |-> 0]

(* A configuration has all global parameters, or none of them (0 nodes).   *)
Config(devices, nodes, strategy) ==
    [devices |-> devices, nodes |-> nodes, valid |-> TRUE, strategy |-> strategy]
Invalid(c) == [c EXCEPT !.valid = FALSE]

Register(c) == [kind |-> "register", config |-> c]
AllReduce(op, size) == [kind |-> "all_reduce", op |-> op, size |-> size, root |-> 0, tensor |-> FALSE]
Reduce(op, size, root) ==
    [kind |-> "reduce", op |-> op, size |-> size, root |-> root, tensor |-> FALSE]
Broadcast(tensor, size) ==
    [kind |-> "broadcast", op |-> "none", size |-> size, root |-> 0, tensor |-> tensor]
Finish == [kind |-> "finish"]
Reset == [kind |-> "reset"]

Kinds == {"all_reduce", "reduce", "broadcast"}

Configs ==
    [devices : Nat, nodes : Nat, valid : BOOLEAN, strategy : {"tree", "ring", "centralized"}]
Calls ==
    [kind : {"register"}, config : Configs] \cup [kind : {"finish", "reset"}]
    \cup [kind : Kinds, op : {"sum", "mean", "none"}, size : Nat, root : Peers \cup {0},
          tensor : BOOLEAN]

ASSUME ProgramsAssumption == Programs \subseteq [Peers -> Seq(Calls)]

(* Who calls at all, on a node. *)
Calling(f) == {p \in Peers : f[p] # <<>>}
CallingOn(f, n) == {p \in Calling(f) : NodeOf[p] = n}

(* A ring can cut a tensor if the last slice begins within it.             *)
RingFits(size, devices) == (devices - 1) * ((size + devices - 1) \div devices) <= size

(* The k-th call of p fits to its others: it registers first, and only     *)
(* then, with as many peers and nodes as the configuration says.           *)
CallFits(f, p, k) ==
    LET c == f[p][k]
        given == f[p][1].config
    IN  /\ c.kind # "reset"
        /\ c.kind = "register" <=> k = 1
        /\ c.kind = "finish" => k = Len(f[p])
        /\ c.kind = "register" =>
              /\ c.config = given /\ given.valid
              /\ given.devices = Cardinality(CallingOn(f, NodeOf[p]))
              /\ given.nodes \in {0, Cardinality({NodeOf[q] : q \in Calling(f)})}
        /\ c.kind = "all_reduce" /\ given.strategy = "ring" =>
              c.size < given.devices \/ RingFits(c.size, given.devices)
        /\ c.kind \in {"reduce", "broadcast"} => given.nodes = 0
        /\ c.kind = "reduce" => c.root \in CallingOn(f, NodeOf[p])
        /\ c.kind = "broadcast" => \E q \in CallingOn(f, NodeOf[p]) : f[q][k].tensor

(* The k-th calls of two peers are the same, but one peer of a node has the *)
(* tensor of a broadcast.                                                  *)
CallsAlike(f, p, q, k) ==
    /\ f[p][k].kind = f[q][k].kind
    /\ \/ f[p][k].kind # "broadcast" /\ f[p][k] = f[q][k]
       \/ f[p][k].kind = "register" /\ NodeOf[p] # NodeOf[q]
       \/ f[p][k].kind = "broadcast" /\ (f[p][k].tensor /\ f[q][k].tensor => p = q)

(* Calls that go together: those of the peers of a node, or, if there is a *)
(* global configuration, of all.                                           *)
Together(f) ==
    /\ \A p \in Calling(f) : \A k \in DOMAIN f[p] : CallFits(f, p, k)
    /\ \A p, q \in Calling(f) : f[p][1].config.nodes = f[q][1].config.nodes
    /\ \A p, q \in Calling(f) : NodeOf[p] = NodeOf[q] \/ f[p][1].config.nodes > 0 =>
          Len(f[p]) = Len(f[q]) /\ \A k \in DOMAIN f[p] : CallsAlike(f, p, q, k)

ASSUME TogetherAssumption == \A f \in CoherentPrograms : Together(f)

NoOps == [kind \in Kinds |-> <<>>]

CallOf(p) == program[p][calls[p]]
NextCall(p) == program[p][calls[p] + 1]
Waiting(p) == Len(results[p]) < calls[p]

(* Results: an error, or a tensor with what it was divided by.             *)
Failed(e) == [error |-> e, tensor |-> <<>>, by |-> 1]
Returned(tensor, by) == [error |-> "none", tensor |-> tensor, by |-> by]
Ok == Returned(<<>>, 1)

Idle == [kind |-> "idle", callers |-> {}]
NoClient == [kind |-> "none"]
NoState == [kind |-> "none"]

-----------------------------------------------------------------------------
Init ==
    /\ program \in Programs
    /\ calls = [p \in Peers |-> 0]
    /\ results = [p \in Peers |-> <<>>]
    /\ config = [n \in Nodes |-> NoConfig]
    /\ peers = [n \in Nodes |-> {}]
    /\ callbacks = [n \in Nodes |-> {}]
    /\ ops = [n \in Nodes |-> NoOps]
    /\ task = [n \in Nodes |-> Idle]
    /\ client = [n \in Nodes |-> NoClient]
    /\ alive = [n \in Nodes |-> TRUE]
    /\ Global!InitBarrier
    /\ inputs = [n \in Nodes |-> <<>>]
    /\ InitOrchestrator

(* Answers go to the peers that wait for them. *)
Answer(to, result(_)) ==
    results' = [p \in Peers |-> IF p \in to THEN Append(results[p], result(p)) ELSE results[p]]

(* A peer makes its next call ... *)
Makes(p, kinds) ==
    /\ ~Waiting(p)
    /\ calls[p] < Len(program[p])
    /\ NextCall(p).kind \in kinds
    /\ calls' = [calls EXCEPT ![p] = @ + 1]
    /\ UNCHANGED program

(* ... and the server takes it. *)
Handle(p, kinds) ==
    /\ Makes(p, kinds)
    /\ alive[NodeOf[p]]
    /\ task[NodeOf[p]] = Idle

(* The call is answered at once, and changes nothing. *)
Reply(p, result) ==
    /\ Answer({p}, LAMBDA q : result)
    /\ UNCHANGED <<serverVars, globalVars, orchestratorVars>>

-----------------------------------------------------------------------------
(* Register.                                                               *)
Participants == Calling(program)

(* The first peer decides about the configuration. *)
ConfigOf(n, c) == IF peers[n] = {} \/ config[n] = NoConfig THEN c ELSE config[n]

(* The client itself refuses a configuration that is not valid. *)
InvalidConfig(p) ==
    /\ Makes(p, {"register"})
    /\ ~NextCall(p).config.valid
    /\ Reply(p, Failed("InvalidConfig"))

RegisterRefused(p) ==
    LET n == NodeOf[p]
        c == NextCall(p).config
    IN  /\ Handle(p, {"register"})
        /\ \/ c.valid /\ p \in peers[n] /\ Reply(p, Failed("MultipleRegister"))
           \/ /\ c.valid /\ p \notin peers[n] /\ ConfigOf(n, c) # c
              /\ Reply(p, Failed("RegisterParamsMismatch"))

(* Mutant of Complete: a peer that registers is not counted itself.        *)
Complete_Others(n, p) == Cardinality(peers[n]) = config'[n].devices

(* With this peer, all have registered. *)
Complete(n, p) == Cardinality(peers[n] \cup {p}) = config'[n].devices

(* A peer registers.  The last one has the server register the node, or    *)
(* all of them answered.                                                   *)
RegisterPeer(p) ==
    LET n == NodeOf[p]
        c == NextCall(p).config
    IN  /\ Handle(p, {"register"})
        /\ c.valid /\ p \notin peers[n] /\ ConfigOf(n, c) = c
        /\ config' = [config EXCEPT ![n] = c]
        /\ peers' = [peers EXCEPT ![n] = @ \cup {p}]
        /\ client' = IF c.nodes > 0 /\ client[n] = NoClient
                     THEN [client EXCEPT ![n] = [kind |-> "node", state |-> NoState]]
                     ELSE client
        /\ LET all == callbacks[n] \cup {p}
           IN  \/ /\ ~Complete(n, p)
                  /\ callbacks' = [callbacks EXCEPT ![n] = all]
                  /\ UNCHANGED <<results, task, request>>
               \/ /\ Complete(n, p) /\ c.nodes = 0
                  /\ callbacks' = [callbacks EXCEPT ![n] = {}]
                  /\ Answer(all, LAMBDA q : Ok)
                  /\ UNCHANGED <<task, request>>
               \/ /\ Complete(n, p) /\ c.nodes > 0
                  /\ callbacks' = [callbacks EXCEPT ![n] = all]
                  /\ Send(n, RegisterRequest(c.nodes, Cardinality(peers'[n])))
                  /\ task' = [task EXCEPT ![n] = [kind |-> "register", callers |-> {}]]
                  /\ UNCHANGED results
        /\ UNCHANGED <<ops, alive, globalVars, registered, addresses, numNodes, numPeers,
                       requests, reply>>

(* The orchestrator has answered the node: all its peers are.              *)
GlobalRegisterReturns(n) ==
    /\ task[n].kind = "register" /\ reply[n] # NoReply
    /\ client' = IF reply[n].kind = "topology"
                 THEN [client EXCEPT ![n].state = reply[n]] ELSE client
    /\ Answer(callbacks[n], LAMBDA q : IF reply[n].kind = "topology" THEN Ok
                                       ELSE Failed(reply[n].error))
    /\ callbacks' = [callbacks EXCEPT ![n] = {}]
    /\ task' = [task EXCEPT ![n] = Idle]
    /\ reply' = [reply EXCEPT ![n] = NoReply]
    /\ UNCHANGED <<program, calls, config, peers, ops, alive, globalVars, registered, addresses,
                   numNodes, numPeers, requests, request>>

-----------------------------------------------------------------------------
(* All-reduce, reduce and broadcast: one operation of each kind at a time. *)
(* It is what its first caller asked for; all its callers wait.            *)
First(n, p, kind) == IF ops[n][kind] = <<>> THEN NextCall(p) ELSE CallOf(Head(ops[n][kind]))

Callers(n, kind) == Range(ops[n][kind])

(* Reduce asks whether the root is registered, not the caller. *)
Accepted(n, p) ==
    IF NextCall(p).kind = "reduce" THEN NextCall(p).root \in peers[n] ELSE p \in peers[n]

OpRefused(p) ==
    /\ Handle(p, Kinds)
    /\ ~Accepted(NodeOf[p], p)
    /\ Reply(p, Failed("RegisterNotFirstOperation"))

(* Why a call is not one of the operation that is pending.                 *)
Mismatch(n, p) ==
    LET call == NextCall(p)
        first == First(n, p, call.kind)
    IN  IF call.kind = "broadcast"
        THEN IF call.tensor /\ \E q \in Callers(n, call.kind) : CallOf(q).tensor
             THEN "MultipleTensors" ELSE "none"
        ELSE IF call.size # first.size THEN "ShapeMismatch"
        ELSE IF call.op # first.op THEN "OperationMismatch"
        ELSE IF call.root # first.root THEN "RootMismatch"
        ELSE "none"

(* Mutant of OpFails: the operation stays. *)
OpFails_Stays(n, kind) == UNCHANGED ops

(* The operation is dropped. *)
OpFails(n, kind) == ops' = [ops EXCEPT ![n][kind] = <<>>]

(* The others get the error; nobody has the callback of the caller any more. *)
OpMismatch(p) ==
    LET n == NodeOf[p]
        kind == NextCall(p).kind
    IN  /\ Handle(p, Kinds)
        /\ Accepted(n, p) /\ Mismatch(n, p) # "none"
        /\ OpFails(n, kind)
        /\ Answer(Callers(n, kind) \cup {p},
                  LAMBDA q : Failed(IF q = p THEN "LocalServerMissing" ELSE Mismatch(n, p)))
        /\ UNCHANGED <<config, peers, callbacks, task, client, alive, globalVars,
                       orchestratorVars>>

(* The call joins the operation. *)
Joins(p, kinds) ==
    /\ Handle(p, kinds)
    /\ Accepted(NodeOf[p], p) /\ Mismatch(NodeOf[p], p) = "none"

(* Mutant of AllCalled: the caller is not counted itself. *)
AllCalled_Others(p) ==
    Len(ops[NodeOf[p]][NextCall(p).kind]) = Cardinality(peers[NodeOf[p]])

(* All peers have called. *)
AllCalled(p) ==
    Len(ops[NodeOf[p]][NextCall(p).kind]) + 1 = Cardinality(peers[NodeOf[p]])

OpWaits(p) ==
    /\ Joins(p, Kinds)
    /\ ~AllCalled(p)
    /\ ops' = [ops EXCEPT ![NodeOf[p]][NextCall(p).kind] = Append(@, p)]
    /\ UNCHANGED <<results, config, peers, callbacks, task, client, alive, globalVars,
                   orchestratorVars>>

(* The callers, and their tensors, once all have called. *)
AllCallers(p) == Append(ops[NodeOf[p]][NextCall(p).kind], p)
TensorOf(p) == Whole(<<p, calls'[p]>>, program[p][calls'[p]].size)
Tensors(callers) == [i \in DOMAIN callers |-> TensorOf(callers[i])]

(* Mutant of Divisor: a mean over one peer less. *)
Divisor_Others(op, devices) == IF op = "mean" THEN devices - 1 ELSE 1

(* A mean is the sum divided by the number of devices. *)
Divisor(op, devices) == IF op = "mean" THEN devices ELSE 1

(* The handler ends, or panics: then nobody has the callbacks any more.    *)
Execute(p, panics, result(_)) ==
    LET n == NodeOf[p]
    IN  /\ ops' = [ops EXCEPT ![n][NextCall(p).kind] = <<>>]
        /\ alive' = [alive EXCEPT ![n] = ~panics]
        /\ IF panics
           THEN Answer({q \in Peers : NodeOf[q] = n /\ (Waiting(q) \/ q = p)},
                       LAMBDA q : Failed("LocalServerMissing"))
           ELSE Answer(Range(AllCallers(p)), result)
        /\ UNCHANGED <<config, peers, callbacks, task, client, globalVars, orchestratorVars>>

(* A ring panics if it cannot cut the tensors. *)
RingPanics(p) == config[NodeOf[p]].strategy = "ring" /\ ~CanCut(Tensors(AllCallers(p)))

LocalAllReduce(p) ==
    LET n == NodeOf[p]
        callers == AllCallers(p)
        sums == AllReduceSum(config[n].strategy, Tensors(callers))
    IN  /\ Joins(p, {"all_reduce"}) /\ AllCalled(p)
        /\ client[n] = NoClient \/ RingPanics(p)
        /\ Execute(p, RingPanics(p),
                   LAMBDA q : Returned(sums[SelectInSeq(callers, LAMBDA c : c = q)],
                                       Divisor(NextCall(p).op, Len(callers))))

(* With a client, the sum of the peers goes into the global all-reduce ... *)
GlobalAllReduceStarts(p) ==
    LET n == NodeOf[p]
        tensors == Tensors(AllCallers(p))
    IN  /\ Joins(p, {"all_reduce"}) /\ AllCalled(p)
        /\ ~RingPanics(p)
        /\ client[n] # NoClient /\ client[n].state # NoState
        /\ Global!Enter(n)
        /\ inputs' = [inputs EXCEPT ![n] = Append(@, AllReduceSum(config[n].strategy, tensors)[1])]
        /\ ops' = [ops EXCEPT ![n]["all_reduce"] = <<>>]
        /\ task' = [task EXCEPT ![n] = [kind |-> "all_reduce", callers |-> Range(AllCallers(p))]]
        /\ UNCHANGED <<results, config, peers, callbacks, client, alive, orchestratorVars>>

(* ... which fails if the node could not register.                         *)
GlobalAllReduceFails(p) ==
    /\ Joins(p, {"all_reduce"}) /\ AllCalled(p)
    /\ ~RingPanics(p)
    /\ client[NodeOf[p]] # NoClient /\ client[NodeOf[p]].state = NoState
    /\ Execute(p, FALSE, LAMBDA q : Failed("AllReduceBeforeRegister"))

(* The transfers between the nodes are those of GlobalAllReduce.           *)
GlobalAllReduceMeets(n) ==
    /\ Global!Arrive(n)
    /\ UNCHANGED <<clientVars, serverVars, inputs, orchestratorVars>>

(* All callers get the sum of the tensors of all nodes.                    *)
GlobalAllReduceReturns(n) ==
    /\ task[n].kind = "all_reduce"
    /\ Global!Leave(n)
    /\ LET nodes == SetToSeq(Range(client[n].state.nodes))
           tensor == Sum([i \in DOMAIN nodes |-> inputs[nodes[i]][round[n] + 1]])
       IN  Answer(task[n].callers,
                  LAMBDA q : Returned(tensor, Divisor(CallOf(q).op, client[n].state.devices)))
    /\ task' = [task EXCEPT ![n] = Idle]
    /\ UNCHANGED <<program, calls, config, peers, callbacks, ops, client, alive, inputs,
                   orchestratorVars>>

(* Reduce: the root gets the sum, the others nothing.  Between nodes it is *)
(* not implemented; without the tensor of the root it panics, too.         *)
LocalReduceReturns(p) ==
    LET n == NodeOf[p]
        callers == AllCallers(p)
        call == NextCall(p)
    IN  /\ Joins(p, {"reduce"}) /\ AllCalled(p)
        /\ Execute(p, client[n] # NoClient \/ call.root \notin Range(callers),
                   LAMBDA q : IF q = call.root
                              THEN Returned(TreeSum(Tensors(callers), 2),
                                            Divisor(call.op, Len(callers)))
                              ELSE Ok)

(* Broadcast: all get the one tensor. *)
LocalBroadcastReturns(p) ==
    LET senders == {q \in Range(AllCallers(p)) : program[q][calls'[q]].tensor}
    IN  /\ Joins(p, {"broadcast"}) /\ AllCalled(p)
        /\ Execute(p, client[NodeOf[p]] # NoClient,
                   LAMBDA q : IF senders = {} THEN Failed("BroadcastNoTensor")
                              ELSE Returned(TensorOf(CHOOSE s \in senders : TRUE), 1))

-----------------------------------------------------------------------------
(* Finish and reset.                                                       *)
FinishRefused(p) ==
    /\ Handle(p, {"finish"})
    /\ p \notin peers[NodeOf[p]]
    /\ Reply(p, Failed(IF config[NodeOf[p]] = NoConfig THEN "RegisterNotFirstOperation"
                       ELSE "MultipleUnregister"))

(* A peer leaves.  With the last one the node leaves the global collective. *)
FinishPeer(p) ==
    LET n == NodeOf[p]
    IN  /\ Handle(p, {"finish"})
        /\ p \in peers[n]
        /\ peers' = [peers EXCEPT ![n] = @ \ {p}]
        /\ IF peers[n] = {p} /\ client[n] # NoClient
           THEN /\ Send(n, FinishRequest)
                /\ task' = [task EXCEPT ![n] = [kind |-> "finish", callers |-> {p}]]
                /\ UNCHANGED results
           ELSE /\ Answer({p}, LAMBDA q : Ok)
                /\ UNCHANGED <<request, task>>
        /\ UNCHANGED <<config, callbacks, ops, client, alive, globalVars, registered, addresses,
                       numNodes, numPeers, requests, reply>>

(* Whatever the orchestrator has answered, the node has left. *)
GlobalFinishReturns(n) ==
    /\ task[n].kind = "finish" /\ reply[n] # NoReply
    /\ client' = [client EXCEPT ![n] = NoClient]
    /\ Answer(task[n].callers, LAMBDA q : Ok)
    /\ task' = [task EXCEPT ![n] = Idle]
    /\ reply' = [reply EXCEPT ![n] = NoReply]
    /\ UNCHANGED <<program, calls, config, peers, callbacks, ops, alive, globalVars, registered,
                   addresses, numNodes, numPeers, requests, request>>

(* Mutant of OpsLeft: a reset forgets the peers only. *)
OpsLeft_All(n) == ops[n]

(* Nothing is left of the operations. *)
OpsLeft(n) == NoOps

(* Reset forgets the peers and the operations, whose callers get an error, *)
(* but not who waits for the others to register.                           *)
ResetServer(p) ==
    LET n == NodeOf[p]
    IN  /\ Handle(p, {"reset"})
        /\ peers' = [peers EXCEPT ![n] = {}]
        /\ ops' = [ops EXCEPT ![n] = OpsLeft(n)]
        /\ Answer({p} \cup UNION {Callers(n, kind) : kind \in Kinds},
                  LAMBDA q : IF q = p THEN Ok ELSE Failed("LocalServerMissing"))
        /\ UNCHANGED <<config, callbacks, task, client, alive, globalVars, orchestratorVars>>

-----------------------------------------------------------------------------
PeerStep(p) ==
    \/ InvalidConfig(p) \/ RegisterRefused(p) \/ RegisterPeer(p)
    \/ OpRefused(p) \/ OpMismatch(p) \/ OpWaits(p)
    \/ LocalAllReduce(p) \/ GlobalAllReduceStarts(p) \/ GlobalAllReduceFails(p)
    \/ LocalReduceReturns(p) \/ LocalBroadcastReturns(p)
    \/ FinishRefused(p) \/ FinishPeer(p) \/ ResetServer(p)

NodeStep(n) ==
    \/ GlobalRegisterReturns(n) \/ GlobalFinishReturns(n)
    \/ GlobalAllReduceMeets(n) \/ GlobalAllReduceReturns(n)
    \/ OrchestratorStep(n) /\ UNCHANGED <<clientVars, serverVars, globalVars>>

Next == (\E p \in Peers : PeerStep(p)) \/ (\E n \in Nodes : NodeStep(n))

(* A call is handled at last, if the server is free for it.  (Every call   *)
(* that can be handled is by a step above.)                                *)
Handled(p) == Handle(p, Kinds \cup {"register", "finish", "reset"})

(* The orchestrator answers what it can, and its answers come.  Nothing    *)
(* makes a global all-reduce return: it may miss the notification it waits *)
(* for (GlobalAllReduce).                                                  *)
Fairness ==
    /\ \A p \in Peers : WF_calls(Handled(p))
    /\ \A n \in Nodes :
          /\ WF_vars(GlobalRegisterReturns(n))
          /\ WF_vars(GlobalFinishReturns(n))
          /\ WF_vars(OrchestratorStep(n) /\ UNCHANGED <<clientVars, serverVars, globalVars>>)

Spec == Init /\ [][Next]_vars /\ Fairness

-----------------------------------------------------------------------------
(* Type invariant.  The callers of an operation are registered (of a reduce *)
(* nobody asks), and each is there once: their number says whether all     *)
(* have called.                                                            *)
TypeOK ==
    /\ program \in Programs
    /\ \A p \in Peers :
          /\ calls[p] \in 0 .. Len(program[p])
          /\ Len(results[p]) \in {calls[p], calls[p] - 1}
    /\ peers \in [Nodes -> SUBSET Peers]
    /\ callbacks \in [Nodes -> SUBSET Peers]
    /\ \A n \in Nodes : \A kind \in Kinds :
          /\ ops[n][kind] \in Seq(IF kind = "reduce" THEN Peers ELSE peers[n])
          /\ IsInjective(ops[n][kind])
    /\ \A n \in Nodes :
          /\ task[n].kind \in {"idle", "register", "all_reduce", "finish"}
          /\ client[n].kind \in {"none", "node"}
          /\ request[n] # NoRequest \/ reply[n] # NoReply => task[n].kind \in {"register", "finish"}
    /\ alive \in [Nodes -> BOOLEAN]
    /\ \A n \in Nodes : phase[n] # "idle" => task[n].kind = "all_reduce"
    /\ numPeers \in Nat
    /\ DOMAIN registered \subseteq Nodes

(* Where the server has the callbacks of peers, and whose.                 *)
Places == {"register", "task"} \cup Kinds
Holds(n, place) ==
    CASE place = "register" -> callbacks[n]
      [] place = "task" -> task[n].callers
      [] place \in Kinds -> Callers(n, place)

(* A peer that waits has its callback in one place, so that it can still   *)
(* be answered, and is not twice; who does not wait has none.  The server  *)
(* drops no callback, not when the call of another does not match, an      *)
(* orchestrator refuses, or a reset comes between.  (That it answers each  *)
(* is another matter: see OpsAwaitCalls.)                                  *)
CallbacksHeld ==
    \A p \in Peers : alive[NodeOf[p]] =>
        /\ Waiting(p) <=> \E place \in Places : p \in Holds(NodeOf[p], place)
        /\ \A x, y \in Places :
              p \in Holds(NodeOf[p], x) /\ p \in Holds(NodeOf[p], y) => x = y

(* The peers of an operation of p. *)
Scope(p) ==
    {q \in Participants : program[p][1].config.nodes > 0 \/ NodeOf[q] = NodeOf[p]}

Expected(p, k) ==
    LET call == program[p][k]
        sum(qs, size) == [i \in 1 .. size |-> SetToBag(qs \X {k})]
        reduced == Returned(sum(Scope(p), call.size),
                            IF call.op = "mean" THEN Cardinality(Scope(p)) ELSE 1)
        senders == {q \in Scope(p) : program[q][k].tensor}
        sender == CHOOSE s \in senders : TRUE
    IN  CASE call.kind = "all_reduce" -> reduced
          [] call.kind = "reduce" -> IF p = call.root THEN reduced ELSE Ok
          [] call.kind = "broadcast" -> Returned(sum({sender}, program[sender][k].size), 1)
          [] OTHER -> Ok

(* Peers that make the same calls get what they asked for: the k-th result *)
(* of a peer is computed from the k-th tensors of all peers, of its node   *)
(* or of all nodes, each of them once, and a mean is over all of them; and *)
(* no call fails.                                                          *)
ResultsExpected ==
    program \in CoherentPrograms =>
        \A p \in Peers : \A k \in DOMAIN results[p] : results[p][k] = Expected(p, k)

(* Whatever the peers of a node call, and those of several nodes whose     *)
(* calls go together (nothing is compared between nodes): a tensor that is *)
(* returned is computed from calls that asked for the same, each of them   *)
(* once, and a mean is over the tensors in it.  (The receivers of a        *)
(* broadcast name no operation, size or root; only kinds are compared.)    *)
NoMixedSums ==
    \A p \in Peers : \A k \in DOMAIN results[p] : \A i \in DOMAIN results[p][k].tensor :
        LET call == program[p][k]
            element == results[p][k].tensor[i]
            same(c) ==
                /\ c.kind = call.kind
                /\ call.kind # "broadcast" =>
                      c.op = call.op /\ c.size = call.size /\ c.root = call.root
        IN  /\ \A x \in DOMAIN element : element[x] = 1 /\ same(program[x[1]][x[2]])
            /\ call.kind # "broadcast" => <<p, k>> \in DOMAIN element
            /\ call.op = "mean" => results[p][k].by = Cardinality(DOMAIN element)

(* Every call but Finish is a barrier: it returns when all peers, of the   *)
(* node or of all nodes, have made it.                                     *)
Lockstep ==
    program \in CoherentPrograms =>
        \A p \in Peers : \A k \in DOMAIN results[p] :
            program[p][k].kind # "finish" => \A q \in Scope(p) : calls[q] >= k

(* "Must be synchronized between all nodes for collective operations to    *)
(* work" (NodeState): the nodes that are registered agree on who is        *)
(* registered, under which id, and on the number of devices.               *)
TopologyAgrees ==
    program \in CoherentPrograms =>
        \A n \in Nodes : client[n] # NoClient /\ client[n].state # NoState =>
            LET s == client[n].state
            IN  /\ s.id \in DOMAIN s.nodes /\ s.nodes[s.id] = n
                /\ Range(s.nodes) = {NodeOf[p] : p \in Participants}
                /\ Cardinality(DOMAIN s.nodes) = Cardinality(Range(s.nodes))
                /\ DOMAIN s.nodes = 0 .. Cardinality(DOMAIN s.nodes) - 1
                /\ s.devices = Cardinality(Participants)
                /\ \A m \in Nodes : client[m] # NoClient /\ client[m].state # NoState =>
                      client[m].state.nodes = s.nodes

(* All calls of peers that make the same calls return, if the global       *)
(* all-reduces that they start do.                                         *)
AllReturn ==
    (\A n \in Nodes : []<>(task[n].kind # "all_reduce")) =>
        (program \in CoherentPrograms ~> \A p \in Peers : Len(results[p]) = Len(program[p]))

-----------------------------------------------------------------------------
(* Where any program may fail, and nowhere else.                           *)

(* All registered peers wait for an operation: nobody is left to call it.  *)
AllWait(n, kind) == ops[n][kind] # <<>> /\ Callers(n, kind) = peers[n]

(* An operation is carried out with the call that completes it: it is only *)
(* by the finish of another that those who wait for it are left alone.     *)
OnlyFinishStrands ==
    [][\A n \in Nodes : \A kind \in Kinds :
          ~AllWait(n, kind) /\ AllWait(n, kind)' =>
              \E p \in Peers : calls'[p] # calls[p] /\ NodeOf[p] = n /\ NextCall(p).kind = "finish"]_vars

(* Somebody has asked the server of the node for a global configuration. *)
AskedGlobal(n) ==
    \E p \in Peers : NodeOf[p] = n /\ \E k \in 1 .. calls[p] :
        program[p][k].kind = "register" /\ program[p][k].config.nodes > 0

(* A ring that cannot cut what its devices have; a reduce or a broadcast   *)
(* where there are nodes; a reduce with the tensor of a peer that has not  *)
(* registered.                                                             *)
Unfit(p) ==
    LET n == NodeOf[p]
        call == NextCall(p)
        devices == Cardinality(peers[n])
    IN  \/ /\ call.kind = "all_reduce" /\ config[n].strategy = "ring"
           /\ call.size >= devices /\ ~RingFits(call.size, devices)
        \/ call.kind \in {"reduce", "broadcast"} /\ AskedGlobal(n)
        \/ call.kind = "reduce" /\ (Callers(n, "reduce") \cup {p}) \ peers[n] # {}

(* No other call makes a server panic, whatever was refused, did not match *)
(* or was reset before: every tensor can be cut by the ring it reaches, or *)
(* be added by a tree, and the root of a reduce is one of its callers.     *)
OnlyUnfitPanics ==
    [][\A n \in Nodes : alive[n] /\ ~alive'[n] =>
          \E p \in Peers : calls'[p] # calls[p] /\ NodeOf[p] = n /\ Unfit(p)]_vars

-----------------------------------------------------------------------------
(* What the repository says of any program, and the server does not see to. *)

(* "Put operation back, we're waiting for more calls" (server.rs:355): a   *)
(* peer that is registered has still to call an operation that waits.      *)
OpsAwaitCalls ==
    \A n \in Nodes : \A kind \in Kinds :
        ops[n][kind] # <<>> => peers[n] \ Callers(n, kind) # {}

(* "Peers must call `register` before calling any other operation"         *)
(* (README.md:16): the calls that are waiting are those of peers that have. *)
CallersRegistered ==
    \A n \in Nodes : \A kind \in Kinds : Callers(n, kind) \subseteq peers[n]

(* "In the case where the tensors are too small to split into N slices, a  *)
(* fallback algorithm is used" (README.md:79): whatever the size of the    *)
(* tensors, it is no all-reduce that makes a server panic.                 *)
RingFallsBack ==
    \A n \in Nodes : alive[n] \/ \E p \in Peers :
        NodeOf[p] = n /\ calls[p] > 0 /\ CallOf(p).kind \in {"reduce", "broadcast"}

(* "All the nodes in the collective: including self" (shared.rs:79), which *)
(* is what a node is told when it has registered.                          *)
AllNodesTold ==
    \A n \in Nodes : client[n] # NoClient /\ client[n].state # NoState =>
        Range(client[n].state.nodes) = {NodeOf[p] : p \in Participants}
=============================================================================
