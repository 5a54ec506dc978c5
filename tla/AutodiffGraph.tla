---------------------------- MODULE AutodiffGraph ----------------------------
(***************************************************************************)
(* The graphs of burn-autodiff and their locks                             *)
(* (crates/burn-autodiff/src/runtime/graph.rs).  Threads build tensors and *)
(* call backward.  A locator, behind the mutex STATE, maps node ids to     *)
(* graphs and merges graphs that an operation joins; each graph has a      *)
(* server behind a mutex of its own (AutodiffServer).                      *)
(*                                                                         *)
(* An action is what a thread does from one acquisition of a mutex to the  *)
(* next.  A registration or a backward pass looks up its graph under STATE,*)
(* releases STATE, and only then locks the graph.                          *)
(***************************************************************************)
EXTENDS AutodiffServer

CONSTANTS
    NumParams,      \* parameters that went through a backward pass before
    MaxLeaves,      \* bound: new tensors marked with require_grad
    MaxOps          \* bound: operations

ASSUME BoundsAssumption == NumParams \in Nat /\ MaxLeaves \in Nat /\ MaxOps \in Nat

VARIABLES
    graphs,         \* GraphLocator.graphs: from node to graph, partial
    keys,           \* GraphLocator.keys: from origin to nodes, partial
    servers,        \* all graphs ever created; a graph is a position
    state,          \* the thread that holds STATE, or NoThread
    call,           \* per thread, the call it is in
    spent           \* nodes whose step was executed (history)

vars == <<parents, held, graphs, keys, servers, state, call, spent>>

-----------------------------------------------------------------------------
(* A call: where it is, its node, its graph, the graphs still to merge, the *)
(* nodes its backward pass visited, the entries still to clean up, and the  *)
(* nodes to remove at the end of the cleanup.                              *)

Calling(pc, node, graph, others) ==
    [pc |-> pc, node |-> node, graph |-> graph, others |-> others,
     visited |-> {}, snapshot |-> <<>>, removable |-> {}]

Idle == Calling("idle", 0, 0, {})

(* f, with every member of S mapped to v. *)
Mapped(f, S, v) ==
    [x \in DOMAIN f \cup S |-> IF x \in S THEN v ELSE f[x]]

Without(f, S) == Restrict(f, DOMAIN f \ S)

(* The graphs of some nodes. *)
GraphsOf(nodes) == {graphs[n] : n \in nodes \cap DOMAIN graphs}

(* analyse: the graphs of some parents, collected in a map from their       *)
(* origins; of two graphs with the same origin one replaces the other.     *)
Collected(ps) ==
    {gs \in SUBSET GraphsOf(ps) :
        /\ \A g \in GraphsOf(ps) : \E h \in gs : servers[h].origin = servers[g].origin
        /\ \A g, h \in gs : servers[g].origin = servers[h].origin => g = h}

(* register_key: the origin gets an entry; a node other than it is added. *)
RegisterKey(ks, origin, n) ==
    Mapped(ks, {origin},
           (IF origin \in DOMAIN ks THEN ks[origin] ELSE {}) \cup ({n} \ {origin}))

(* remove_entry, for a set of nodes: an origin without nodes is dropped. *)
RemoveKeys(ks, nodes) ==
    LET gone(o) == {n \in nodes \cap DOMAIN graphs : servers[graphs[n]].origin = o}
        left(o) == ks[o] \ gone(o)
        kept    == {o \in DOMAIN ks : gone(o) = {} \/ left(o) # {}}
    IN  [o \in kept |-> left(o)]

-----------------------------------------------------------------------------
(* The program starts with parameters that an earlier backward pass has    *)
(* consumed: their graphs are gone, and operations may use them again.     *)
Init ==
    /\ parents = [n \in 1..NumParams |-> {}]
    /\ held = [t \in Threads |-> 1..NumParams]
    /\ graphs = <<>>
    /\ keys = <<>>
    /\ servers = <<>>
    /\ state = NoThread
    /\ call = [t \in Threads |-> Idle]
    /\ spent = 1..NumParams

(* A thread creates a node, which it holds, and looks up the node's graph. *)
(* The program uses no tensor again that a backward pass has consumed,     *)
(* parameters excepted.                                                    *)
Create(t, ps) ==
    LET n == Len(parents) + 1
    IN  /\ call[t].pc = "idle"
        /\ state = NoThread
        /\ ps \subseteq held[t] /\ ps \cap spent \subseteq 1..NumParams
        /\ IF ps = {}
           THEN Cardinality({m \in Created : parents[m] = {}}) < NumParams + MaxLeaves
           ELSE Cardinality({m \in Created : parents[m] # {}}) < MaxOps
        /\ parents' = Append(parents, ps)
        /\ held' = [held EXCEPT ![t] = @ \cup {n}]

(* Mutant: the node is mapped to the last graph there was before. *)
LocateNew_OffByOne(t, ps) ==
    LET n == Len(parents) + 1
    IN  /\ Create(t, ps)
        /\ GraphsOf(ps) = {}
        /\ servers' = Append(servers, NewServer(n))
        /\ graphs' = Mapped(graphs, {n}, Len(servers))
        /\ keys' = Mapped(keys, {n}, {})
        /\ call' = [call EXCEPT ![t] = Calling("register", n, Len(servers) + 1, {})]
        /\ UNCHANGED <<state, spent>>

(* No parent has a graph: a new one is created for the node. *)
LocateNew(t, ps) ==
    LET n == Len(parents) + 1
    IN  /\ Create(t, ps)
        /\ GraphsOf(ps) = {}
        /\ servers' = Append(servers, NewServer(n))
        /\ graphs' = Mapped(graphs, {n}, Len(servers) + 1)
        /\ keys' = Mapped(keys, {n}, {})
        /\ call' = [call EXCEPT ![t] = Calling("register", n, Len(servers) + 1, {})]
        /\ UNCHANGED <<state, spent>>

(* All parents with a graph have the same: the node joins it. *)
LocateOne(t, ps, g) ==
    LET n == Len(parents) + 1
    IN  /\ Create(t, ps)
        /\ {g} \in Collected(ps)
        /\ graphs' = Mapped(graphs, {n}, g)
        /\ keys' = RegisterKey(keys, servers[g].origin, n)
        /\ call' = [call EXCEPT ![t] = Calling("register", n, g, {})]
        /\ UNCHANGED <<servers, state, spent>>

(* The parents are in several graphs: STATE is kept until they are merged  *)
(* into one of them, whichever the hash map yields first.                  *)
LocateSeveral(t, ps, main) ==
    LET n == Len(parents) + 1
    IN  /\ Create(t, ps)
        /\ \E gs \in Collected(ps) :
            /\ main \in gs /\ gs # {main}
            /\ call' = [call EXCEPT ![t] = Calling("lock", n, main, gs \ {main})]
        /\ keys' = RegisterKey(keys, servers[main].origin, n)
        /\ state' = t
        /\ UNCHANGED <<graphs, servers, spent>>

(* The main graph is locked, for the whole merge. *)
LockMain(t) ==
    LET main == call[t].graph
    IN  /\ call[t].pc = "lock"
        /\ servers[main].holder = NoThread
        /\ servers' = [servers EXCEPT ![main].holder = t]
        /\ call' = [call EXCEPT ![t].pc = "merge"]
        /\ UNCHANGED <<parents, held, graphs, keys, state, spent>>

(* Mutant: nodes of the merged graph still point to it. *)
MergeTwo_NotMoved(t, g) ==
    LET main   == call[t].graph
        origin == servers[g].origin
    IN  /\ call[t].pc = "merge" /\ g \in call[t].others
        /\ servers[g].holder = NoThread
        /\ servers' = [servers EXCEPT ![main] = Extend(@, servers[g]),
                                      ![g] = Emptied(@)]
        /\ keys' = Without(keys, {origin})
        /\ call' = [call EXCEPT ![t].others = @ \ {g}]
        /\ UNCHANGED <<parents, held, graphs, state, spent>>

(* Another graph is locked, its server moves to the main graph, and its     *)
(* origin and all keys of that origin point to the main graph.             *)
MergeTwo(t, g) ==
    LET main   == call[t].graph
        origin == servers[g].origin
        moved  == IF origin \in DOMAIN keys THEN keys[origin] ELSE {}
    IN  /\ call[t].pc = "merge" /\ g \in call[t].others
        /\ servers[g].holder = NoThread
        /\ servers' = [servers EXCEPT ![main] = Extend(@, servers[g]),
                                      ![g] = Emptied(@)]
        /\ graphs' = Mapped(graphs, {origin} \cup moved, main)
        /\ keys' = LET o == servers[main].origin
                   IN  Mapped(Without(keys, {origin}), {o}, keys[o] \cup moved)
        /\ call' = [call EXCEPT ![t].others = @ \ {g}]
        /\ UNCHANGED <<parents, held, state, spent>>

(* The merge is complete: both locks are released. *)
EndMerge(t) ==
    LET main == call[t].graph
    IN  /\ call[t].pc = "merge" /\ call[t].others = {}
        /\ graphs' = Mapped(graphs, {servers[main].origin, call[t].node}, main)
        /\ servers' = [servers EXCEPT ![main].holder = NoThread]
        /\ state' = NoThread
        /\ call' = [call EXCEPT ![t].pc = "register"]
        /\ UNCHANGED <<parents, held, keys, spent>>

(* The graph that was looked up is locked and stores the node. *)
Register(t) ==
    LET g == call[t].graph
    IN  /\ call[t].pc = "register"
        /\ servers[g].holder = NoThread
        /\ servers' = [servers EXCEPT ![g] = RegisterNode(@, call[t].node)]
        /\ call' = [call EXCEPT ![t] = Idle]
        /\ UNCHANGED <<parents, held, graphs, keys, state, spent>>

-----------------------------------------------------------------------------
(* Backward. *)

(* The graph of the root is looked up; a root without one gets a new one.  *)
(* The program calls backward from a tensor no pass has consumed.          *)
LocateRoot(t, r) ==
    /\ call[t].pc = "idle"
    /\ state = NoThread
    /\ r \in held[t] \ spent
    /\ IF r \in DOMAIN graphs
       THEN /\ call' = [call EXCEPT ![t] = Calling("sweep", r, graphs[r], {})]
            /\ keys' = LET origin == servers[graphs[r]].origin
                       IN  IF origin = r THEN keys ELSE RegisterKey(keys, origin, r)
            /\ UNCHANGED <<graphs, servers>>
       ELSE /\ servers' = Append(servers, NewServer(r))
            /\ graphs' = Mapped(graphs, {r}, Len(servers) + 1)
            /\ keys' = Mapped(keys, {r}, {})
            /\ call' = [call EXCEPT ![t] = Calling("sweep", r, Len(servers) + 1, {})]
    /\ UNCHANGED <<parents, held, state, spent>>

(* The graph that was looked up is locked; the steps are taken and executed. *)
Sweep(t) ==
    LET g == call[t].graph
        visited == Visited(servers[g], call[t].node)
    IN  /\ call[t].pc = "sweep"
        /\ servers[g].holder = NoThread
        /\ call[t].node \in servers[g].steps
        /\ spent' = spent \cup visited
        /\ servers' = [servers EXCEPT ![g] = [Consume(@, visited) EXCEPT !.holder = t]]
        /\ call' = [call EXCEPT ![t].pc = "free", ![t].visited = visited]
        /\ UNCHANGED <<parents, held, graphs, keys, state>>

(* "Node should have a step registered": the thread panics and is gone. *)
Panic(t) ==
    LET g == call[t].graph
    IN  /\ call[t].pc = "sweep"
        /\ servers[g].holder = NoThread
        /\ call[t].node \notin servers[g].steps
        /\ call' = [call EXCEPT ![t] = Calling("panicked", 0, 0, {})]
        /\ held' = [held EXCEPT ![t] = {}]
        /\ UNCHANGED <<parents, graphs, keys, servers, state, spent>>

(* With the graph still locked, STATE is locked too; the nodes that no      *)
(* backward pass needs are deleted, and the entries of these and of the    *)
(* visited nodes removed.                                                  *)
Free(t) ==
    LET g == call[t].graph
        gone == Unneeded(servers[g]) \cup call[t].visited
    IN  /\ call[t].pc = "free"
        /\ state = NoThread
        /\ servers' = [servers EXCEPT ![g] =
                [FreeUnavailable(@) EXCEPT !.holder = NoThread]]
        /\ graphs' = Without(graphs, gone)
        /\ keys' = RemoveKeys(keys, gone)
        /\ call' = [call EXCEPT ![t].pc = "snapshot"]
        /\ UNCHANGED <<parents, held, state, spent>>

(* cleanup_orphaned_entries works on a copy of the entries, ... *)
Snapshot(t) ==
    /\ call[t].pc = "snapshot"
    /\ state = NoThread
    /\ call' = [call EXCEPT ![t].pc = "cleanup", ![t].snapshot = graphs]
    /\ UNCHANGED <<parents, held, graphs, keys, servers, state, spent>>

(* ... for each entry locks its graph and, if no node of the graph has a   *)
(* tensor, deletes its roots, ...                                          *)
Cleanup(t, n) ==
    LET g == call[t].snapshot[n]
        roots == IF MaybeUseful(servers[g]) THEN {} ELSE UnusedRoots(servers[g], {})
    IN  /\ call[t].pc = "cleanup" /\ n \in DOMAIN call[t].snapshot
        /\ servers[g].holder = NoThread
        /\ servers' = [servers EXCEPT ![g] = Forget(@, roots)]
        /\ call' = [call EXCEPT ![t].snapshot = Without(@, {n}),
                                ![t].removable = @ \cup roots]
        /\ UNCHANGED <<parents, held, graphs, keys, state, spent>>

(* ... and at last removes the entries of the deleted roots. *)
EndBackward(t) ==
    /\ call[t].pc = "cleanup" /\ DOMAIN call[t].snapshot = {}
    /\ call[t].removable # {} => state = NoThread
    /\ graphs' = Without(graphs, call[t].removable)
    /\ call' = [call EXCEPT ![t] = Idle]
    /\ UNCHANGED <<parents, held, keys, servers, state, spent>>

-----------------------------------------------------------------------------
(* The last tensor a thread has of a node is dropped. *)
Drop(t, n) ==
    /\ call[t].pc = "idle"
    /\ n \in held[t]
    /\ held' = [held EXCEPT ![t] = @ \ {n}]
    /\ UNCHANGED <<parents, graphs, keys, servers, state, call, spent>>

(* A clone of a tensor is sent to another thread. *)
Share(t, u, n) ==
    /\ call[t].pc = "idle"
    /\ n \in held[t] \ held[u]
    /\ held' = [held EXCEPT ![u] = @ \cup {n}]
    /\ UNCHANGED <<parents, graphs, keys, servers, state, call, spent>>

(* Operations have one or two operands. *)
Operands(t) == {ps \in SUBSET held[t] : Cardinality(ps) <= 2}

Next ==
    \E t \in Threads :
        \/ \E ps \in Operands(t) :
            \/ LocateNew(t, ps)
            \/ \E g \in GraphsOf(ps) : LocateOne(t, ps, g) \/ LocateSeveral(t, ps, g)
        \/ LockMain(t)
        \/ \E g \in call[t].others : MergeTwo(t, g)
        \/ EndMerge(t)
        \/ Register(t)
        \/ \E r \in held[t] : LocateRoot(t, r)
        \/ Sweep(t)
        \/ Panic(t)
        \/ Free(t)
        \/ Snapshot(t)
        \/ \E n \in DOMAIN call[t].snapshot : Cleanup(t, n)
        \/ EndBackward(t)
        \/ \E n \in held[t] : Drop(t, n)
        \/ \E u \in Threads, n \in held[t] : Share(t, u, n)

Spec == Init /\ [][Next]_vars

-----------------------------------------------------------------------------
Graphs == 1..Len(servers)

TypeOK ==
    /\ parents \in Seq(SUBSET Created)
    /\ held \in [Threads -> SUBSET Created]
    /\ DOMAIN graphs \subseteq Created /\ Range(graphs) \subseteq Graphs
    /\ DOMAIN keys \subseteq Created /\ Range(keys) \subseteq SUBSET Created
    /\ \A g \in Graphs :
        servers[g] \in [origin : Created, steps : SUBSET Created,
                        nodes : SUBSET Created, leaves : SUBSET Created,
                        holder : Threads \cup {NoThread}]
    /\ state \in Threads \cup {NoThread}
    /\ spent \subseteq Created

Tape == INSTANCE AutodiffTape

(* The step of the node is being registered. *)
Registering(n) ==
    \E t \in Threads : call[t].node = n /\ call[t].pc \in {"lock", "merge", "register"}

(* Memory management frees nothing too early, and merging loses nothing: as *)
(* long as a backward pass from a tensor the program has is possible, all  *)
(* steps it needs are stored in the graph where the tensor is looked up.   *)
PossibleIsReady ==
    \A n \in Created :
        Referenced(n) /\ Tape!Possible(n) /\ ~Registering(n) =>
            /\ n \in DOMAIN graphs
            /\ ({n} \cup Tape!Ancestors(n)) \ spent \subseteq servers[graphs[n]].steps

(* The memory management of a graph knows each of its steps; otherwise the *)
(* panic "Node should be in the nodes map" is reached when it is executed. *)
StepsHaveNodes == \A g \in Graphs : servers[g].steps \subseteq servers[g].nodes

(* A merge moves steps, it never leaves a copy behind: no backward step     *)
(* can be executed twice, with its gradient counted twice.                 *)
StepsInOneGraph ==
    /\ \A g, h \in Graphs : g # h => servers[g].steps \cap servers[h].steps = {}
    /\ \A g \in Graphs : servers[g].steps \cap spent = {}

(* The locator and the servers agree: a node whose step is stored is mapped *)
(* to the graph that stores it, through merges, the backward passes and    *)
(* the cleanup of entries.                                                 *)
LocatorFindsSteps ==
    \A g \in Graphs : \A n \in servers[g].steps :
        n \in DOMAIN graphs /\ graphs[n] = g


(* A backward pass that is possible finds the step of its root in the graph *)
(* that it has looked up and is about to lock: it does not panic.          *)
RootIsReady ==
    \A t \in Threads :
        call[t].pc = "sweep" /\ Tape!Possible(call[t].node) =>
            call[t].node \in servers[call[t].graph].steps

(* After the memory management ran, a graph stores no step (with the state *)
(* it keeps for the backward pass) but those of nodes with a tensor and of *)
(* their ancestors.                                                        *)
NothingUseless ==
    \A t \in Threads : call[t].pc = "snapshot" =>
        LET server == servers[call[t].graph]
        IN  server.steps \subseteq
                Follow({n \in server.nodes : Referenced(n)}, server.nodes)

(* No thread waits for a mutex of a thread that waits for one it holds: a  *)
(* merge waits for a graph with STATE locked, the end of a backward pass   *)
(* waits for STATE with its graph locked.                                  *)
NoCircularWait ==
    \A t, u \in Threads :
        ~ /\ state = t
          /\ call[u].pc = "free"
          /\ \/ call[t].pc = "lock" /\ call[t].graph = call[u].graph
             \/ call[t].pc = "merge" /\ call[u].graph \in call[t].others

(* The graphs implement AutodiffTape. *)
ImplementsTape == Tape!Spec
=============================================================================
