------------------------- MODULE AutodiffGraph_proofs -------------------------
(***************************************************************************)
(* Proofs about AutodiffGraph, for every number of threads, parameters,    *)
(* leaves and operations: no backward step is ever stored twice or         *)
(* executed twice, every stored step is known to the memory management,    *)
(* and the memory management frees every step that is of no use, and none  *)
(* that a backward pass needs.                                             *)
(***************************************************************************)
EXTENDS AutodiffGraph, TLAPS, WellFoundedInduction

Server == [origin : Nat, steps : SUBSET Nat, nodes : SUBSET Nat,
           leaves : SUBSET Nat, holder : Threads \cup {NoThread}]

(* Partial functions from nodes; the entries of the locator map to graphs. *)
Partial(V) == UNION {[D -> V] : D \in SUBSET Nat}

Positions == Nat

Entries == Partial(Positions)

Call == [pc : {"idle", "lock", "merge", "register", "sweep", "free",
               "snapshot", "cleanup", "panicked"},
         node : Nat, graph : Nat, others : SUBSET Nat, visited : SUBSET Nat,
         snapshot : Entries, removable : SUBSET Nat]

-----------------------------------------------------------------------------
(* What the operations of a server do to its steps and its nodes.          *)

LEMMA NewServerFacts ==
    ASSUME NEW n \in Nat
    PROVE  NewServer(n) \in Server /\ NewServer(n).steps = {}
           /\ NewServer(n).nodes = {}
BY DEF NewServer, Server

LEMMA HolderFacts ==
    ASSUME NEW s \in Server, NEW h \in Threads \cup {NoThread}
    PROVE  LET r == [s EXCEPT !.holder = h]
           IN  r \in Server /\ r.steps = s.steps /\ r.nodes = s.nodes
               /\ r.origin = s.origin
BY DEF Server

LEMMA RegisterNodeFacts ==
    ASSUME NEW s \in Server, NEW n \in Nat
    PROVE  LET r == RegisterNode(s, n)
           IN  r \in Server /\ r.steps = s.steps \cup {n} /\ r.nodes = s.nodes \cup {n}
               /\ r.origin = s.origin
BY DEF RegisterNode, Server

LEMMA ExtendFacts ==
    ASSUME NEW s \in Server, NEW o \in Server
    PROVE  LET r == Extend(s, o)
           IN  r \in Server /\ r.steps = s.steps \cup o.steps
               /\ r.nodes = s.nodes \cup o.nodes /\ r.origin = s.origin
BY DEF Extend, Server

LEMMA EmptiedFacts ==
    ASSUME NEW s \in Server
    PROVE  Emptied(s) \in Server /\ Emptied(s).steps = {} /\ Emptied(s).nodes = {}
           /\ Emptied(s).origin = s.origin
BY DEF Emptied, Server

(* A consumed node stays known only if it has a tensor, its step goes. *)
LEMMA ConsumeFacts ==
    ASSUME NEW s \in Server, NEW visited
    PROVE  LET r == Consume(s, visited)
           IN  r \in Server /\ r.steps = s.steps \ visited
               /\ s.nodes \ visited \subseteq r.nodes /\ r.origin = s.origin
BY DEF Consume, Server

LEMMA ForgetFacts ==
    ASSUME NEW s \in Server, NEW gone
    PROVE  LET r == Forget(s, gone)
           IN  r \in Server /\ r.steps = s.steps \ gone /\ r.nodes = s.nodes \ gone
               /\ r.origin = s.origin
BY DEF Forget, Server

LEMMA FreeUnavailableFacts ==
    ASSUME NEW s \in Server
    PROVE  LET r == FreeUnavailable(s)
           IN  r \in Server /\ r.steps = s.steps \ Unneeded(s)
               /\ r.nodes = s.nodes \ Unneeded(s) /\ r.origin = s.origin
<1> DEFINE f == Forget(s, Unneeded(s))
           leaves == Follow(s.leaves, s.nodes \ Useful(s)) \cap Useful(s)
<1>1. f \in Server /\ f.steps = s.steps \ Unneeded(s) /\ f.nodes = s.nodes \ Unneeded(s)
      /\ f.origin = s.origin
  BY ForgetFacts
<1>2. leaves \in SUBSET Nat
  BY DEF Useful, Server
<1>3. FreeUnavailable(s) = [f EXCEPT !.leaves = leaves]
  BY DEF FreeUnavailable
<1> HIDE DEF f, leaves
<1> QED BY <1>1, <1>2, <1>3 DEF Server

-----------------------------------------------------------------------------
(* Updates of the sequence of servers and of the calls.                    *)

LEMMA ServersUpdate ==
    ASSUME NEW f \in Seq(Server), NEW g \in 1..Len(f), NEW v \in Server
    PROVE  LET r == [f EXCEPT ![g] = v]
           IN  r \in Seq(Server) /\ Len(r) = Len(f)
               /\ \A h \in 1..Len(f) : r[h] = IF h = g THEN v ELSE f[h]
OBVIOUS

LEMMA ServersAppend ==
    ASSUME NEW f \in Seq(Server), NEW v \in Server
    PROVE  LET r == Append(f, v)
           IN  r \in Seq(Server) /\ Len(r) = Len(f) + 1 /\ r[Len(f) + 1] = v
               /\ \A h \in 1..Len(f) : r[h] = f[h]
OBVIOUS

LEMMA PartialType ==
    ASSUME NEW V, NEW f, DOMAIN f \in SUBSET Nat, f = [x \in DOMAIN f |-> f[x]],
           \A x \in DOMAIN f : f[x] \in V
    PROVE  f \in Partial(V)
<1>1. f \in [DOMAIN f -> V]
  OBVIOUS
<1> QED BY <1>1 DEF Partial

LEMMA PartialFacts ==
    ASSUME NEW V, NEW f \in Partial(V)
    PROVE  DOMAIN f \in SUBSET Nat /\ \A x \in DOMAIN f : f[x] \in V
<1>1. PICK D \in SUBSET Nat : f \in [D -> V]
  BY DEF Partial
<1> QED BY <1>1

LEMMA MappedType ==
    ASSUME NEW V, NEW f \in Partial(V), NEW S \in SUBSET Nat, NEW v \in V
    PROVE  LET r == Mapped(f, S, v)
           IN  r \in Partial(V) /\ DOMAIN r = DOMAIN f \cup S
               /\ \A x \in DOMAIN r : r[x] = IF x \in S THEN v ELSE f[x]
<1> DEFINE r == [x \in DOMAIN f \cup S |-> IF x \in S THEN v ELSE f[x]]
<1>1. DOMAIN f \in SUBSET Nat /\ \A x \in DOMAIN f : f[x] \in V
  BY PartialFacts
<1>2. DOMAIN r = DOMAIN f \cup S /\ r = [x \in DOMAIN r |-> r[x]]
      /\ \A x \in DOMAIN r : r[x] = IF x \in S THEN v ELSE f[x]
  OBVIOUS
<1>3. DOMAIN r \in SUBSET Nat /\ \A x \in DOMAIN r : r[x] \in V
  BY <1>1, <1>2
<1>4. Mapped(f, S, v) = r
  BY DEF Mapped
<1> HIDE DEF r
<1>5. r \in Partial(V)
  BY <1>2, <1>3, PartialType
<1> QED BY <1>2, <1>4, <1>5

LEMMA WithoutType ==
    ASSUME NEW V, NEW f \in Partial(V), NEW S
    PROVE  LET r == Without(f, S)
           IN  r \in Partial(V) /\ DOMAIN r = DOMAIN f \ S
               /\ \A x \in DOMAIN r : r[x] = f[x]
<1> DEFINE r == [x \in DOMAIN f \ S |-> f[x]]
<1>1. DOMAIN f \in SUBSET Nat /\ \A x \in DOMAIN f : f[x] \in V
  BY PartialFacts
<1>2. DOMAIN r = DOMAIN f \ S /\ r = [x \in DOMAIN r |-> r[x]]
      /\ \A x \in DOMAIN r : r[x] = f[x]
  OBVIOUS
<1>3. DOMAIN r \in SUBSET Nat /\ \A x \in DOMAIN r : r[x] \in V
  BY <1>1, <1>2
<1>4. Without(f, S) = r
  BY DEF Without, Restrict
<1> HIDE DEF r
<1>5. r \in Partial(V)
  BY <1>2, <1>3, PartialType
<1> QED BY <1>2, <1>4, <1>5

Keys == Partial(SUBSET Nat)

LEMMA RegisterKeyType ==
    ASSUME NEW ks \in Keys, NEW o \in Nat, NEW n \in Nat
    PROVE  RegisterKey(ks, o, n) \in Keys
<1> DEFINE v == (IF o \in DOMAIN ks THEN ks[o] ELSE {}) \cup ({n} \ {o})
<1>1. v \in SUBSET Nat
  BY PartialFacts DEF Keys
<1>2. RegisterKey(ks, o, n) = Mapped(ks, {o}, v)
  BY DEF RegisterKey
<1> HIDE DEF v
<1>3. ks \in Partial(SUBSET Nat) /\ {o} \in SUBSET Nat
  BY DEF Keys
<1>4. Mapped(ks, {o}, v) \in Partial(SUBSET Nat)
  BY <1>1, <1>3, MappedType
<1> QED BY <1>2, <1>4 DEF Keys

LEMMA RemoveKeysType ==
    ASSUME NEW ks \in Keys, NEW nodes
    PROVE  RemoveKeys(ks, nodes) \in Keys
<1> DEFINE gone(o) == {n \in nodes \cap DOMAIN graphs : servers[graphs[n]].origin = o}
           kept    == {o \in DOMAIN ks : gone(o) = {} \/ ks[o] \ gone(o) # {}}
           r       == [o \in kept |-> ks[o] \ gone(o)]
<1>1. DOMAIN ks \in SUBSET Nat /\ \A x \in DOMAIN ks : ks[x] \in SUBSET Nat
  BY PartialFacts DEF Keys
<1>2. RemoveKeys(ks, nodes) = r
  BY DEF RemoveKeys
<1>3. DOMAIN r = kept /\ r = [x \in DOMAIN r |-> r[x]]
      /\ \A x \in DOMAIN r : r[x] = ks[x] \ gone(x)
  OBVIOUS
<1> HIDE DEF gone, r
<1>4. DOMAIN r \in SUBSET Nat /\ \A x \in DOMAIN r : r[x] \in SUBSET Nat
  BY <1>1, <1>3
<1>5. r \in Partial(SUBSET Nat)
  BY <1>3, <1>4, PartialType
<1> QED BY <1>2, <1>5 DEF Keys

-----------------------------------------------------------------------------
(* The inductive invariant.                                                *)

Types ==
    /\ parents \in Seq(SUBSET Nat)
    /\ held \in [Threads -> SUBSET Nat]
    /\ graphs \in Entries
    /\ keys \in Keys
    /\ servers \in Seq(Server)
    /\ call \in [Threads -> Call]

(* The locator and the calls refer to graphs that exist. *)
GraphsExist ==
    /\ \A n \in DOMAIN graphs : graphs[n] \in 1..Len(servers)
    /\ \A t \in Threads :
        LET c == call[t]
        IN  /\ c.pc \notin {"idle", "panicked"} => c.graph \in 1..Len(servers)
            /\ c.others \subseteq 1..Len(servers)
            /\ \A n \in DOMAIN c.snapshot : c.snapshot[n] \in 1..Len(servers)

(* A graph is never merged into itself. *)
MergesOthers == \A t \in Threads : call[t].graph \notin call[t].others

(* The thread has created its node but not yet stored the step. *)
Pending(t) == call[t].pc \in {"lock", "merge", "register"}

(* The node whose step is to be stored is nobody else's, and its step is    *)
(* neither stored nor executed.                                            *)
PendingIsFresh ==
    \A t \in Threads : Pending(t) =>
        /\ call[t].node \in Created
        /\ call[t].node \notin spent
        /\ \A g \in Graphs : call[t].node \notin servers[g].steps
        /\ \A u \in Threads \ {t} : Pending(u) => call[u].node # call[t].node

StepsAreCreated ==
    /\ \A g \in Graphs : servers[g].steps \subseteq Created
    /\ spent \subseteq Created

IInv ==
    /\ Types
    /\ GraphsExist
    /\ MergesOthers
    /\ PendingIsFresh
    /\ StepsAreCreated
    /\ StepsHaveNodes
    /\ StepsInOneGraph

(* During a merge the thread holds STATE, and the origins of the graphs     *)
(* differ, so that the keys of the main graph stay where the merge expects *)
(* them ("Should be init before the merge").                               *)
Merging(t) == call[t].pc \in {"lock", "merge"}

MergeHoldsState ==
    \A t \in Threads : Merging(t) =>
        LET o == servers[call[t].graph].origin
        IN  /\ state = t
            /\ o \in DOMAIN keys
            /\ \A g \in call[t].others : servers[g].origin # o

USE NoThreadAssumption, BoundsAssumption

(* Steps that store no step: stored steps may go, and may be executed when *)
(* they do; new graphs store nothing; a node that becomes pending is new.  *)
LEMMA QuietStep ==
    ASSUME IInv, Types', GraphsExist', MergesOthers',
           Len(parents') >= Len(parents),
           Len(servers') >= Len(servers),
           \A g \in 1..Len(servers') : g \in 1..Len(servers) =>
                /\ servers'[g].steps \subseteq servers[g].steps
                /\ servers'[g].steps \subseteq servers'[g].nodes
                /\ servers'[g].steps \cap spent' = {},
           \A g \in 1..Len(servers') : g \notin 1..Len(servers) =>
                servers'[g].steps = {},
           \A n \in spent' : n \in spent \/ \E g \in 1..Len(servers) : n \in servers[g].steps,
           \A t \in Threads : Pending(t)' =>
                \/ Pending(t) /\ call'[t].node = call[t].node
                \/ /\ call'[t].node \in 1..Len(parents') \ 1..Len(parents)
                   /\ \A u \in Threads \ {t} : Pending(u)' =>
                        Pending(u) /\ call'[u].node = call[u].node
    PROVE  IInv'
<1> USE DEF Graphs, Created
<1>1. Len(servers) \in Nat /\ Len(servers') \in Nat /\ Len(parents) \in Nat /\ Len(parents') \in Nat
  BY DEF IInv, Types
<1>2. 1..Len(parents) \subseteq 1..Len(parents')
  BY <1>1
<1>3. \A g \in 1..Len(servers) : servers[g].steps \subseteq 1..Len(parents)
  BY DEF IInv, StepsAreCreated
<1>4. \A n \in spent' : n \in 1..Len(parents)
  BY <1>3 DEF IInv, StepsAreCreated
<1>5. \A g \in 1..Len(servers') : servers'[g].steps \subseteq 1..Len(parents)
  BY <1>3
<1>6. StepsAreCreated'
  BY <1>2, <1>4, <1>5 DEF StepsAreCreated
<1>7. StepsHaveNodes'
  BY <1>1 DEF StepsHaveNodes
<1>8. StepsInOneGraph'
  BY <1>1 DEF IInv, StepsInOneGraph
<1>9. PendingIsFresh'
  <2> SUFFICES ASSUME NEW t \in Threads, Pending(t)'
               PROVE  /\ call'[t].node \in 1..Len(parents')
                      /\ call'[t].node \notin spent'
                      /\ \A g \in 1..Len(servers') : call'[t].node \notin servers'[g].steps
                      /\ \A u \in Threads \ {t} : Pending(u)' => call'[u].node # call'[t].node
    BY DEF PendingIsFresh
  <2>1. \A u \in Threads : Pending(u) =>
           /\ call[u].node \in 1..Len(parents) /\ call[u].node \notin spent
           /\ \A g \in 1..Len(servers) : call[u].node \notin servers[g].steps
           /\ \A v \in Threads \ {u} : Pending(v) => call[v].node # call[u].node
    BY DEF IInv, PendingIsFresh
  <2>2. CASE Pending(t) /\ call'[t].node = call[t].node
    BY <1>2, <2>1, <2>2
  <2>3. CASE /\ call'[t].node \in 1..Len(parents') \ 1..Len(parents)
             /\ \A u \in Threads \ {t} : Pending(u)' =>
                    Pending(u) /\ call'[u].node = call[u].node
    BY <1>4, <1>5, <2>1, <2>3
  <2> QED BY <2>2, <2>3
<1> QED BY <1>6, <1>7, <1>8, <1>9 DEF IInv

-----------------------------------------------------------------------------
(* The calls: what a thread changes of its own call.                       *)

LEMMA EmptyEntries == <<>> \in Entries
<1>1. <<>> \in [{} -> Positions]
  OBVIOUS
<1> QED BY <1>1 DEF Entries, Partial

LEMMA CallingFacts ==
    ASSUME NEW pc \in {"idle", "lock", "merge", "register", "sweep", "free",
                       "snapshot", "cleanup", "panicked"},
           NEW n \in Nat, NEW g \in Nat, NEW o \in SUBSET Nat
    PROVE  /\ Calling(pc, n, g, o) \in Call
           /\ Calling(pc, n, g, o).pc = pc
           /\ Calling(pc, n, g, o).node = n
           /\ Calling(pc, n, g, o).graph = g
           /\ Calling(pc, n, g, o).others = o
           /\ DOMAIN Calling(pc, n, g, o).snapshot = {}
<1>1. <<>> \in Entries
  BY EmptyEntries
<1>2. DOMAIN <<>> = {}
  OBVIOUS
<1> QED BY <1>1, <1>2 DEF Calling, Call

LEMMA RegisterCall ==
    ASSUME NEW n \in Nat, NEW g \in Nat
    PROVE  /\ Calling("register", n, g, {}) \in Call
           /\ Calling("register", n, g, {}).pc = "register"
           /\ Calling("register", n, g, {}).node = n
           /\ Calling("register", n, g, {}).graph = g
           /\ Calling("register", n, g, {}).others = {}
           /\ DOMAIN Calling("register", n, g, {}).snapshot = {}
<1>1. "register" \in {"idle", "lock", "merge", "register", "sweep", "free",
                       "snapshot", "cleanup", "panicked"} /\ {} \in SUBSET Nat
  OBVIOUS
<1> QED BY <1>1, CallingFacts

LEMMA IdleFacts ==
    Idle \in Call /\ Idle.pc = "idle" /\ Idle.others = {} /\ DOMAIN Idle.snapshot = {}
    /\ Idle.graph = 0
BY CallingFacts DEF Idle

LEMMA InitIInv == Init => IInv
<1> SUFFICES ASSUME Init PROVE IInv
  OBVIOUS
<1>1. servers = <<>> /\ graphs = <<>> /\ spent = 1..NumParams
      /\ keys = <<>> /\ call = [t \in Threads |-> Idle]
      /\ parents = [n \in 1..NumParams |-> {}]
      /\ held = [t \in Threads |-> 1..NumParams]
  BY DEF Init
<1>2. Len(servers) = 0 /\ 1..Len(servers) = {} /\ servers \in Seq(Server)
  BY <1>1
<1>3. DOMAIN graphs = {}
  BY <1>1
<1>4. graphs \in Entries /\ keys \in Keys
  <2>1. <<>> \in [{} -> SUBSET Nat]
    OBVIOUS
  <2> QED BY <1>1, <2>1, EmptyEntries DEF Keys, Partial
<1>5. parents \in Seq(SUBSET Nat) /\ Len(parents) = NumParams
  BY <1>1
<1>6. held \in [Threads -> SUBSET Nat]
  BY <1>1
<1>7. call \in [Threads -> Call]
  BY <1>1, IdleFacts
<1>8. Types
  BY <1>2, <1>4, <1>5, <1>6, <1>7 DEF Types
<1>9. \A t \in Threads : call[t] = Idle
  BY <1>1
<1>10. \A t \in Threads : call[t].pc = "idle" /\ call[t].others = {}
                          /\ DOMAIN call[t].snapshot = {}
  BY <1>9, IdleFacts
<1>11. GraphsExist
  BY <1>3, <1>10 DEF GraphsExist
<1>12. MergesOthers /\ PendingIsFresh
  BY <1>10 DEF MergesOthers, PendingIsFresh, Pending
<1>13. StepsAreCreated
  BY <1>1, <1>2, <1>5 DEF StepsAreCreated, Graphs, Created
<1>14. StepsHaveNodes /\ StepsInOneGraph
  BY <1>2 DEF StepsHaveNodes, StepsInOneGraph, Graphs
<1> QED BY <1>8, <1>11, <1>12, <1>13, <1>14 DEF IInv

LEMMA CallUpdate ==
    ASSUME call \in [Threads -> Call], NEW t \in Threads, NEW c \in Call,
           call' = [call EXCEPT ![t] = c]
    PROVE  /\ call' \in [Threads -> Call]
           /\ call'[t] = c
           /\ \A u \in Threads : u # t => call'[u] = call[u]
OBVIOUS

(* GraphsExist and MergesOthers after a step that changes the call of t and *)
(* keeps the graphs that exist.                                            *)
LEMMA GraphsStillExist ==
    ASSUME IInv, NEW t \in Threads, NEW c \in Call,
           call' = [call EXCEPT ![t] = c],
           Len(servers') \in Nat, Len(servers') >= Len(servers),
           c.pc \notin {"idle", "panicked"} => c.graph \in 1..Len(servers'),
           c.others \subseteq 1..Len(servers'),
           c.graph \notin c.others,
           \A n \in DOMAIN c.snapshot : c.snapshot[n] \in 1..Len(servers'),
           \A n \in DOMAIN graphs' : graphs'[n] \in 1..Len(servers')
    PROVE  GraphsExist' /\ MergesOthers'
<1>1. call'[t] = c /\ \A u \in Threads : u # t => call'[u] = call[u]
  BY CallUpdate DEF IInv, Types
<1>2. 1..Len(servers) \subseteq 1..Len(servers')
  BY DEF IInv, Types
<1>3. MergesOthers'
  BY <1>1 DEF IInv, MergesOthers
<1>4. ASSUME NEW u \in Threads
      PROVE  /\ call'[u].pc \notin {"idle", "panicked"} => call'[u].graph \in 1..Len(servers')
             /\ call'[u].others \subseteq 1..Len(servers')
             /\ \A n \in DOMAIN call'[u].snapshot : call'[u].snapshot[n] \in 1..Len(servers')
  <2>1. CASE u = t
    BY <1>1, <2>1
  <2>2. CASE u # t
    <3>1. call'[u] = call[u]
      BY <1>1, <2>2
    <3>2. /\ call[u].pc \notin {"idle", "panicked"} => call[u].graph \in 1..Len(servers)
          /\ call[u].others \subseteq 1..Len(servers)
          /\ \A n \in DOMAIN call[u].snapshot : call[u].snapshot[n] \in 1..Len(servers)
      BY DEF IInv, GraphsExist
    <3> QED BY <1>2, <3>1, <3>2
  <2> QED BY <2>1, <2>2
<1>5. GraphsExist'
  BY <1>4 DEF GraphsExist
<1> QED BY <1>3, <1>5

LEMMA CreateFacts ==
    ASSUME IInv, NEW t \in Threads, NEW ps \in SUBSET held[t], Create(t, ps)
    PROVE  /\ Len(parents) + 1 \in Nat
           /\ parents' \in Seq(SUBSET Nat)
           /\ Len(parents') = Len(parents) + 1
           /\ Len(parents) + 1 \in 1..Len(parents') \ 1..Len(parents)
           /\ held' \in [Threads -> SUBSET Nat]
<1>1. parents \in Seq(SUBSET Nat) /\ held \in [Threads -> SUBSET Nat]
  BY DEF IInv, Types
<1>2. Len(parents) \in Nat /\ ps \in SUBSET Nat
  BY <1>1
<1>3. parents' = Append(parents, ps)
      /\ held' = [held EXCEPT ![t] = @ \cup {Len(parents) + 1}]
  BY DEF Create
<1> QED BY <1>1, <1>2, <1>3

(* A node is created: it becomes pending, no graph changes but a new one. *)
LEMMA CreateStep ==
    ASSUME IInv, NEW t \in Threads, NEW ps \in SUBSET held[t], Create(t, ps),
           NEW c \in Call, c.node = Len(parents) + 1,
           call' = [call EXCEPT ![t] = c],
           graphs' \in Entries, keys' \in Keys, GraphsExist', MergesOthers',
           spent' = spent,
           servers' = servers \/ servers' = Append(servers, NewServer(Len(parents) + 1))
    PROVE  IInv'
<1>1. /\ Len(parents) + 1 \in Nat
      /\ parents' \in Seq(SUBSET Nat)
      /\ Len(parents') = Len(parents) + 1
      /\ Len(parents) + 1 \in 1..Len(parents') \ 1..Len(parents)
      /\ held' \in [Threads -> SUBSET Nat]
  BY CreateFacts
<1>2. /\ call' \in [Threads -> Call]
      /\ call'[t] = c
      /\ \A u \in Threads : u # t => call'[u] = call[u]
  BY CallUpdate DEF IInv, Types
<1>3. /\ servers' \in Seq(Server) /\ Len(servers') \in Nat /\ Len(servers) \in Nat
      /\ Len(servers') >= Len(servers)
      /\ \A g \in 1..Len(servers) : servers'[g] = servers[g]
      /\ \A g \in 1..Len(servers') : g \notin 1..Len(servers) => servers'[g].steps = {}
  <2>1. servers \in Seq(Server) /\ Len(servers) \in Nat
    BY DEF IInv, Types
  <2>2. CASE servers' = servers
    BY <2>1, <2>2
  <2>3. CASE servers' = Append(servers, NewServer(Len(parents) + 1))
    <3> DEFINE v == NewServer(Len(parents) + 1)
    <3>1. v \in Server /\ v.steps = {}
      BY <1>1, NewServerFacts
    <3> HIDE DEF v
    <3>2. servers' = Append(servers, v)
      BY <2>3 DEF v
    <3>3. servers' \in Seq(Server) /\ Len(servers') = Len(servers) + 1
          /\ servers'[Len(servers) + 1] = v
          /\ \A h \in 1..Len(servers) : servers'[h] = servers[h]
      BY <2>1, <3>1, <3>2, ServersAppend
    <3> QED BY <2>1, <3>1, <3>3
  <2> QED BY <2>2, <2>3
<1>4. Types'
  BY <1>1, <1>2, <1>3 DEF Types
<1>5. \A g \in 1..Len(servers') : g \in 1..Len(servers) =>
         /\ servers'[g].steps \subseteq servers[g].steps
         /\ servers'[g].steps \subseteq servers'[g].nodes
         /\ servers'[g].steps \cap spent' = {}
  BY <1>3 DEF IInv, StepsHaveNodes, StepsInOneGraph, Graphs
<1>6. \A u \in Threads : u # t /\ Pending(u)' => Pending(u) /\ call'[u].node = call[u].node
  BY <1>2 DEF Pending
<1>7. \A u \in Threads : Pending(u)' =>
         \/ Pending(u) /\ call'[u].node = call[u].node
         \/ /\ call'[u].node \in 1..Len(parents') \ 1..Len(parents)
            /\ \A v \in Threads \ {u} : Pending(v)' =>
                  Pending(v) /\ call'[v].node = call[v].node
  BY <1>1, <1>2, <1>6
<1> QED BY <1>1, <1>3, <1>4, <1>5, <1>7, QuietStep

(* No node is created, and the call of t does not become pending. *)
LEMMA QuietCall ==
    ASSUME IInv, NEW t \in Threads, NEW c \in Call,
           call' = [call EXCEPT ![t] = c],
           c.pc \in {"lock", "merge", "register"} => Pending(t) /\ c.node = call[t].node,
           parents' = parents, held' \in [Threads -> SUBSET Nat],
           graphs' \in Entries, keys' \in Keys, servers' \in Seq(Server),
           Len(servers') >= Len(servers), GraphsExist', MergesOthers',
           \A g \in 1..Len(servers') : g \in 1..Len(servers) =>
                /\ servers'[g].steps \subseteq servers[g].steps
                /\ servers'[g].steps \subseteq servers'[g].nodes
                /\ servers'[g].steps \cap spent' = {},
           \A g \in 1..Len(servers') : g \notin 1..Len(servers) =>
                servers'[g].steps = {},
           \A n \in spent' : n \in spent \/ \E g \in 1..Len(servers) : n \in servers[g].steps
    PROVE  IInv'
<1>1. /\ call' \in [Threads -> Call]
      /\ call'[t] = c
      /\ \A u \in Threads : u # t => call'[u] = call[u]
  BY CallUpdate DEF IInv, Types
<1>2. Types'
  BY <1>1 DEF IInv, Types
<1>3. \A u \in Threads : Pending(u)' => Pending(u) /\ call'[u].node = call[u].node
  BY <1>1 DEF Pending
<1>4. Len(parents') >= Len(parents)
  BY DEF IInv, Types
<1> QED BY <1>2, <1>3, <1>4, QuietStep

(* ... and only the server of one graph g changes, to s. *)
LEMMA OneServer ==
    ASSUME IInv, NEW t \in Threads, NEW c \in Call,
           call' = [call EXCEPT ![t] = c],
           c.pc \in {"lock", "merge", "register"} => Pending(t) /\ c.node = call[t].node,
           parents' = parents, held' \in [Threads -> SUBSET Nat],
           graphs' \in Entries, keys' \in Keys,
           NEW g \in 1..Len(servers), NEW s \in Server,
           servers' = [servers EXCEPT ![g] = s],
           s.steps \subseteq servers[g].steps, s.steps \subseteq s.nodes,
           spent' = spent \/ spent' = spent \cup (servers[g].steps \ s.steps),
           c.pc \notin {"idle", "panicked"} => c.graph \in 1..Len(servers),
           c.others \subseteq 1..Len(servers),
           c.graph \notin c.others,
           \A n \in DOMAIN c.snapshot : c.snapshot[n] \in 1..Len(servers),
           \A n \in DOMAIN graphs' : graphs'[n] \in 1..Len(servers)
    PROVE  IInv'
<1>1. servers \in Seq(Server) /\ Len(servers) \in Nat
  BY DEF IInv, Types
<1>2. /\ servers' \in Seq(Server) /\ Len(servers') = Len(servers)
      /\ \A h \in 1..Len(servers) : servers'[h] = IF h = g THEN s ELSE servers[h]
  BY <1>1, ServersUpdate
<1>3. GraphsExist' /\ MergesOthers'
  <2>1. /\ c.pc \notin {"idle", "panicked"} => c.graph \in 1..Len(servers')
        /\ c.others \subseteq 1..Len(servers')
        /\ \A n \in DOMAIN c.snapshot : c.snapshot[n] \in 1..Len(servers')
        /\ \A n \in DOMAIN graphs' : graphs'[n] \in 1..Len(servers')
    BY <1>2
  <2>2. Len(servers') \in Nat /\ Len(servers') >= Len(servers)
    BY <1>1, <1>2
  <2> QED BY <2>1, <2>2, GraphsStillExist
<1>4. /\ \A h \in 1..Len(servers) : servers[h].steps \subseteq servers[h].nodes
      /\ \A h \in 1..Len(servers) : servers[h].steps \cap spent = {}
      /\ \A h \in 1..Len(servers) : h # g => servers[h].steps \cap servers[g].steps = {}
  BY DEF IInv, StepsHaveNodes, StepsInOneGraph, Graphs
<1>5. ASSUME NEW h \in 1..Len(servers)
      PROVE  /\ servers'[h].steps \subseteq servers[h].steps
             /\ servers'[h].steps \subseteq servers'[h].nodes
             /\ servers'[h].steps \cap spent' = {}
  <2>1. CASE h = g
    BY <1>2, <1>4, <2>1
  <2>2. CASE h # g
    BY <1>2, <1>4, <2>2
  <2> QED BY <2>1, <2>2
<1>6. \A n \in spent' : n \in spent \/ \E h \in 1..Len(servers) : n \in servers[h].steps
  OBVIOUS
<1>7. \A h \in 1..Len(servers') : h \in 1..Len(servers)
  BY <1>2
<1>8. Len(servers') >= Len(servers)
  BY <1>1, <1>2
<1> QED BY <1>2, <1>3, <1>5, <1>6, <1>7, <1>8, QuietCall

(* ... and no server changes. *)
LEMMA NoServer ==
    ASSUME IInv, NEW t \in Threads, NEW c \in Call,
           call' = [call EXCEPT ![t] = c],
           c.pc \in {"lock", "merge", "register"} => Pending(t) /\ c.node = call[t].node,
           parents' = parents, held' \in [Threads -> SUBSET Nat],
           graphs' \in Entries, keys' \in Keys,
           servers' = servers, spent' = spent,
           c.pc \notin {"idle", "panicked"} => c.graph \in 1..Len(servers),
           c.others \subseteq 1..Len(servers),
           c.graph \notin c.others,
           \A n \in DOMAIN c.snapshot : c.snapshot[n] \in 1..Len(servers),
           \A n \in DOMAIN graphs' : graphs'[n] \in 1..Len(servers)
    PROVE  IInv'
<1>1. servers' \in Seq(Server) /\ Len(servers') \in Nat /\ Len(servers') >= Len(servers)
  BY DEF IInv, Types
<1>2. GraphsExist' /\ MergesOthers'
  BY <1>1, GraphsStillExist
<1>3. \A h \in 1..Len(servers') :
         /\ servers'[h].steps \subseteq servers[h].steps
         /\ servers'[h].steps \subseteq servers'[h].nodes
         /\ servers'[h].steps \cap spent' = {}
  BY DEF IInv, StepsHaveNodes, StepsInOneGraph, Graphs
<1>4. \A h \in 1..Len(servers') : h \in 1..Len(servers)
  OBVIOUS
<1> QED BY <1>1, <1>2, <1>3, <1>4, QuietCall

(* What the invariant says of one thread, its call, and the graphs. *)
LEMMA Known ==
    ASSUME IInv, NEW t \in Threads
    PROVE  /\ call[t] \in Call
           /\ call[t].pc \notin {"idle", "panicked"} => call[t].graph \in 1..Len(servers)
           /\ call[t].others \subseteq 1..Len(servers)
           /\ call[t].graph \notin call[t].others
           /\ \A n \in DOMAIN call[t].snapshot : call[t].snapshot[n] \in 1..Len(servers)
           /\ held \in [Threads -> SUBSET Nat]
           /\ graphs \in Entries /\ DOMAIN graphs \subseteq Nat
           /\ \A n \in DOMAIN graphs : graphs[n] \in 1..Len(servers)
           /\ keys \in Keys
           /\ \A o \in DOMAIN keys : keys[o] \in SUBSET Nat
           /\ Len(servers) \in Nat
           /\ \A g \in 1..Len(servers) :
                servers[g] \in Server /\ servers[g].origin \in Nat
                /\ servers[g].steps \subseteq servers[g].nodes
<1>1. call[t] \in Call /\ held \in [Threads -> SUBSET Nat] /\ Len(servers) \in Nat
      /\ graphs \in Entries /\ keys \in Keys
      /\ \A g \in 1..Len(servers) : servers[g] \in Server
  BY DEF IInv, Types
<1>2. DOMAIN graphs \subseteq Nat /\ \A o \in DOMAIN keys : keys[o] \in SUBSET Nat
  BY <1>1, PartialFacts DEF Entries, Keys
<1>3. \A g \in 1..Len(servers) : servers[g].origin \in Nat
  BY <1>1 DEF Server
<1> QED BY <1>1, <1>2, <1>3 DEF IInv, GraphsExist, MergesOthers, StepsHaveNodes, Graphs

LEMMA MapNodes ==
    ASSUME IInv, NEW t \in Threads, NEW S \in SUBSET Nat, NEW k \in Nat, NEW g \in 1..k,
           k >= Len(servers), graphs' = Mapped(graphs, S, g)
    PROVE  graphs' \in Entries /\ \A m \in DOMAIN graphs' : graphs'[m] \in 1..k
<1>1. graphs \in Partial(Positions) /\ Len(servers) \in Nat
      /\ \A m \in DOMAIN graphs : graphs[m] \in 1..Len(servers)
  BY Known DEF Entries
<1>2. g \in Positions
  BY DEF Positions
<1> DEFINE r == Mapped(graphs, S, g)
<1>3. r \in Partial(Positions)
  BY <1>1, <1>2, MappedType
<1>4. \A x \in DOMAIN r : r[x] \in 1..k
  BY <1>1 DEF Mapped
<1>5. graphs' = r
  OBVIOUS
<1> HIDE DEF r
<1> QED BY <1>3, <1>4, <1>5 DEF Entries

LEMMA UnmapNodes ==
    ASSUME IInv, NEW t \in Threads, NEW S, graphs' = Without(graphs, S)
    PROVE  graphs' \in Entries /\ \A m \in DOMAIN graphs' : graphs'[m] \in 1..Len(servers)
<1>1. graphs \in Partial(Positions)
      /\ \A m \in DOMAIN graphs : graphs[m] \in 1..Len(servers)
  BY Known DEF Entries
<1> DEFINE r == Without(graphs, S)
<1>2. r \in Partial(Positions) /\ DOMAIN r = DOMAIN graphs \ S
      /\ \A x \in DOMAIN r : r[x] = graphs[x]
  BY <1>1, WithoutType
<1>3. graphs' = r
  OBVIOUS
<1> HIDE DEF r
<1> QED BY <1>1, <1>2, <1>3 DEF Entries

LEMMA AddKey ==
    ASSUME NEW ks \in Keys, NEW n \in Nat, NEW v \in SUBSET Nat
    PROVE  Mapped(ks, {n}, v) \in Keys
<1>1. ks \in Partial(SUBSET Nat) /\ {n} \in SUBSET Nat
  BY DEF Keys
<1> QED BY <1>1, MappedType DEF Keys

LEMMA LocateNewStep ==
    ASSUME IInv, NEW t \in Threads, NEW ps \in SUBSET held[t], LocateNew(t, ps)
    PROVE  IInv'
<1> DEFINE n == Len(parents) + 1
           g == Len(servers) + 1
           c == Calling("register", n, g, {})
<1>1. Create(t, ps) /\ spent' = spent
      /\ servers' = Append(servers, NewServer(n))
      /\ graphs' = Mapped(graphs, {n}, g)
      /\ keys' = Mapped(keys, {n}, {})
  BY DEF LocateNew
<1>2. call' = [call EXCEPT ![t] = c]
  BY DEF LocateNew
<1>3. n \in Nat /\ g \in Nat /\ g = Len(servers) + 1 /\ Len(servers) \in Nat
  BY CreateFacts, Known, <1>1
<1>4. n = Len(parents) + 1
  OBVIOUS
<1> HIDE DEF n, g
<1>5. c \in Call /\ c.pc = "register" /\ c.node = n /\ c.graph = g /\ c.others = {}
      /\ DOMAIN c.snapshot = {}
  BY <1>3, RegisterCall
<1> HIDE DEF c
<1>6. Len(servers') = g
  <2>1. NewServer(n) \in Server /\ servers \in Seq(Server)
    BY <1>3, NewServerFacts DEF IInv, Types
  <2> QED BY <1>1, <1>3, <2>1, ServersAppend
<1>7. graphs' \in Entries /\ \A m \in DOMAIN graphs' : graphs'[m] \in 1..Len(servers')
  <2>1. {n} \in SUBSET Nat /\ g \in 1..g /\ g >= Len(servers)
    BY <1>3
  <2> QED BY <1>1, <1>3, <1>6, <2>1, MapNodes
<1>8. keys' \in Keys
  BY <1>1, <1>3, Known, AddKey
<1>9. GraphsExist' /\ MergesOthers'
  <2>1. Len(servers') \in Nat /\ Len(servers') >= Len(servers)
        /\ c.graph \in 1..Len(servers')
    BY <1>3, <1>5, <1>6
  <2> QED BY <1>2, <1>5, <1>7, <2>1, GraphsStillExist
<1>10. servers' = Append(servers, NewServer(Len(parents) + 1)) /\ c.node = Len(parents) + 1
  BY <1>1, <1>4, <1>5
<1> QED BY <1>1, <1>2, <1>5, <1>7, <1>8, <1>9, <1>10, CreateStep

LEMMA GraphsOfExist ==
    ASSUME IInv, NEW ps
    PROVE  GraphsOf(ps) \subseteq 1..Len(servers)
BY DEF GraphsOf, IInv, GraphsExist

LEMMA LocateOneStep ==
    ASSUME IInv, NEW t \in Threads, NEW ps \in SUBSET held[t], NEW g \in GraphsOf(ps),
           LocateOne(t, ps, g)
    PROVE  IInv'
<1> DEFINE n == Len(parents) + 1
           c == Calling("register", n, g, {})
<1>1. Create(t, ps) /\ spent' = spent /\ servers' = servers
      /\ graphs' = Mapped(graphs, {n}, g)
      /\ keys' = RegisterKey(keys, servers[g].origin, n)
  BY DEF LocateOne
<1>2. call' = [call EXCEPT ![t] = c]
  BY DEF LocateOne
<1>3. n \in Nat /\ g \in 1..Len(servers) /\ g \in Nat /\ Len(servers) \in Nat
  BY CreateFacts, GraphsOfExist, Known, <1>1
<1>4. n = Len(parents) + 1
  OBVIOUS
<1> HIDE DEF n
<1>5. c \in Call /\ c.pc = "register" /\ c.node = n /\ c.graph = g /\ c.others = {}
      /\ DOMAIN c.snapshot = {}
  BY <1>3, RegisterCall
<1> HIDE DEF c
<1>6. graphs' \in Entries /\ \A m \in DOMAIN graphs' : graphs'[m] \in 1..Len(servers)
  <2>1. {n} \in SUBSET Nat /\ Len(servers) >= Len(servers)
    BY <1>3
  <2> QED BY <1>1, <1>3, <2>1, MapNodes
<1>7. keys' \in Keys
  BY <1>1, <1>3, Known, RegisterKeyType
<1>8. GraphsExist' /\ MergesOthers'
  <2>1. Len(servers') = Len(servers)
    BY <1>1
  <2>2. Len(servers') \in Nat /\ Len(servers') >= Len(servers)
    BY <1>3, <2>1
  <2>3. c.graph \in 1..Len(servers')
    BY <1>3, <1>5, <2>1
  <2>4. \A m \in DOMAIN graphs' : graphs'[m] \in 1..Len(servers')
    BY <1>6, <2>1
  <2> QED BY <1>2, <1>5, <2>2, <2>3, <2>4, GraphsStillExist
<1> QED BY <1>1, <1>2, <1>4, <1>5, <1>6, <1>7, <1>8, CreateStep

LEMMA LocateSeveralStep ==
    ASSUME IInv, NEW t \in Threads, NEW ps \in SUBSET held[t], NEW main \in GraphsOf(ps),
           LocateSeveral(t, ps, main)
    PROVE  IInv'
<1> DEFINE n == Len(parents) + 1
<1>1. PICK gs \in Collected(ps) :
         call' = [call EXCEPT ![t] = Calling("lock", n, main, gs \ {main})]
  BY DEF LocateSeveral
<1> DEFINE c == Calling("lock", n, main, gs \ {main})
<1>2. Create(t, ps) /\ spent' = spent /\ servers' = servers /\ graphs' = graphs
      /\ keys' = RegisterKey(keys, servers[main].origin, n)
      /\ call' = [call EXCEPT ![t] = c]
  BY <1>1 DEF LocateSeveral
<1>3. n \in Nat /\ main \in 1..Len(servers) /\ main \in Nat /\ Len(servers) \in Nat
  BY CreateFacts, GraphsOfExist, Known, <1>2
<1>4. gs \ {main} \subseteq 1..Len(servers) /\ gs \ {main} \in SUBSET Nat
  BY GraphsOfExist DEF Collected
<1>5. n = Len(parents) + 1
  OBVIOUS
<1> HIDE DEF n
<1>6. c \in Call /\ c.pc = "lock" /\ c.node = n /\ c.graph = main
      /\ c.others = gs \ {main} /\ DOMAIN c.snapshot = {}
  <2>1. "lock" \in {"idle", "lock", "merge", "register", "sweep", "free",
                    "snapshot", "cleanup", "panicked"}
    OBVIOUS
  <2> QED BY <1>3, <1>4, <2>1, CallingFacts
<1> HIDE DEF c
<1>7. keys' \in Keys
  BY <1>2, <1>3, Known, RegisterKeyType
<1>8. GraphsExist' /\ MergesOthers'
  <2>1. Len(servers') = Len(servers)
    BY <1>2
  <2>2. Len(servers') \in Nat /\ Len(servers') >= Len(servers)
    BY <1>3, <2>1
  <2>3. c.graph \in 1..Len(servers') /\ c.others \subseteq 1..Len(servers')
        /\ c.graph \notin c.others
    BY <1>3, <1>4, <1>6, <2>1
  <2>4. \A m \in DOMAIN graphs' : graphs'[m] \in 1..Len(servers')
    BY <1>2, <2>1, Known
  <2> QED BY <1>2, <1>6, <2>2, <2>3, <2>4, GraphsStillExist
<1>9. graphs' \in Entries
  BY <1>2, Known
<1> QED BY <1>2, <1>5, <1>6, <1>7, <1>8, <1>9, CreateStep

LEMMA LockMainStep ==
    ASSUME IInv, NEW t \in Threads, LockMain(t)
    PROVE  IInv'
<1> DEFINE g == call[t].graph
           s == [servers[g] EXCEPT !.holder = t]
           c == [call[t] EXCEPT !.pc = "merge"]
<1>1. call[t].pc = "lock" /\ servers' = [servers EXCEPT ![g] = s]
      /\ call' = [call EXCEPT ![t] = c]
      /\ parents' = parents /\ held' = held /\ graphs' = graphs /\ keys' = keys
      /\ spent' = spent
  BY DEF LockMain
<1>2. g \in 1..Len(servers) /\ servers[g] \in Server
      /\ servers[g].steps \subseteq servers[g].nodes
  BY <1>1, Known
<1>3. s \in Server /\ s.steps = servers[g].steps /\ s.steps \subseteq s.nodes
  BY <1>2, HolderFacts
<1>4. call[t] \in Call
  BY Known
<1>5. c \in Call /\ c.pc = "merge" /\ c.node = call[t].node /\ c.graph = g
      /\ c.others = call[t].others /\ c.snapshot = call[t].snapshot
  BY <1>4 DEF Call
<1>6. Pending(t)
  BY <1>1 DEF Pending
<1>7. /\ held' \in [Threads -> SUBSET Nat] /\ graphs' \in Entries /\ keys' \in Keys
      /\ \A n \in DOMAIN graphs' : graphs'[n] \in 1..Len(servers)
  BY <1>1, Known
<1>8. /\ c.others \subseteq 1..Len(servers) /\ c.graph \notin c.others
      /\ \A n \in DOMAIN c.snapshot : c.snapshot[n] \in 1..Len(servers)
  BY <1>5, Known
<1> HIDE DEF g, s, c
<1> QED BY <1>1, <1>2, <1>3, <1>5, <1>6, <1>7, <1>8, OneServer

LEMMA EndMergeStep ==
    ASSUME IInv, NEW t \in Threads, EndMerge(t)
    PROVE  IInv'
<1> DEFINE g == call[t].graph
           s == [servers[g] EXCEPT !.holder = NoThread]
           c == [call[t] EXCEPT !.pc = "register"]
           S == {servers[g].origin, call[t].node}
<1>1. call[t].pc = "merge" /\ servers' = [servers EXCEPT ![g] = s]
      /\ call' = [call EXCEPT ![t] = c]
      /\ parents' = parents /\ held' = held /\ graphs' = Mapped(graphs, S, g)
      /\ keys' = keys /\ spent' = spent
  BY DEF EndMerge
<1>2. g \in 1..Len(servers) /\ servers[g] \in Server /\ servers[g].origin \in Nat
      /\ servers[g].steps \subseteq servers[g].nodes /\ Len(servers) \in Nat
  BY <1>1, Known
<1>3. s \in Server /\ s.steps = servers[g].steps /\ s.steps \subseteq s.nodes
  BY <1>2, HolderFacts
<1>4. call[t] \in Call
  BY Known
<1>5. c \in Call /\ c.pc = "register" /\ c.node = call[t].node /\ c.graph = g
      /\ c.others = call[t].others /\ c.snapshot = call[t].snapshot
  BY <1>4 DEF Call
<1>6. Pending(t)
  BY <1>1 DEF Pending
<1>7. S \in SUBSET Nat
  BY <1>2, <1>4 DEF Call
<1>8. /\ held' \in [Threads -> SUBSET Nat] /\ keys' \in Keys
  BY <1>1, Known
<1>9. /\ c.others \subseteq 1..Len(servers) /\ c.graph \notin c.others
      /\ \A n \in DOMAIN c.snapshot : c.snapshot[n] \in 1..Len(servers)
  BY <1>5, Known
<1> HIDE DEF g, s, c, S
<1>10. graphs' \in Entries /\ \A n \in DOMAIN graphs' : graphs'[n] \in 1..Len(servers)
  <2>1. Len(servers) >= Len(servers)
    BY <1>2
  <2> QED BY <1>1, <1>2, <1>7, <2>1, MapNodes
<1> QED BY <1>1, <1>2, <1>3, <1>5, <1>6, <1>8, <1>9, <1>10, OneServer

LEMMA PanicStep ==
    ASSUME IInv, NEW t \in Threads, Panic(t)
    PROVE  IInv'
<1> DEFINE c == Calling("panicked", 0, 0, {})
<1>1. call' = [call EXCEPT ![t] = c] /\ held' = [held EXCEPT ![t] = {}]
      /\ parents' = parents /\ graphs' = graphs /\ keys' = keys
      /\ servers' = servers /\ spent' = spent
  BY DEF Panic
<1>2. c \in Call /\ c.pc = "panicked" /\ c.others = {} /\ DOMAIN c.snapshot = {}
  <2>1. "panicked" \in {"idle", "lock", "merge", "register", "sweep", "free",
                        "snapshot", "cleanup", "panicked"} /\ {} \in SUBSET Nat
        /\ 0 \in Nat
    OBVIOUS
  <2> QED BY <2>1, CallingFacts
<1>3. held' \in [Threads -> SUBSET Nat]
  BY <1>1, Known
<1>4. graphs' \in Entries /\ keys' \in Keys
      /\ \A n \in DOMAIN graphs' : graphs'[n] \in 1..Len(servers)
  BY <1>1, Known
<1> HIDE DEF c
<1> QED BY <1>1, <1>2, <1>3, <1>4, NoServer

LEMMA SnapshotStep ==
    ASSUME IInv, NEW t \in Threads, Snapshot(t)
    PROVE  IInv'
<1> DEFINE c == [call[t] EXCEPT !.pc = "cleanup", !.snapshot = graphs]
<1>1. call[t].pc = "snapshot" /\ call' = [call EXCEPT ![t] = c] /\ held' = held
      /\ parents' = parents /\ graphs' = graphs /\ keys' = keys
      /\ servers' = servers /\ spent' = spent
  BY DEF Snapshot
<1>2. call[t] \in Call /\ graphs \in Entries
  BY Known
<1>3. c \in Call /\ c.pc = "cleanup" /\ c.graph = call[t].graph
      /\ c.others = call[t].others /\ c.snapshot = graphs
  BY <1>2 DEF Call
<1>4. held' \in [Threads -> SUBSET Nat] /\ graphs' \in Entries /\ keys' \in Keys
      /\ \A n \in DOMAIN graphs' : graphs'[n] \in 1..Len(servers)
  BY <1>1, Known
<1>5. /\ c.graph \in 1..Len(servers) /\ c.others \subseteq 1..Len(servers)
      /\ c.graph \notin c.others
      /\ \A n \in DOMAIN c.snapshot : c.snapshot[n] \in 1..Len(servers)
  BY <1>1, <1>3, Known
<1> HIDE DEF c
<1> QED BY <1>1, <1>3, <1>4, <1>5, NoServer

LEMMA EndBackwardStep ==
    ASSUME IInv, NEW t \in Threads, EndBackward(t)
    PROVE  IInv'
<1>1. call' = [call EXCEPT ![t] = Idle] /\ held' = held
      /\ parents' = parents /\ graphs' = Without(graphs, call[t].removable)
      /\ keys' = keys /\ servers' = servers /\ spent' = spent
  BY DEF EndBackward
<1>2. Idle \in Call /\ Idle.pc = "idle" /\ Idle.others = {} /\ DOMAIN Idle.snapshot = {}
  BY IdleFacts
<1>3. held' \in [Threads -> SUBSET Nat] /\ keys' \in Keys
  BY <1>1, Known
<1>4. graphs' \in Entries /\ \A n \in DOMAIN graphs' : graphs'[n] \in 1..Len(servers)
  BY <1>1, UnmapNodes
<1> QED BY <1>1, <1>2, <1>3, <1>4, NoServer

LEMMA SweepStep ==
    ASSUME IInv, NEW t \in Threads, Sweep(t)
    PROVE  IInv'
<1> DEFINE g == call[t].graph
           visited == Visited(servers[g], call[t].node)
           s == [Consume(servers[g], visited) EXCEPT !.holder = t]
           c == [call[t] EXCEPT !.pc = "free", !.visited = visited]
<1>1. call[t].pc = "sweep" /\ servers' = [servers EXCEPT ![g] = s]
      /\ call' = [call EXCEPT ![t] = c] /\ spent' = spent \cup visited
      /\ parents' = parents /\ held' = held /\ graphs' = graphs /\ keys' = keys
  BY DEF Sweep
<1>2. g \in 1..Len(servers) /\ servers[g] \in Server
      /\ servers[g].steps \subseteq servers[g].nodes
  BY <1>1, Known
<1>3. visited \subseteq servers[g].steps
  BY DEF Visited
<1>4. visited \in SUBSET Nat
  BY <1>2, <1>3 DEF Server
<1>5. /\ Consume(servers[g], visited) \in Server
      /\ Consume(servers[g], visited).steps = servers[g].steps \ visited
      /\ servers[g].nodes \ visited \subseteq Consume(servers[g], visited).nodes
  BY <1>2, ConsumeFacts
<1> HIDE DEF visited
<1>6. s \in Server /\ s.steps = servers[g].steps \ visited
      /\ servers[g].nodes \ visited \subseteq s.nodes
  BY <1>5, HolderFacts
<1>7. s.steps \subseteq servers[g].steps /\ s.steps \subseteq s.nodes
      /\ visited = servers[g].steps \ s.steps
  BY <1>2, <1>3, <1>6
<1>8. call[t] \in Call
  BY Known
<1>9. c \in Call /\ c.pc = "free" /\ c.graph = g
      /\ c.others = call[t].others /\ c.snapshot = call[t].snapshot
  BY <1>4, <1>8 DEF Call
<1>10. held' \in [Threads -> SUBSET Nat] /\ graphs' \in Entries /\ keys' \in Keys
       /\ \A n \in DOMAIN graphs' : graphs'[n] \in 1..Len(servers)
  BY <1>1, Known
<1>11. /\ c.others \subseteq 1..Len(servers) /\ c.graph \notin c.others
       /\ \A n \in DOMAIN c.snapshot : c.snapshot[n] \in 1..Len(servers)
  BY <1>9, Known
<1>12. spent' = spent \cup (servers[g].steps \ s.steps)
  BY <1>1, <1>7
<1> HIDE DEF g, s, c
<1> QED BY <1>1, <1>2, <1>6, <1>7, <1>9, <1>10, <1>11, <1>12, OneServer

LEMMA FreeStep ==
    ASSUME IInv, NEW t \in Threads, Free(t)
    PROVE  IInv'
<1> DEFINE g == call[t].graph
           gone == Unneeded(servers[g]) \cup call[t].visited
           f == FreeUnavailable(servers[g])
           s == [f EXCEPT !.holder = NoThread]
           c == [call[t] EXCEPT !.pc = "snapshot"]
<1>1. call[t].pc = "free" /\ servers' = [servers EXCEPT ![g] = s]
      /\ call' = [call EXCEPT ![t] = c] /\ spent' = spent
      /\ parents' = parents /\ held' = held
      /\ graphs' = Without(graphs, gone) /\ keys' = RemoveKeys(keys, gone)
  BY DEF Free
<1>2. g \in 1..Len(servers) /\ servers[g] \in Server
      /\ servers[g].steps \subseteq servers[g].nodes
  BY <1>1, Known
<1>3. /\ f \in Server
      /\ f.steps = servers[g].steps \ Unneeded(servers[g])
      /\ f.nodes = servers[g].nodes \ Unneeded(servers[g])
  BY <1>2, FreeUnavailableFacts
<1> HIDE DEF f
<1>4. s \in Server /\ s.steps = f.steps /\ s.nodes = f.nodes
  BY <1>3, HolderFacts
<1>5. s.steps \subseteq servers[g].steps /\ s.steps \subseteq s.nodes
  BY <1>2, <1>3, <1>4
<1>6. call[t] \in Call
  BY Known
<1>7. c \in Call /\ c.pc = "snapshot" /\ c.graph = g
      /\ c.others = call[t].others /\ c.snapshot = call[t].snapshot
  BY <1>6 DEF Call
<1>8. held' \in [Threads -> SUBSET Nat] /\ keys \in Keys
  BY <1>1, Known
<1>9. keys' \in Keys
  BY <1>1, <1>8, RemoveKeysType
<1>10. graphs' \in Entries /\ \A n \in DOMAIN graphs' : graphs'[n] \in 1..Len(servers)
  BY <1>1, UnmapNodes
<1>11. /\ c.others \subseteq 1..Len(servers) /\ c.graph \notin c.others
       /\ \A n \in DOMAIN c.snapshot : c.snapshot[n] \in 1..Len(servers)
  BY <1>7, Known
<1> HIDE DEF g, s, c, gone
<1> QED BY <1>1, <1>2, <1>4, <1>5, <1>7, <1>8, <1>9, <1>10, <1>11, OneServer

LEMMA CleanupStep ==
    ASSUME IInv, NEW t \in Threads, NEW n \in DOMAIN call[t].snapshot, Cleanup(t, n)
    PROVE  IInv'
<1> DEFINE g == call[t].snapshot[n]
           roots == IF MaybeUseful(servers[g]) THEN {} ELSE UnusedRoots(servers[g], {})
           s == Forget(servers[g], roots)
           w == Without(call[t].snapshot, {n})
           c == [call[t] EXCEPT !.snapshot = w, !.removable = @ \cup roots]
<1>1. call[t].pc = "cleanup" /\ servers' = [servers EXCEPT ![g] = s]
      /\ call' = [call EXCEPT ![t] = c] /\ spent' = spent
      /\ parents' = parents /\ held' = held /\ graphs' = graphs /\ keys' = keys
  BY DEF Cleanup
<1>2. g \in 1..Len(servers) /\ servers[g] \in Server
      /\ servers[g].steps \subseteq servers[g].nodes
  BY Known
<1>3. roots \in SUBSET Nat
  BY <1>2 DEF UnusedRoots, Server
<1> HIDE DEF roots
<1>4. s \in Server /\ s.steps = servers[g].steps \ roots /\ s.nodes = servers[g].nodes \ roots
  BY <1>2, ForgetFacts
<1>5. s.steps \subseteq servers[g].steps /\ s.steps \subseteq s.nodes
  BY <1>2, <1>4
<1>6. call[t] \in Call /\ call[t].snapshot \in Partial(Positions)
  BY Known DEF Call, Entries
<1>7. w \in Partial(Positions) /\ DOMAIN w = DOMAIN call[t].snapshot \ {n}
      /\ \A x \in DOMAIN w : w[x] = call[t].snapshot[x]
  <2>1. w \in Partial(Positions)
    BY <1>6, WithoutType
  <2>2. DOMAIN w = DOMAIN call[t].snapshot \ {n}
    BY DEF Without, Restrict
  <2>3. \A x \in DOMAIN w : w[x] = call[t].snapshot[x]
    BY DEF Without, Restrict
  <2> QED BY <2>1, <2>2, <2>3
<1> HIDE DEF w
<1>8. c \in Call /\ c.pc = "cleanup" /\ c.graph = call[t].graph
      /\ c.others = call[t].others /\ c.snapshot = w
  BY <1>1, <1>3, <1>6, <1>7 DEF Call, Entries
<1>9. held' \in [Threads -> SUBSET Nat] /\ graphs' \in Entries /\ keys' \in Keys
      /\ \A m \in DOMAIN graphs' : graphs'[m] \in 1..Len(servers)
  BY <1>1, Known
<1>10. /\ c.graph \in 1..Len(servers)
       /\ c.others \subseteq 1..Len(servers) /\ c.graph \notin c.others
       /\ \A m \in DOMAIN c.snapshot : c.snapshot[m] \in 1..Len(servers)
  BY <1>1, <1>7, <1>8, Known
<1> HIDE DEF g, s, c
<1> QED BY <1>1, <1>2, <1>4, <1>5, <1>8, <1>9, <1>10, OneServer

LEMMA LocateRootStep ==
    ASSUME IInv, NEW t \in Threads, NEW r \in held[t], LocateRoot(t, r)
    PROVE  IInv'
<1>1. spent' = spent /\ parents' = parents /\ held' = held
  BY DEF LocateRoot
<1>2. /\ r \in Nat /\ held' \in [Threads -> SUBSET Nat]
      /\ graphs \in Entries /\ keys \in Keys /\ Len(servers) \in Nat
      /\ \A n \in DOMAIN graphs : graphs[n] \in 1..Len(servers)
      /\ \A g \in 1..Len(servers) : servers[g].origin \in Nat
  BY <1>1, Known
<1>3. "sweep" \in {"idle", "lock", "merge", "register", "sweep", "free",
                   "snapshot", "cleanup", "panicked"} /\ {} \in SUBSET Nat
  OBVIOUS
<1>4. CASE r \in DOMAIN graphs
  <2> DEFINE g == graphs[r]
             c == Calling("sweep", r, g, {})
  <2>1. call' = [call EXCEPT ![t] = c] /\ servers' = servers /\ graphs' = graphs
        /\ (keys' = keys \/ keys' = RegisterKey(keys, servers[g].origin, r))
    BY <1>4 DEF LocateRoot
  <2>2. g \in 1..Len(servers) /\ g \in Nat
    BY <1>2, <1>4
  <2> HIDE DEF g
  <2>3. c \in Call /\ c.pc = "sweep" /\ c.graph = g /\ c.others = {}
        /\ DOMAIN c.snapshot = {}
    BY <1>2, <1>3, <2>2, CallingFacts
  <2>4. keys' \in Keys
    BY <1>2, <2>1, <2>2, RegisterKeyType
  <2>5. graphs' \in Entries /\ \A n \in DOMAIN graphs' : graphs'[n] \in 1..Len(servers)
    BY <1>2, <2>1
  <2> HIDE DEF c
  <2> QED BY <1>1, <1>2, <2>1, <2>2, <2>3, <2>4, <2>5, NoServer
<1>5. CASE r \notin DOMAIN graphs
  <2> DEFINE g == Len(servers) + 1
             v == NewServer(r)
             c == Calling("sweep", r, g, {})
  <2>1. call' = [call EXCEPT ![t] = c] /\ servers' = Append(servers, v)
        /\ graphs' = Mapped(graphs, {r}, g) /\ keys' = Mapped(keys, {r}, {})
    BY <1>5 DEF LocateRoot
  <2>2. g \in Nat /\ g = Len(servers) + 1
    BY <1>2
  <2> HIDE DEF g
  <2>3. c \in Call /\ c.pc = "sweep" /\ c.graph = g /\ c.others = {}
        /\ DOMAIN c.snapshot = {}
    BY <1>2, <1>3, <2>2, CallingFacts
  <2>4. v \in Server /\ v.steps = {} /\ servers \in Seq(Server)
    BY <1>2, NewServerFacts DEF IInv, Types
  <2> HIDE DEF c, v
  <2>5. /\ servers' \in Seq(Server) /\ Len(servers') = g /\ servers'[g] = v
        /\ \A h \in 1..Len(servers) : servers'[h] = servers[h]
    BY <2>1, <2>2, <2>4, ServersAppend
  <2>6. keys' \in Keys
    BY <1>2, <2>1, AddKey
  <2>7. graphs' \in Entries /\ \A m \in DOMAIN graphs' : graphs'[m] \in 1..Len(servers')
    <3>1. {r} \in SUBSET Nat /\ g \in 1..g /\ g >= Len(servers)
      BY <1>2, <2>2
    <3> QED BY <2>1, <2>2, <2>5, <3>1, MapNodes
  <2>8. Len(servers') \in Nat /\ Len(servers') >= Len(servers)
        /\ c.graph \in 1..Len(servers')
    BY <1>2, <2>2, <2>3, <2>5
  <2>9. GraphsExist' /\ MergesOthers'
    BY <2>1, <2>3, <2>7, <2>8, GraphsStillExist
  <2>10. \A h \in 1..Len(servers') : h \in 1..Len(servers) =>
           /\ servers'[h].steps \subseteq servers[h].steps
           /\ servers'[h].steps \subseteq servers'[h].nodes
           /\ servers'[h].steps \cap spent' = {}
    BY <1>1, <2>5 DEF IInv, StepsHaveNodes, StepsInOneGraph, Graphs
  <2>11. \A h \in 1..Len(servers') : h \notin 1..Len(servers) => servers'[h].steps = {}
    BY <1>2, <2>2, <2>4, <2>5
  <2> QED BY <1>1, <1>2, <2>1, <2>3, <2>5, <2>6, <2>7, <2>8, <2>9, <2>10, <2>11, QuietCall
<1> QED BY <1>4, <1>5

LEMMA HeldStep ==
    ASSUME IInv, held' \in [Threads -> SUBSET Nat],
           UNCHANGED <<parents, graphs, keys, servers, state, call, spent>>
    PROVE  IInv'
<1>1. Types'
  BY DEF IInv, Types
<1>2. GraphsExist' /\ MergesOthers' /\ PendingIsFresh' /\ StepsAreCreated'
      /\ StepsHaveNodes' /\ StepsInOneGraph'
  BY DEF IInv, GraphsExist, MergesOthers, PendingIsFresh, Pending, StepsAreCreated,
         StepsHaveNodes, StepsInOneGraph, Graphs, Created
<1> QED BY <1>1, <1>2 DEF IInv

LEMMA DropStep ==
    ASSUME IInv, NEW t \in Threads, NEW n \in held[t], Drop(t, n)
    PROVE  IInv'
<1>1. held' \in [Threads -> SUBSET Nat]
  BY Known DEF Drop
<1> QED BY <1>1, HeldStep DEF Drop

LEMMA ShareStep ==
    ASSUME IInv, NEW t \in Threads, NEW u \in Threads, NEW n \in held[t], Share(t, u, n)
    PROVE  IInv'
<1>1. held' \in [Threads -> SUBSET Nat]
  BY Known DEF Share
<1> QED BY <1>1, HeldStep DEF Share

(* The step of a pending node is stored: PendingIsFresh says that it is     *)
(* nowhere else, and that no other pending node is the same.               *)
LEMMA RegisterStep ==
    ASSUME IInv, NEW t \in Threads, Register(t)
    PROVE  IInv'
<1> DEFINE g == call[t].graph
           n == call[t].node
           s == RegisterNode(servers[g], n)
<1>1. call[t].pc = "register" /\ servers' = [servers EXCEPT ![g] = s]
      /\ call' = [call EXCEPT ![t] = Idle] /\ spent' = spent
      /\ parents' = parents /\ held' = held /\ graphs' = graphs /\ keys' = keys
  BY DEF Register
<1>2. /\ g \in 1..Len(servers) /\ servers[g] \in Server
      /\ Len(servers) \in Nat /\ servers \in Seq(Server)
      /\ call[t] \in Call /\ n \in Nat
  BY <1>1, Known DEF IInv, Types, Call
<1>3. s \in Server /\ s.steps = servers[g].steps \cup {n}
      /\ s.nodes = servers[g].nodes \cup {n}
  BY <1>2, RegisterNodeFacts
<1>4. /\ n \in 1..Len(parents) /\ n \notin spent
      /\ \A h \in 1..Len(servers) : n \notin servers[h].steps
      /\ \A u \in Threads \ {t} : Pending(u) => call[u].node # n
  BY <1>1 DEF IInv, PendingIsFresh, Pending, Graphs, Created
<1>5. Idle \in Call /\ Idle.pc = "idle" /\ Idle.others = {} /\ Idle.graph = 0
      /\ DOMAIN Idle.snapshot = {}
  BY IdleFacts
<1> HIDE DEF g, n, s
<1>6. /\ servers' \in Seq(Server) /\ Len(servers') = Len(servers)
      /\ \A h \in 1..Len(servers) : servers'[h] = IF h = g THEN s ELSE servers[h]
  BY <1>1, <1>2, <1>3, ServersUpdate
<1>7. /\ call' \in [Threads -> Call]
      /\ call'[t] = Idle
      /\ \A u \in Threads : u # t => call'[u] = call[u]
  BY <1>1, <1>5, CallUpdate DEF IInv, Types
<1>8. Types'
  BY <1>1, <1>6, <1>7 DEF IInv, Types
<1>9. GraphsExist' /\ MergesOthers'
  <2>1. Len(servers') \in Nat /\ Len(servers') >= Len(servers)
    BY <1>2, <1>6
  <2>2. \A m \in DOMAIN graphs' : graphs'[m] \in 1..Len(servers')
    BY <1>1, <1>6, Known
  <2> QED BY <1>1, <1>5, <2>1, <2>2, GraphsStillExist
<1>10. \A h \in 1..Len(servers) :
          servers'[h].steps = IF h = g THEN servers[g].steps \cup {n} ELSE servers[h].steps
  BY <1>3, <1>6
<1>11. PendingIsFresh'
  <2> SUFFICES ASSUME NEW u \in Threads, Pending(u)'
               PROVE  /\ call'[u].node \in 1..Len(parents')
                      /\ call'[u].node \notin spent'
                      /\ \A h \in 1..Len(servers') : call'[u].node \notin servers'[h].steps
                      /\ \A v \in Threads \ {u} : Pending(v)' => call'[v].node # call'[u].node
    BY DEF PendingIsFresh, Created, Graphs
  <2>1. \A v \in Threads : Pending(v)' => v # t /\ Pending(v) /\ call'[v] = call[v]
    BY <1>5, <1>7 DEF Pending
  <2>2. /\ call[u].node \in 1..Len(parents) /\ call[u].node \notin spent
        /\ \A h \in 1..Len(servers) : call[u].node \notin servers[h].steps
        /\ \A v \in Threads \ {u} : Pending(v) => call[v].node # call[u].node
    BY <2>1 DEF IInv, PendingIsFresh, Created, Graphs
  <2>3. call'[u] = call[u] /\ call[u].node # n
    BY <1>4, <2>1
  <2>4. \A h \in 1..Len(servers') : call'[u].node \notin servers'[h].steps
    BY <1>6, <1>10, <2>2, <2>3
  <2>5. \A v \in Threads \ {u} : Pending(v)' => call'[v].node # call'[u].node
    BY <2>1, <2>2, <2>3
  <2> QED BY <1>1, <2>2, <2>3, <2>4, <2>5
<1>12. StepsAreCreated'
  <2>1. \A h \in 1..Len(servers) : servers[h].steps \subseteq 1..Len(parents)
    BY DEF IInv, StepsAreCreated, Graphs, Created
  <2>2. \A h \in 1..Len(servers') : servers'[h].steps \subseteq 1..Len(parents')
    BY <1>1, <1>2, <1>4, <1>6, <1>10, <2>1
  <2> QED BY <1>1, <2>2 DEF IInv, StepsAreCreated, Graphs, Created
<1>13. StepsHaveNodes'
  <2>1. \A h \in 1..Len(servers) : servers[h].steps \subseteq servers[h].nodes
    BY DEF IInv, StepsHaveNodes, Graphs
  <2>2. ASSUME NEW h \in 1..Len(servers')
        PROVE  servers'[h].steps \subseteq servers'[h].nodes
    <3>1. CASE h = g
      BY <1>2, <1>3, <1>6, <2>1, <3>1
    <3>2. CASE h # g
      BY <1>6, <2>1, <3>2
    <3> QED BY <3>1, <3>2
  <2> QED BY <2>2 DEF StepsHaveNodes, Graphs
<1>14. StepsInOneGraph'
  <2>1. /\ \A h, k \in 1..Len(servers) : h # k => servers[h].steps \cap servers[k].steps = {}
        /\ \A h \in 1..Len(servers) : servers[h].steps \cap spent = {}
    BY DEF IInv, StepsInOneGraph, Graphs
  <2>2. \A h, k \in 1..Len(servers') : h # k => servers'[h].steps \cap servers'[k].steps = {}
    BY <1>2, <1>4, <1>6, <1>10, <2>1
  <2>3. \A h \in 1..Len(servers') : servers'[h].steps \cap spent' = {}
    BY <1>1, <1>2, <1>4, <1>6, <1>10, <2>1
  <2> QED BY <2>2, <2>3 DEF StepsInOneGraph, Graphs
<1> QED BY <1>8, <1>9, <1>11, <1>12, <1>13, <1>14 DEF IInv

(* A merge moves the steps of one graph to another one. *)
LEMMA MergeTwoStep ==
    ASSUME IInv, MergeHoldsState, NEW t \in Threads, NEW g \in call[t].others,
           MergeTwo(t, g)
    PROVE  IInv'
<1> DEFINE main == call[t].graph
           s == Extend(servers[main], servers[g])
           e == Emptied(servers[g])
           origin == servers[g].origin
           o == servers[main].origin
           moved == IF origin \in DOMAIN keys THEN keys[origin] ELSE {}
           c == [call[t] EXCEPT !.others = @ \ {g}]
           w == Without(keys, {origin})
           v == keys[o] \cup moved
           S == {origin} \cup moved
<1>1. call[t].pc = "merge"
      /\ servers' = [servers EXCEPT ![main] = s, ![g] = e]
      /\ call' = [call EXCEPT ![t] = c] /\ spent' = spent
      /\ parents' = parents /\ held' = held
      /\ graphs' = Mapped(graphs, S, main)
      /\ keys' = Mapped(w, {o}, v)
  BY DEF MergeTwo
<1>2. /\ main \in 1..Len(servers) /\ g \in 1..Len(servers) /\ main # g
      /\ servers[main] \in Server /\ servers[g] \in Server
      /\ origin \in Nat /\ o \in Nat
      /\ Len(servers) \in Nat /\ servers \in Seq(Server)
      /\ call[t] \in Call /\ keys \in Keys
      /\ \A x \in DOMAIN keys : keys[x] \in SUBSET Nat
  BY <1>1, Known DEF IInv, Types
<1>3. o \in DOMAIN keys
  BY <1>1 DEF MergeHoldsState, Merging
<1>4. S \in SUBSET Nat /\ v \in SUBSET Nat
  BY <1>2, <1>3
<1>5. s \in Server /\ s.steps = servers[main].steps \cup servers[g].steps
      /\ s.nodes = servers[main].nodes \cup servers[g].nodes
  BY <1>2, ExtendFacts
<1>6. e \in Server /\ e.steps = {} /\ e.nodes = {}
  BY <1>2, EmptiedFacts
<1>7. c \in Call /\ c.pc = "merge" /\ c.node = call[t].node /\ c.graph = main
      /\ c.others = call[t].others \ {g} /\ c.snapshot = call[t].snapshot
  BY <1>1, <1>2 DEF Call
<1>8. w \in Keys
  <2>1. keys \in Partial(SUBSET Nat)
    BY <1>2 DEF Keys
  <2> QED BY <2>1, WithoutType DEF Keys
<1>9. /\ c.others \subseteq 1..Len(servers) /\ c.graph \notin c.others
      /\ \A n \in DOMAIN c.snapshot : c.snapshot[n] \in 1..Len(servers)
  BY <1>7, Known
<1> HIDE DEF main, s, e, o, S, c, w, v
<1>10. keys' \in Keys
  BY <1>1, <1>2, <1>4, <1>8, AddKey
<1>11. graphs' \in Entries /\ \A m \in DOMAIN graphs' : graphs'[m] \in 1..Len(servers)
  <2>1. Len(servers) >= Len(servers)
    BY <1>2
  <2> QED BY <1>1, <1>2, <1>4, <2>1, MapNodes
<1>12. /\ servers' \in Seq(Server) /\ Len(servers') = Len(servers)
       /\ servers'[main] = s /\ servers'[g] = e
       /\ \A h \in 1..Len(servers) : h # main /\ h # g => servers'[h] = servers[h]
  <2> DEFINE first == [servers EXCEPT ![main] = s]
  <2>1. /\ first \in Seq(Server) /\ Len(first) = Len(servers)
        /\ \A h \in 1..Len(servers) : first[h] = IF h = main THEN s ELSE servers[h]
    BY <1>2, <1>5, ServersUpdate
  <2>2. servers' = [first EXCEPT ![g] = e]
    BY <1>1
  <2> HIDE DEF first
  <2>3. /\ servers' \in Seq(Server) /\ Len(servers') = Len(first)
        /\ \A h \in 1..Len(first) : servers'[h] = IF h = g THEN e ELSE first[h]
    BY <1>2, <1>6, <2>1, <2>2, ServersUpdate
  <2> QED BY <1>2, <2>1, <2>3
<1>13. GraphsExist' /\ MergesOthers'
  <2>1. Len(servers') \in Nat /\ Len(servers') >= Len(servers)
    BY <1>2, <1>12
  <2>2. /\ c.graph \in 1..Len(servers') /\ c.others \subseteq 1..Len(servers')
        /\ \A n \in DOMAIN c.snapshot : c.snapshot[n] \in 1..Len(servers')
        /\ \A m \in DOMAIN graphs' : graphs'[m] \in 1..Len(servers')
    BY <1>2, <1>7, <1>9, <1>11, <1>12
  <2> QED BY <1>1, <1>7, <1>9, <2>1, <2>2, GraphsStillExist
<1>14. /\ call' \in [Threads -> Call] /\ call'[t] = c
       /\ \A u \in Threads : u # t => call'[u] = call[u]
  BY <1>1, <1>7, CallUpdate DEF IInv, Types
<1>15. Types'
  <2>1. parents' \in Seq(SUBSET Nat) /\ held' \in [Threads -> SUBSET Nat]
    BY <1>1 DEF IInv, Types
  <2> QED BY <1>10, <1>11, <1>12, <1>14, <2>1 DEF Types
<1>16. \A h \in 1..Len(servers) :
          /\ h = main => servers'[h].steps = servers[main].steps \cup servers[g].steps
          /\ h = g => servers'[h].steps = {}
          /\ h # main /\ h # g => servers'[h].steps = servers[h].steps
  BY <1>5, <1>6, <1>12
<1>17. \A u \in Threads : Pending(u)' <=> Pending(u)
  BY <1>1, <1>7, <1>14 DEF Pending
<1>18. \A u \in Threads : call'[u].node = call[u].node
  BY <1>7, <1>14
<1>19. PendingIsFresh'
  <2> SUFFICES ASSUME NEW u \in Threads, Pending(u)'
               PROVE  /\ call'[u].node \in 1..Len(parents')
                      /\ call'[u].node \notin spent'
                      /\ \A h \in 1..Len(servers') : call'[u].node \notin servers'[h].steps
                      /\ \A x \in Threads \ {u} : Pending(x)' => call'[x].node # call'[u].node
    BY DEF PendingIsFresh, Created, Graphs
  <2>1. /\ call[u].node \in 1..Len(parents) /\ call[u].node \notin spent
        /\ \A h \in 1..Len(servers) : call[u].node \notin servers[h].steps
        /\ \A x \in Threads \ {u} : Pending(x) => call[x].node # call[u].node
    BY <1>17 DEF IInv, PendingIsFresh, Created, Graphs
  <2>2. \A h \in 1..Len(servers') : call'[u].node \notin servers'[h].steps
    BY <1>2, <1>12, <1>16, <1>18, <2>1
  <2>3. \A x \in Threads \ {u} : Pending(x)' => call'[x].node # call'[u].node
    BY <1>17, <1>18, <2>1
  <2> QED BY <1>1, <1>18, <2>1, <2>2, <2>3
<1>20. StepsAreCreated'
  <2>1. \A h \in 1..Len(servers) : servers[h].steps \subseteq 1..Len(parents)
    BY DEF IInv, StepsAreCreated, Graphs, Created
  <2>2. \A h \in 1..Len(servers') : servers'[h].steps \subseteq 1..Len(parents')
    BY <1>1, <1>2, <1>12, <1>16, <2>1
  <2> QED BY <1>1, <2>2 DEF IInv, StepsAreCreated, Graphs, Created
<1>21. StepsHaveNodes'
  <2>1. \A h \in 1..Len(servers) : servers[h].steps \subseteq servers[h].nodes
    BY DEF IInv, StepsHaveNodes, Graphs
  <2>2. ASSUME NEW h \in 1..Len(servers')
        PROVE  servers'[h].steps \subseteq servers'[h].nodes
    <3>1. CASE h = main
      BY <1>2, <1>5, <1>12, <2>1, <3>1
    <3>2. CASE h = g
      BY <1>6, <1>12, <3>2
    <3>3. CASE h # main /\ h # g
      BY <1>12, <2>1, <3>3
    <3> QED BY <3>1, <3>2, <3>3
  <2> QED BY <2>2 DEF StepsHaveNodes, Graphs
<1>22. StepsInOneGraph'
  <2>1. /\ \A h, k \in 1..Len(servers) : h # k => servers[h].steps \cap servers[k].steps = {}
        /\ \A h \in 1..Len(servers) : servers[h].steps \cap spent = {}
    BY DEF IInv, StepsInOneGraph, Graphs
  <2>2. \A h, k \in 1..Len(servers') : h # k => servers'[h].steps \cap servers'[k].steps = {}
    BY <1>2, <1>12, <1>16, <2>1
  <2>3. \A h \in 1..Len(servers') : servers'[h].steps \cap spent' = {}
    BY <1>1, <1>2, <1>12, <1>16, <2>1
  <2> QED BY <2>2, <2>3 DEF StepsInOneGraph, Graphs
<1> QED BY <1>13, <1>15, <1>19, <1>20, <1>21, <1>22 DEF IInv

-----------------------------------------------------------------------------
(* MergeHoldsState is preserved.                                           *)

(* A step of t that keeps origins, and leaves STATE and the keys alone      *)
(* unless t holds STATE or nobody does.                                    *)
LEMMA MergeKept ==
    ASSUME IInv, MergeHoldsState, NEW t \in Threads, NEW c \in Call,
           call' = [call EXCEPT ![t] = c],
           \A g \in 1..Len(servers) : servers'[g].origin = servers[g].origin,
           \/ state = NoThread
           \/ state = t
           \/ keys' = keys /\ state' = state,
           c.pc \in {"lock", "merge"} =>
                /\ state' = t
                /\ servers'[c.graph].origin \in DOMAIN keys'
                /\ \A g \in c.others : servers'[g].origin # servers'[c.graph].origin
    PROVE  MergeHoldsState'
<1>1. call'[t] = c /\ \A u \in Threads : u # t => call'[u] = call[u]
  BY CallUpdate DEF IInv, Types
<1> SUFFICES ASSUME NEW u \in Threads, Merging(u)'
             PROVE  /\ state' = u
                    /\ servers'[call'[u].graph].origin \in DOMAIN keys'
                    /\ \A g \in call'[u].others :
                          servers'[g].origin # servers'[call'[u].graph].origin
  BY DEF MergeHoldsState
<1>2. CASE u = t
  BY <1>1, <1>2 DEF Merging
<1>3. CASE u # t
  <2>1. call'[u] = call[u] /\ Merging(u)
    BY <1>1, <1>3 DEF Merging
  <2>2. /\ state = u
        /\ servers[call[u].graph].origin \in DOMAIN keys
        /\ \A g \in call[u].others : servers[g].origin # servers[call[u].graph].origin
    BY <2>1 DEF MergeHoldsState
  <2>3. keys' = keys /\ state' = state
    BY <1>3, <2>2
  <2>4. /\ call[u].graph \in 1..Len(servers)
        /\ call[u].others \subseteq 1..Len(servers)
    BY <2>1, Known DEF Merging
  <2> QED BY <2>1, <2>2, <2>3, <2>4
<1> QED BY <1>2, <1>3

LEMMA OriginsKept ==
    ASSUME IInv, NEW g \in 1..Len(servers), NEW s, s.origin = servers[g].origin,
           servers' = [servers EXCEPT ![g] = s]
    PROVE  \A h \in 1..Len(servers) : servers'[h].origin = servers[h].origin
<1>1. DOMAIN servers = 1..Len(servers)
  BY DEF IInv, Types
<1> QED BY <1>1

LEMMA AppendOrigins ==
    ASSUME IInv, NEW n \in Nat, servers' = Append(servers, NewServer(n))
    PROVE  \A h \in 1..Len(servers) : servers'[h].origin = servers[h].origin
<1> DEFINE v == NewServer(n)
<1>1. v \in Server /\ servers \in Seq(Server)
  BY NewServerFacts DEF IInv, Types
<1>2. servers' = Append(servers, v)
  OBVIOUS
<1> HIDE DEF v
<1>3. \A h \in 1..Len(servers) : servers'[h] = servers[h]
  BY <1>1, <1>2, ServersAppend
<1> QED BY <1>3

Pcs == {"idle", "lock", "merge", "register", "sweep", "free",
        "snapshot", "cleanup", "panicked"}

LEMMA NewCall ==
    ASSUME NEW pc \in Pcs, NEW n \in Nat, NEW g \in Nat, NEW o \in SUBSET Nat
    PROVE  LET c == Calling(pc, n, g, o)
           IN  c \in Call /\ c.pc = pc /\ c.graph = g /\ c.others = o
BY CallingFacts DEF Pcs

LEMMA MergeHoldsStateStep ==
    ASSUME IInv, MergeHoldsState, [Next]_vars
    PROVE  MergeHoldsState'
<1>1. CASE UNCHANGED vars
  BY <1>1 DEF MergeHoldsState, Merging, vars
<1>2. ASSUME NEW t \in Threads, NEW ps \in SUBSET held[t], LocateNew(t, ps)
      PROVE  MergeHoldsState'
  <2> DEFINE n == Len(parents) + 1
             g == Len(servers) + 1
             c == Calling("register", n, g, {})
  <2>1. Create(t, ps) /\ state = NoThread /\ call' = [call EXCEPT ![t] = c]
        /\ servers' = Append(servers, NewServer(n))
    BY <1>2 DEF LocateNew, Create
  <2>2. n \in Nat /\ g \in Nat
    BY <2>1, CreateFacts, Known
  <2> HIDE DEF n, g
  <2>3. c \in Call /\ c.pc = "register"
    <3>1. "register" \in Pcs /\ {} \in SUBSET Nat
      BY DEF Pcs
    <3> QED BY <2>2, <3>1, NewCall
  <2> HIDE DEF c
  <2>4. \A h \in 1..Len(servers) : servers'[h].origin = servers[h].origin
    BY <2>1, <2>2, AppendOrigins
  <2> QED BY <2>1, <2>3, <2>4, MergeKept
<1>3. ASSUME NEW t \in Threads, NEW ps \in SUBSET held[t], NEW g \in GraphsOf(ps),
             LocateOne(t, ps, g)
      PROVE  MergeHoldsState'
  <2> DEFINE n == Len(parents) + 1
             c == Calling("register", n, g, {})
  <2>1. Create(t, ps) /\ state = NoThread /\ call' = [call EXCEPT ![t] = c]
        /\ servers' = servers
    BY <1>3 DEF LocateOne, Create
  <2>2. n \in Nat /\ g \in Nat
    BY <2>1, CreateFacts, GraphsOfExist
  <2> HIDE DEF n
  <2>3. c \in Call /\ c.pc = "register"
    <3>1. "register" \in Pcs /\ {} \in SUBSET Nat
      BY DEF Pcs
    <3> QED BY <2>2, <3>1, NewCall
  <2> HIDE DEF c
  <2>4. \A h \in 1..Len(servers) : servers'[h].origin = servers[h].origin
    BY <2>1
  <2> QED BY <2>1, <2>3, <2>4, MergeKept
<1>4. ASSUME NEW t \in Threads, NEW ps \in SUBSET held[t], NEW main \in GraphsOf(ps),
             LocateSeveral(t, ps, main)
      PROVE  MergeHoldsState'
  <2> DEFINE n == Len(parents) + 1
             o == servers[main].origin
  <2>1. PICK gs \in Collected(ps) :
           main \in gs /\ call' = [call EXCEPT ![t] = Calling("lock", n, main, gs \ {main})]
    BY <1>4 DEF LocateSeveral
  <2> DEFINE c == Calling("lock", n, main, gs \ {main})
  <2>2. Create(t, ps) /\ state = NoThread /\ call' = [call EXCEPT ![t] = c]
        /\ servers' = servers /\ keys' = RegisterKey(keys, o, n) /\ state' = t
    BY <1>4, <2>1 DEF LocateSeveral, Create
  <2>3. n \in Nat /\ main \in Nat
    BY <2>2, CreateFacts, GraphsOfExist
  <2>4. gs \ {main} \in SUBSET Nat
    BY GraphsOfExist DEF Collected
  <2>5. \A g \in gs \ {main} : servers[g].origin # o
    BY <2>1 DEF Collected
  <2> HIDE DEF n
  <2>6. c \in Call /\ c.graph = main /\ c.others = gs \ {main}
    <3>1. "lock" \in Pcs
      BY DEF Pcs
    <3> QED BY <2>3, <2>4, <3>1, NewCall
  <2> HIDE DEF c
  <2>7. o \in DOMAIN keys'
    BY <2>2 DEF RegisterKey, Mapped
  <2>8. /\ servers'[c.graph].origin \in DOMAIN keys'
        /\ \A g \in c.others : servers'[g].origin # servers'[c.graph].origin
    BY <2>2, <2>5, <2>6, <2>7
  <2>9. \A h \in 1..Len(servers) : servers'[h].origin = servers[h].origin
    BY <2>2
  <2> QED BY <2>2, <2>6, <2>8, <2>9, MergeKept
<1>5. ASSUME NEW t \in Threads, LockMain(t)
      PROVE  MergeHoldsState'
  <2> DEFINE g == call[t].graph
             s == [servers[g] EXCEPT !.holder = t]
             c == [call[t] EXCEPT !.pc = "merge"]
  <2>1. call[t].pc = "lock" /\ servers' = [servers EXCEPT ![g] = s]
        /\ call' = [call EXCEPT ![t] = c] /\ keys' = keys /\ state' = state
    BY <1>5 DEF LockMain
  <2>2. g \in 1..Len(servers) /\ servers[g] \in Server /\ call[t] \in Call
        /\ call[t].others \subseteq 1..Len(servers)
    BY <2>1, Known
  <2>3. s.origin = servers[g].origin
    BY <2>2, HolderFacts
  <2>4. c \in Call /\ c.graph = g /\ c.others = call[t].others
    BY <2>2 DEF Call
  <2>5. \A h \in 1..Len(servers) : servers'[h].origin = servers[h].origin
    BY <2>1, <2>2, <2>3, OriginsKept
  <2>6. state = t /\ servers[g].origin \in DOMAIN keys
        /\ \A h \in call[t].others : servers[h].origin # servers[g].origin
    BY <2>1 DEF MergeHoldsState, Merging
  <2> HIDE DEF g, s, c
  <2>7. /\ state' = t /\ servers'[c.graph].origin \in DOMAIN keys'
        /\ \A h \in c.others : servers'[h].origin # servers'[c.graph].origin
    BY <2>1, <2>2, <2>4, <2>5, <2>6
  <2> QED BY <2>1, <2>4, <2>5, <2>7, MergeKept
<1>6. ASSUME NEW t \in Threads, NEW g \in call[t].others, MergeTwo(t, g)
      PROVE  MergeHoldsState'
  <2> DEFINE main == call[t].graph
             s == Extend(servers[main], servers[g])
             e == Emptied(servers[g])
             o == servers[main].origin
             c == [call[t] EXCEPT !.others = @ \ {g}]
  <2>1. call[t].pc = "merge" /\ servers' = [servers EXCEPT ![main] = s, ![g] = e]
        /\ call' = [call EXCEPT ![t] = c] /\ state' = state
    BY <1>6 DEF MergeTwo
  <2>2. main \in 1..Len(servers) /\ g \in 1..Len(servers) /\ main # g
        /\ servers[main] \in Server /\ servers[g] \in Server /\ call[t] \in Call
        /\ call[t].others \subseteq 1..Len(servers)
    BY <2>1, Known
  <2>3. s.origin = servers[main].origin /\ e.origin = servers[g].origin
    BY <2>2, ExtendFacts, EmptiedFacts
  <2>4. c \in Call /\ c.graph = main /\ c.others = call[t].others \ {g}
    BY <2>2 DEF Call
  <2>5. \A h \in 1..Len(servers) : servers'[h].origin = servers[h].origin
    <3>1. DOMAIN servers = 1..Len(servers)
      BY DEF IInv, Types
    <3> HIDE DEF s, e, main
    <3> QED BY <2>1, <2>2, <2>3, <3>1
  <2>6. state = t /\ \A h \in call[t].others : servers[h].origin # o
    BY <2>1 DEF MergeHoldsState, Merging
  <2>7. o \in DOMAIN keys'
    BY <1>6 DEF MergeTwo, Mapped
  <2> HIDE DEF main, s, e, c
  <2>8. /\ state' = t /\ servers'[c.graph].origin \in DOMAIN keys'
        /\ \A h \in c.others : servers'[h].origin # servers'[c.graph].origin
    BY <2>1, <2>2, <2>4, <2>5, <2>6, <2>7
  <2> QED BY <2>1, <2>4, <2>5, <2>6, <2>8, MergeKept
<1>7. ASSUME NEW t \in Threads, EndMerge(t)
      PROVE  MergeHoldsState'
  <2> DEFINE g == call[t].graph
             s == [servers[g] EXCEPT !.holder = NoThread]
             c == [call[t] EXCEPT !.pc = "register"]
  <2>1. call[t].pc = "merge" /\ servers' = [servers EXCEPT ![g] = s]
        /\ call' = [call EXCEPT ![t] = c]
    BY <1>7 DEF EndMerge
  <2>2. g \in 1..Len(servers) /\ servers[g] \in Server /\ call[t] \in Call
    BY <2>1, Known
  <2>3. s.origin = servers[g].origin
    BY <2>2, HolderFacts
  <2>4. c \in Call /\ c.pc = "register"
    BY <2>2 DEF Call
  <2>5. \A h \in 1..Len(servers) : servers'[h].origin = servers[h].origin
    BY <2>1, <2>2, <2>3, OriginsKept
  <2>6. state = t
    BY <2>1 DEF MergeHoldsState, Merging
  <2> HIDE DEF g, s, c
  <2> QED BY <2>1, <2>4, <2>5, <2>6, MergeKept
<1>8. ASSUME NEW t \in Threads, Register(t)
      PROVE  MergeHoldsState'
  <2> DEFINE g == call[t].graph
             s == RegisterNode(servers[g], call[t].node)
  <2>1. call[t].pc = "register" /\ servers' = [servers EXCEPT ![g] = s]
        /\ call' = [call EXCEPT ![t] = Idle] /\ keys' = keys /\ state' = state
    BY <1>8 DEF Register
  <2>2. g \in 1..Len(servers) /\ servers[g] \in Server /\ call[t].node \in Nat
    BY <2>1, Known DEF Call
  <2>3. s.origin = servers[g].origin
    BY <2>2, RegisterNodeFacts
  <2>4. \A h \in 1..Len(servers) : servers'[h].origin = servers[h].origin
    BY <2>1, <2>2, <2>3, OriginsKept
  <2> QED BY <2>1, <2>4, IdleFacts, MergeKept
<1>9. ASSUME NEW t \in Threads, NEW r \in held[t], LocateRoot(t, r)
      PROVE  MergeHoldsState'
  <2>1. state = NoThread
    BY <1>9 DEF LocateRoot
  <2>2. r \in Nat /\ Len(servers) \in Nat
    BY Known
  <2>3. \A h \in 1..Len(servers) : servers'[h].origin = servers[h].origin
    <3>1. servers' = servers \/ servers' = Append(servers, NewServer(r))
      BY <1>9 DEF LocateRoot
    <3> QED BY <2>2, <3>1, AppendOrigins
  <2>4. PICK g \in Nat : call' = [call EXCEPT ![t] = Calling("sweep", r, g, {})]
    <3>1. CASE r \in DOMAIN graphs
      <4>1. graphs[r] \in Nat
        BY <2>2, <3>1, Known
      <4> QED BY <1>9, <3>1, <4>1 DEF LocateRoot
    <3>2. CASE r \notin DOMAIN graphs
      <4>1. Len(servers) + 1 \in Nat
        BY <2>2
      <4> QED BY <1>9, <3>2, <4>1 DEF LocateRoot
    <3> QED BY <3>1, <3>2
  <2> DEFINE c == Calling("sweep", r, g, {})
  <2>5. c \in Call /\ c.pc = "sweep"
    <3>1. "sweep" \in Pcs /\ {} \in SUBSET Nat
      BY DEF Pcs
    <3> QED BY <2>2, <3>1, NewCall
  <2>6. call' = [call EXCEPT ![t] = c]
    BY <2>4
  <2> HIDE DEF c
  <2> QED BY <2>1, <2>3, <2>5, <2>6, MergeKept
<1>10. ASSUME NEW t \in Threads, Sweep(t)
       PROVE  MergeHoldsState'
  <2> DEFINE g == call[t].graph
             visited == Visited(servers[g], call[t].node)
             k == Consume(servers[g], visited)
             s == [k EXCEPT !.holder = t]
             c == [call[t] EXCEPT !.pc = "free", !.visited = visited]
  <2>1. call[t].pc = "sweep" /\ servers' = [servers EXCEPT ![g] = s]
        /\ call' = [call EXCEPT ![t] = c] /\ keys' = keys /\ state' = state
    BY <1>10 DEF Sweep
  <2>2. g \in 1..Len(servers) /\ servers[g] \in Server /\ call[t] \in Call
    BY <2>1, Known
  <2>3. visited \in SUBSET Nat
    BY <2>2 DEF Visited, Server
  <2> HIDE DEF visited
  <2>4. k \in Server /\ k.origin = servers[g].origin
    BY <2>2, ConsumeFacts
  <2> HIDE DEF k
  <2>5. s.origin = servers[g].origin
    BY <2>4, HolderFacts
  <2>6. c \in Call /\ c.pc = "free"
    BY <2>2, <2>3 DEF Call
  <2>7. \A h \in 1..Len(servers) : servers'[h].origin = servers[h].origin
    BY <2>1, <2>2, <2>5, OriginsKept
  <2> HIDE DEF g, s, c
  <2> QED BY <2>1, <2>6, <2>7, MergeKept
<1>11. ASSUME NEW t \in Threads, Panic(t)
       PROVE  MergeHoldsState'
  <2> DEFINE c == Calling("panicked", 0, 0, {})
  <2>1. call' = [call EXCEPT ![t] = c] /\ servers' = servers /\ keys' = keys /\ state' = state
    BY <1>11 DEF Panic
  <2>2. c \in Call /\ c.pc = "panicked"
    <3>1. "panicked" \in Pcs /\ {} \in SUBSET Nat /\ 0 \in Nat
      BY DEF Pcs
    <3> QED BY <3>1, NewCall
  <2> HIDE DEF c
  <2>3. \A h \in 1..Len(servers) : servers'[h].origin = servers[h].origin
    BY <2>1
  <2> QED BY <2>1, <2>2, <2>3, MergeKept
<1>12. ASSUME NEW t \in Threads, Free(t)
       PROVE  MergeHoldsState'
  <2> DEFINE g == call[t].graph
             f == FreeUnavailable(servers[g])
             s == [f EXCEPT !.holder = NoThread]
             c == [call[t] EXCEPT !.pc = "snapshot"]
  <2>1. call[t].pc = "free" /\ state = NoThread /\ servers' = [servers EXCEPT ![g] = s]
        /\ call' = [call EXCEPT ![t] = c]
    BY <1>12 DEF Free
  <2>2. g \in 1..Len(servers) /\ servers[g] \in Server /\ call[t] \in Call
    BY <2>1, Known
  <2>3. f \in Server /\ f.origin = servers[g].origin
    BY <2>2, FreeUnavailableFacts
  <2> HIDE DEF f
  <2>4. s.origin = servers[g].origin
    BY <2>3, HolderFacts
  <2>5. c \in Call /\ c.pc = "snapshot"
    BY <2>2 DEF Call
  <2>6. \A h \in 1..Len(servers) : servers'[h].origin = servers[h].origin
    BY <2>1, <2>2, <2>4, OriginsKept
  <2> HIDE DEF g, s, c
  <2> QED BY <2>1, <2>5, <2>6, MergeKept
<1>13. ASSUME NEW t \in Threads, Snapshot(t)
       PROVE  MergeHoldsState'
  <2> DEFINE c == [call[t] EXCEPT !.pc = "cleanup", !.snapshot = graphs]
  <2>1. call' = [call EXCEPT ![t] = c] /\ servers' = servers /\ keys' = keys /\ state' = state
    BY <1>13 DEF Snapshot
  <2>2. c \in Call /\ c.pc = "cleanup"
    BY Known DEF Call
  <2>3. \A h \in 1..Len(servers) : servers'[h].origin = servers[h].origin
    BY <2>1
  <2> HIDE DEF c
  <2> QED BY <2>1, <2>2, <2>3, MergeKept
<1>14. ASSUME NEW t \in Threads, NEW n \in DOMAIN call[t].snapshot, Cleanup(t, n)
       PROVE  MergeHoldsState'
  <2> DEFINE g == call[t].snapshot[n]
             roots == IF MaybeUseful(servers[g]) THEN {} ELSE UnusedRoots(servers[g], {})
             s == Forget(servers[g], roots)
             w == Without(call[t].snapshot, {n})
             c == [call[t] EXCEPT !.snapshot = w, !.removable = @ \cup roots]
  <2>1. call[t].pc = "cleanup" /\ servers' = [servers EXCEPT ![g] = s]
        /\ call' = [call EXCEPT ![t] = c] /\ keys' = keys /\ state' = state
    BY <1>14 DEF Cleanup
  <2>2. g \in 1..Len(servers) /\ servers[g] \in Server /\ call[t] \in Call
        /\ call[t].snapshot \in Partial(Positions)
    BY Known DEF Call, Entries
  <2>3. roots \in SUBSET Nat
    BY <2>2 DEF UnusedRoots, Server
  <2> HIDE DEF roots
  <2>4. s.origin = servers[g].origin
    BY <2>2, ForgetFacts
  <2>5. w \in Partial(Positions)
    BY <2>2, WithoutType
  <2> HIDE DEF w
  <2>6. c \in Call /\ c.pc = "cleanup"
    BY <2>1, <2>2, <2>3, <2>5 DEF Call, Entries
  <2>7. \A h \in 1..Len(servers) : servers'[h].origin = servers[h].origin
    BY <2>1, <2>2, <2>4, OriginsKept
  <2> HIDE DEF g, s, c
  <2> QED BY <2>1, <2>6, <2>7, MergeKept
<1>15. ASSUME NEW t \in Threads, EndBackward(t)
       PROVE  MergeHoldsState'
  <2>1. call' = [call EXCEPT ![t] = Idle] /\ servers' = servers /\ keys' = keys /\ state' = state
    BY <1>15 DEF EndBackward
  <2>2. \A h \in 1..Len(servers) : servers'[h].origin = servers[h].origin
    BY <2>1
  <2> QED BY <2>1, <2>2, IdleFacts, MergeKept
<1>16. ASSUME NEW t \in Threads, NEW n \in held[t], Drop(t, n)
       PROVE  MergeHoldsState'
  BY <1>16 DEF Drop, MergeHoldsState, Merging
<1>17. ASSUME NEW t \in Threads, NEW u \in Threads, NEW n \in held[t], Share(t, u, n)
       PROVE  MergeHoldsState'
  BY <1>17 DEF Share, MergeHoldsState, Merging
<1>18. \A t \in Threads : Operands(t) \subseteq SUBSET held[t]
  BY DEF Operands
<1> QED
  BY <1>1, <1>2, <1>3, <1>4, <1>5, <1>6, <1>7, <1>8, <1>9, <1>10, <1>11, <1>12, <1>13,
     <1>14, <1>15, <1>16, <1>17, <1>18 DEF Next

-----------------------------------------------------------------------------
(* The theorems.                                                           *)

LEMMA IInvStep ==
    ASSUME IInv, MergeHoldsState, [Next]_vars
    PROVE  IInv'
<1>1. CASE UNCHANGED vars
  BY <1>1 DEF vars, IInv, Types, GraphsExist, MergesOthers, PendingIsFresh, Pending,
              StepsAreCreated, StepsHaveNodes, StepsInOneGraph, Graphs, Created
<1>2. \A t \in Threads : Operands(t) \subseteq SUBSET held[t]
  BY DEF Operands
<1> QED
  BY <1>1, <1>2, LocateNewStep, LocateOneStep, LocateSeveralStep, LockMainStep,
     MergeTwoStep, EndMergeStep, RegisterStep, LocateRootStep, SweepStep, PanicStep,
     FreeStep, SnapshotStep, CleanupStep, EndBackwardStep, DropStep, ShareStep
  DEF Next

(* The inductive invariant holds in every reachable state. *)
THEOREM Invariant == Spec => [](IInv /\ MergeHoldsState)
<1>1. Init => MergeHoldsState
  BY IdleFacts DEF Init, MergeHoldsState, Merging
<1>2. Init => IInv /\ MergeHoldsState
  BY <1>1, InitIInv
<1>3. IInv /\ MergeHoldsState /\ [Next]_vars => (IInv /\ MergeHoldsState)'
  BY IInvStep, MergeHoldsStateStep
<1> QED BY <1>2, <1>3, PTL DEF Spec

(* No backward step is stored in two graphs, or stored again after it was   *)
(* executed: whatever the threads do, and in spite of the races the model  *)
(* has, a merge or a backward pass never counts a gradient twice.          *)
THEOREM NoStepTwice == Spec => []StepsInOneGraph
<1>1. IInv /\ MergeHoldsState => StepsInOneGraph
  BY DEF IInv
<1> QED BY <1>1, Invariant, PTL

(* The memory management knows every node whose step is stored: the panic   *)
(* "Node should be in the nodes map" is never reached.                     *)
THEOREM EveryStepHasNode == Spec => []StepsHaveNodes
<1>1. IInv /\ MergeHoldsState => StepsHaveNodes
  BY DEF IInv
<1> QED BY <1>1, Invariant, PTL

(* A merge keeps STATE to its end, and finds the keys of its main graph:    *)
(* the panic "Should be init before the merge." is never reached.          *)
THEOREM MergeFindsKeys == Spec => []MergeHoldsState
<1>1. IInv /\ MergeHoldsState => MergeHoldsState
  OBVIOUS
<1> QED BY <1>1, Invariant, PTL

-----------------------------------------------------------------------------
(* Type correctness: whatever the program refers to is a node it created.   *)

(* What a server knows are nodes of C. *)
KnowsOnly(s, C) == s.origin \in C /\ s.nodes \subseteq C /\ s.leaves \subseteq C

KeysWithin(ks, C) == DOMAIN ks \subseteq C /\ \A o \in DOMAIN ks : ks[o] \subseteq C

NodesAreCreated ==
    /\ \A n \in Created : parents[n] \subseteq Created
    /\ \A t \in Threads : held[t] \subseteq Created
    /\ DOMAIN graphs \subseteq Created
    /\ KeysWithin(keys, Created)
    /\ \A g \in Graphs : KnowsOnly(servers[g], Created)
    /\ \A t \in Threads : call[t].pc \notin {"idle", "panicked"} => call[t].node \in Created
    /\ state \in Threads \cup {NoThread}

LEMMA RegisterKnows ==
    ASSUME NEW s \in Server, NEW C, NEW n \in C, KnowsOnly(s, C)
    PROVE  KnowsOnly(RegisterNode(s, n), C)
BY DEF KnowsOnly, RegisterNode, Server

LEMMA ExtendKnows ==
    ASSUME NEW s \in Server, NEW o \in Server, NEW C, KnowsOnly(s, C), KnowsOnly(o, C)
    PROVE  KnowsOnly(Extend(s, o), C)
BY DEF KnowsOnly, Extend, Server

LEMMA EmptiedKnows ==
    ASSUME NEW s \in Server, NEW C, KnowsOnly(s, C)
    PROVE  KnowsOnly(Emptied(s), C)
BY DEF KnowsOnly, Emptied, Server

LEMMA ConsumeKnows ==
    ASSUME NEW s \in Server, NEW visited, NEW C, KnowsOnly(s, C)
    PROVE  KnowsOnly(Consume(s, visited), C)
BY DEF KnowsOnly, Consume, Server

LEMMA ForgetKnows ==
    ASSUME NEW s \in Server, NEW gone, NEW C, KnowsOnly(s, C)
    PROVE  KnowsOnly(Forget(s, gone), C)
BY DEF KnowsOnly, Forget, Server

LEMMA HolderKnows ==
    ASSUME NEW s \in Server, NEW h, NEW C, KnowsOnly(s, C)
    PROVE  KnowsOnly([s EXCEPT !.holder = h], C)
BY DEF KnowsOnly, Server

LEMMA FreeUnavailableKnows ==
    ASSUME NEW s \in Server, NEW C, KnowsOnly(s, C)
    PROVE  KnowsOnly(FreeUnavailable(s), C)
<1> DEFINE f == Forget(s, Unneeded(s))
           leaves == Follow(s.leaves, s.nodes \ Useful(s)) \cap Useful(s)
<1>1. f \in Server /\ KnowsOnly(f, C)
  BY ForgetFacts, ForgetKnows
<1>2. leaves \subseteq C
  BY DEF Useful, KnowsOnly
<1>3. FreeUnavailable(s) = [f EXCEPT !.leaves = leaves]
  BY DEF FreeUnavailable
<1> HIDE DEF f, leaves
<1> QED BY <1>1, <1>2, <1>3 DEF Server, KnowsOnly

LEMMA MappedKeys ==
    ASSUME NEW ks, NEW C, KeysWithin(ks, C), NEW o \in C, NEW v \in SUBSET C
    PROVE  KeysWithin(Mapped(ks, {o}, v), C)
BY DEF KeysWithin, Mapped

LEMMA RegisterKeyWithin ==
    ASSUME NEW ks, NEW C, KeysWithin(ks, C), NEW o \in C, NEW n \in C
    PROVE  KeysWithin(RegisterKey(ks, o, n), C)
<1> DEFINE v == (IF o \in DOMAIN ks THEN ks[o] ELSE {}) \cup ({n} \ {o})
<1>1. v \in SUBSET C
  BY DEF KeysWithin
<1>2. RegisterKey(ks, o, n) = Mapped(ks, {o}, v)
  BY DEF RegisterKey
<1> HIDE DEF v
<1> QED BY <1>1, <1>2, MappedKeys

LEMMA WithoutKeys ==
    ASSUME NEW ks, NEW C, KeysWithin(ks, C), NEW S
    PROVE  KeysWithin(Without(ks, S), C)
BY DEF KeysWithin, Without, Restrict

LEMMA RemoveKeysWithin ==
    ASSUME NEW ks, NEW C, KeysWithin(ks, C), NEW nodes
    PROVE  KeysWithin(RemoveKeys(ks, nodes), C)
<1> DEFINE gone(o) == {n \in nodes \cap DOMAIN graphs : servers[graphs[n]].origin = o}
           kept    == {o \in DOMAIN ks : gone(o) = {} \/ ks[o] \ gone(o) # {}}
           r       == [o \in kept |-> ks[o] \ gone(o)]
<1>1. RemoveKeys(ks, nodes) = r
  BY DEF RemoveKeys
<1>2. DOMAIN r = kept /\ \A x \in DOMAIN r : r[x] = ks[x] \ gone(x)
  OBVIOUS
<1>3. kept \subseteq DOMAIN ks
  OBVIOUS
<1> HIDE DEF gone, kept, r
<1> QED BY <1>1, <1>2, <1>3 DEF KeysWithin

(* NodesAreCreated after a step of t: what is new is a node. *)
LEMMA NodesStep ==
    ASSUME IInv, NodesAreCreated, NEW t \in Threads, NEW c \in Call,
           call' = [call EXCEPT ![t] = c], NEW C, C = 1..Len(parents'), Created \subseteq C,
           \A n \in C : parents'[n] \subseteq C,
           \A u \in Threads : held'[u] \subseteq C,
           DOMAIN graphs' \subseteq C,
           KeysWithin(keys', C),
           \A g \in 1..Len(servers') : KnowsOnly(servers'[g], C),
           c.pc \notin {"idle", "panicked"} => c.node \in C,
           state' \in Threads \cup {NoThread}
    PROVE  NodesAreCreated'
<1>1. call'[t] = c /\ \A u \in Threads : u # t => call'[u] = call[u]
  BY CallUpdate DEF IInv, Types
<1>2. \A u \in Threads : call'[u].pc \notin {"idle", "panicked"} => call'[u].node \in C
  BY <1>1 DEF NodesAreCreated
<1>3. Created' = C /\ Graphs' = 1..Len(servers')
  BY DEF Created, Graphs
<1>4. KeysWithin(keys, Created)' <=> KeysWithin(keys', C)
  BY <1>3
<1>5. \A g \in Graphs' : KnowsOnly(servers[g], Created)' <=> KnowsOnly(servers'[g], C)
  BY <1>3 DEF KnowsOnly
<1> QED BY <1>2, <1>3, <1>4, <1>5 DEF NodesAreCreated

-----------------------------------------------------------------------------
(* Who holds which mutex.                                                  *)

(* A graph is locked by the thread that merges into it or frees in it, and  *)
(* STATE by the thread that merges; a call that is over, or panicked, has  *)
(* left no mutex locked.                                                   *)
LocksAccounted ==
    /\ \A g \in Graphs, t \in Threads :
        servers[g].holder = t <=> call[t].pc \in {"merge", "free"} /\ call[t].graph = g
    /\ \A t \in Threads : state = t <=> Merging(t)

LEMMA HolderKept ==
    ASSUME NEW s \in Server, NEW n, NEW o, NEW S
    PROVE  /\ RegisterNode(s, n).holder = s.holder
           /\ Extend(s, o).holder = s.holder
           /\ Emptied(s).holder = s.holder
           /\ Consume(s, S).holder = s.holder
           /\ Forget(s, S).holder = s.holder
<1>1. RegisterNode(s, n).holder = s.holder
  BY DEF RegisterNode, Server
<1>2. Extend(s, o).holder = s.holder
  BY DEF Extend, Server
<1>3. Emptied(s).holder = s.holder
  BY DEF Emptied, Server
<1>4. Consume(s, S).holder = s.holder
  BY DEF Consume, Server
<1>5. Forget(s, S).holder = s.holder
  BY DEF Forget, Server
<1> QED BY <1>1, <1>2, <1>3, <1>4, <1>5

(* LocksAccounted after a step of t: nobody else's mutexes change. *)
LEMMA LocksStep ==
    ASSUME IInv, LocksAccounted, NEW t \in Threads, NEW c \in Call,
           call' = [call EXCEPT ![t] = c],
           \A g \in 1..Len(servers'), u \in Threads \ {t} :
                servers'[g].holder = u <=> g \in 1..Len(servers) /\ servers[g].holder = u,
           \A g \in 1..Len(servers') :
                servers'[g].holder = t <=> c.pc \in {"merge", "free"} /\ c.graph = g,
           \A u \in Threads \ {t} : state' = u <=> state = u,
           state' = t <=> c.pc \in {"lock", "merge"}
    PROVE  LocksAccounted'
<1>1. call'[t] = c /\ \A u \in Threads : u # t => call'[u] = call[u]
  BY CallUpdate DEF IInv, Types
<1>2. \A u \in Threads : call[u].pc \in {"merge", "free"} => call[u].graph \in 1..Len(servers)
  BY Known
<1>3. \A g \in 1..Len(servers), u \in Threads :
         servers[g].holder = u <=> call[u].pc \in {"merge", "free"} /\ call[u].graph = g
  BY DEF LocksAccounted, Graphs
<1>4. \A u \in Threads : state = u <=> Merging(u)
  BY DEF LocksAccounted
<1>5. ASSUME NEW g \in 1..Len(servers'), NEW u \in Threads
      PROVE  servers'[g].holder = u <=> call'[u].pc \in {"merge", "free"} /\ call'[u].graph = g
  <2>1. CASE u = t
    BY <1>1, <2>1
  <2>2. CASE u # t
    BY <1>1, <1>2, <1>3, <2>2
  <2> QED BY <2>1, <2>2
<1>6. \A u \in Threads : state' = u <=> Merging(u)'
  BY <1>1, <1>4 DEF Merging
<1> QED BY <1>5, <1>6 DEF LocksAccounted, Graphs

(* ... that does not lock or unlock a graph. *)
LEMMA LocksKept ==
    ASSUME IInv, LocksAccounted, NEW t \in Threads, NEW c \in Call,
           call' = [call EXCEPT ![t] = c],
           call[t].pc \notin {"merge", "free"},
           c.pc \notin {"merge", "free"},
           \A g \in 1..Len(servers') :
                \/ g \in 1..Len(servers) /\ servers'[g].holder = servers[g].holder
                \/ g \notin 1..Len(servers) /\ servers'[g].holder = NoThread,
           \A u \in Threads \ {t} : state' = u <=> state = u,
           state' = t <=> c.pc = "lock"
    PROVE  LocksAccounted'
<1>1. \A g \in 1..Len(servers) : servers[g].holder # t
  BY DEF LocksAccounted, Graphs
<1> QED BY <1>1, LocksStep

(* ... that changes the mutex of its own graph. *)
LEMMA LocksOwn ==
    ASSUME IInv, LocksAccounted, NEW t \in Threads, NEW c \in Call,
           call' = [call EXCEPT ![t] = c],
           call[t].pc \notin {"idle", "panicked"}, c.graph = call[t].graph,
           NEW s \in Server, servers' = [servers EXCEPT ![call[t].graph] = s],
           \/ servers[call[t].graph].holder \in {NoThread, t} /\ s.holder = t
              /\ c.pc \in {"merge", "free"}
           \/ servers[call[t].graph].holder \in {NoThread, t} /\ s.holder = NoThread
              /\ c.pc \notin {"merge", "free"},
           \A u \in Threads \ {t} : state' = u <=> state = u,
           state' = t <=> c.pc \in {"lock", "merge"}
    PROVE  LocksAccounted'
<1> DEFINE g == call[t].graph
<1>1. g \in 1..Len(servers) /\ servers \in Seq(Server)
  BY Known DEF IInv, Types
<1>2. \A h \in 1..Len(servers) : h # g => servers[h].holder # t
  BY DEF LocksAccounted, Graphs
<1> HIDE DEF g
<1>3. servers' = [servers EXCEPT ![g] = s]
  BY DEF g
<1>4. /\ Len(servers') = Len(servers)
      /\ \A h \in 1..Len(servers) : servers'[h] = IF h = g THEN s ELSE servers[h]
  BY <1>1, <1>3, ServersUpdate
<1>5. c.graph = g /\ servers[g].holder \in {NoThread, t}
  BY DEF g
<1>6. \A h \in 1..Len(servers'), u \in Threads \ {t} :
         servers'[h].holder = u <=> h \in 1..Len(servers) /\ servers[h].holder = u
  BY <1>4, <1>5
<1>7. \A h \in 1..Len(servers') :
         servers'[h].holder = t <=> c.pc \in {"merge", "free"} /\ c.graph = h
  BY <1>2, <1>4, <1>5
<1> QED BY <1>6, <1>7, LocksStep

-----------------------------------------------------------------------------
(* Both are preserved.                                                     *)

Accounted == IInv /\ MergeHoldsState /\ NodesAreCreated /\ LocksAccounted

(* What NodesAreCreated says of the nodes that a step may refer to. *)
LEMMA KnownNodes ==
    ASSUME Accounted, NEW t \in Threads
    PROVE  /\ Len(parents) \in Nat /\ Created = 1..Len(parents)
           /\ \A n \in Created : parents[n] \subseteq Created
           /\ \A u \in Threads : held[u] \subseteq Created
           /\ held \in [Threads -> SUBSET Nat]
           /\ DOMAIN graphs \subseteq Created
           /\ KeysWithin(keys, Created)
           /\ \A g \in 1..Len(servers) :
                /\ KnowsOnly(servers[g], Created) /\ servers[g].origin \in Created
                /\ servers[g].holder \in Threads \cup {NoThread}
           /\ call[t].pc \notin {"idle", "panicked"} => call[t].node \in Created
           /\ state \in Threads \cup {NoThread}
<1>1. Len(parents) \in Nat /\ held \in [Threads -> SUBSET Nat]
  BY DEF Accounted, IInv, Types
<1>2. \A g \in 1..Len(servers) :
         KnowsOnly(servers[g], Created) /\ servers[g].origin \in Created
  BY DEF Accounted, NodesAreCreated, KnowsOnly, Graphs
<1>3. \A g \in 1..Len(servers) : servers[g].holder \in Threads \cup {NoThread}
  BY Known DEF Accounted, Server
<1> QED BY <1>1, <1>2, <1>3 DEF Accounted, NodesAreCreated, Created

(* The new node, and what is known of it. *)
LEMMA CreateNodes ==
    ASSUME Accounted, NEW t \in Threads, NEW ps \in SUBSET held[t], Create(t, ps),
           NEW C, C = 1..Len(parents')
    PROVE  /\ Len(parents) + 1 \in C
           /\ Created \subseteq C
           /\ \A n \in C : parents'[n] \subseteq C
           /\ \A u \in Threads : held'[u] \subseteq C
           /\ state = NoThread /\ call[t].pc = "idle"
<1>1. parents \in Seq(SUBSET Nat) /\ held \in [Threads -> SUBSET Nat]
  BY DEF Accounted, IInv, Types
<1>2. /\ ps \subseteq Created /\ Len(parents) \in Nat /\ Created = 1..Len(parents)
      /\ \A n \in Created : parents[n] \subseteq Created
      /\ \A u \in Threads : held[u] \subseteq Created
  BY KnownNodes
<1>3. parents' = Append(parents, ps)
      /\ held' = [held EXCEPT ![t] = @ \cup {Len(parents) + 1}]
      /\ state = NoThread /\ call[t].pc = "idle"
  BY DEF Create
<1>4. ps \in SUBSET Nat
  BY <1>2
<1>5. /\ Len(parents') = Len(parents) + 1
      /\ \A n \in 1..Len(parents) : parents'[n] = parents[n]
      /\ parents'[Len(parents) + 1] = ps
  BY <1>1, <1>3, <1>4
<1>6. Len(parents) + 1 \in C /\ Created \subseteq C
  BY <1>2, <1>5
<1>7. \A n \in C : n \in Created \/ n = Len(parents) + 1
  BY <1>2, <1>5
<1>8. \A n \in C : parents'[n] \subseteq C
  BY <1>2, <1>5, <1>6, <1>7
<1>9. \A u \in Threads : held'[u] \subseteq C
  BY <1>1, <1>2, <1>3, <1>6
<1> QED BY <1>3, <1>6, <1>8, <1>9

LEMMA KnowsMore ==
    ASSUME NEW s, NEW C, NEW D, C \subseteq D, KnowsOnly(s, C)
    PROVE  KnowsOnly(s, D)
BY DEF KnowsOnly

LEMMA KeysMore ==
    ASSUME NEW ks, NEW C, NEW D, C \subseteq D, KeysWithin(ks, C)
    PROVE  KeysWithin(ks, D)
BY DEF KeysWithin

LEMMA NewServerKnows ==
    ASSUME NEW n, NEW C, n \in C
    PROVE  KnowsOnly(NewServer(n), C) /\ NewServer(n).holder = NoThread
BY DEF NewServer, KnowsOnly

LEMMA MappedDomain ==
    ASSUME NEW f, NEW S, NEW v
    PROVE  DOMAIN Mapped(f, S, v) = DOMAIN f \cup S
BY DEF Mapped

LEMMA WithoutDomain ==
    ASSUME NEW f, NEW S
    PROVE  DOMAIN Without(f, S) \subseteq DOMAIN f
BY DEF Without, Restrict

LEMMA LocateNewAccounted ==
    ASSUME Accounted, NEW t \in Threads, NEW ps \in SUBSET held[t], LocateNew(t, ps)
    PROVE  NodesAreCreated' /\ LocksAccounted'
<1> DEFINE n == Len(parents) + 1
           g == Len(servers) + 1
           c == Calling("register", n, g, {})
           v == NewServer(n)
           C == 1..Len(parents')
<1> USE DEF Accounted
<1>1. /\ Create(t, ps) /\ servers' = Append(servers, v) /\ graphs' = Mapped(graphs, {n}, g)
      /\ keys' = Mapped(keys, {n}, {}) /\ call' = [call EXCEPT ![t] = c] /\ state' = state
  BY DEF LocateNew
<1>2. n \in Nat /\ g \in Nat /\ Len(servers) \in Nat /\ servers \in Seq(Server)
  BY <1>1, CreateFacts, Known DEF IInv, Types
<1>3. /\ n \in C /\ Created \subseteq C
      /\ \A m \in C : parents'[m] \subseteq C
      /\ \A u \in Threads : held'[u] \subseteq C
      /\ state = NoThread /\ call[t].pc = "idle"
  BY <1>1, CreateNodes
<1>4. c \in Call /\ c.pc = "register" /\ c.node = n
  BY <1>2, RegisterCall
<1>5. v \in Server /\ KnowsOnly(v, C) /\ v.holder = NoThread
  BY <1>2, <1>3, NewServerFacts, NewServerKnows
<1> HIDE DEF n, c, v, C
<1>6. /\ Len(servers') = g /\ servers'[g] = v
      /\ \A h \in 1..Len(servers) : servers'[h] = servers[h]
  BY <1>1, <1>2, <1>5, ServersAppend
<1>7. \A h \in 1..Len(servers') : KnowsOnly(servers'[h], C)
  <2>1. \A h \in 1..Len(servers) : KnowsOnly(servers[h], C)
    BY <1>3, KnownNodes, KnowsMore
  <2> QED BY <1>2, <1>5, <1>6, <2>1
<1>8. KeysWithin(keys', C)
  BY <1>1, <1>3, KnownNodes, KeysMore, MappedKeys
<1>9. DOMAIN graphs' \subseteq C
  <2>1. DOMAIN graphs' = DOMAIN graphs \cup {n}
    BY <1>1, MappedDomain
  <2>2. DOMAIN graphs \subseteq Created
    BY KnownNodes
  <2> QED BY <1>3, <2>1, <2>2
<1>10. NodesAreCreated'
  <2>1. C = 1..Len(parents')
    BY DEF C
  <2> QED BY <1>1, <1>3, <1>4, <1>7, <1>8, <1>9, <2>1, NodesStep
<1>11. \A h \in 1..Len(servers') :
          \/ h \in 1..Len(servers) /\ servers'[h].holder = servers[h].holder
          \/ h \notin 1..Len(servers) /\ servers'[h].holder = NoThread
  BY <1>2, <1>5, <1>6
<1>12. LocksAccounted'
  BY <1>1, <1>3, <1>4, <1>11, LocksKept
<1> QED BY <1>10, <1>12

LEMMA LocateOneAccounted ==
    ASSUME Accounted, NEW t \in Threads, NEW ps \in SUBSET held[t], NEW g \in GraphsOf(ps),
           LocateOne(t, ps, g)
    PROVE  NodesAreCreated' /\ LocksAccounted'
<1> DEFINE n == Len(parents) + 1
           c == Calling("register", n, g, {})
           C == 1..Len(parents')
<1> USE DEF Accounted
<1>1. /\ Create(t, ps) /\ servers' = servers /\ graphs' = Mapped(graphs, {n}, g)
      /\ keys' = RegisterKey(keys, servers[g].origin, n)
      /\ call' = [call EXCEPT ![t] = c] /\ state' = state
  BY DEF LocateOne
<1>2. n \in Nat /\ g \in Nat /\ g \in 1..Len(servers)
  BY <1>1, CreateFacts, GraphsOfExist
<1>3. /\ n \in C /\ Created \subseteq C
      /\ \A m \in C : parents'[m] \subseteq C
      /\ \A u \in Threads : held'[u] \subseteq C
      /\ state = NoThread /\ call[t].pc = "idle"
  BY <1>1, CreateNodes
<1>4. c \in Call /\ c.pc = "register" /\ c.node = n
  BY <1>2, RegisterCall
<1> HIDE DEF n, c, C
<1>5. \A h \in 1..Len(servers') : KnowsOnly(servers'[h], C)
  BY <1>1, <1>3, KnownNodes, KnowsMore
<1>6. KeysWithin(keys', C)
  <2>1. servers[g].origin \in C
    BY <1>2, <1>3, KnownNodes
  <2> QED BY <1>1, <1>3, <2>1, KnownNodes, KeysMore, RegisterKeyWithin
<1>7. DOMAIN graphs' \subseteq C
  <2>1. DOMAIN graphs' = DOMAIN graphs \cup {n}
    BY <1>1, MappedDomain
  <2>2. DOMAIN graphs \subseteq Created
    BY KnownNodes
  <2> QED BY <1>3, <2>1, <2>2
<1>8. NodesAreCreated'
  <2>1. C = 1..Len(parents')
    BY DEF C
  <2> QED BY <1>1, <1>3, <1>4, <1>5, <1>6, <1>7, <2>1, NodesStep
<1>9. LocksAccounted'
  BY <1>1, <1>3, <1>4, LocksKept
<1> QED BY <1>8, <1>9

LEMMA LocateSeveralAccounted ==
    ASSUME Accounted, NEW t \in Threads, NEW ps \in SUBSET held[t], NEW main \in GraphsOf(ps),
           LocateSeveral(t, ps, main)
    PROVE  NodesAreCreated' /\ LocksAccounted'
<1> DEFINE n == Len(parents) + 1
           C == 1..Len(parents')
<1> USE DEF Accounted
<1>1. PICK gs \in Collected(ps) :
         call' = [call EXCEPT ![t] = Calling("lock", n, main, gs \ {main})]
  BY DEF LocateSeveral
<1> DEFINE c == Calling("lock", n, main, gs \ {main})
<1>2. /\ Create(t, ps) /\ servers' = servers /\ graphs' = graphs
      /\ keys' = RegisterKey(keys, servers[main].origin, n)
      /\ call' = [call EXCEPT ![t] = c] /\ state' = t
  BY <1>1 DEF LocateSeveral
<1>3. n \in Nat /\ main \in Nat /\ main \in 1..Len(servers)
  BY <1>2, CreateFacts, GraphsOfExist
<1>4. gs \ {main} \in SUBSET Nat
  BY GraphsOfExist DEF Collected
<1>5. /\ n \in C /\ Created \subseteq C
      /\ \A m \in C : parents'[m] \subseteq C
      /\ \A u \in Threads : held'[u] \subseteq C
      /\ state = NoThread /\ call[t].pc = "idle"
  BY <1>2, CreateNodes
<1>6. c \in Call /\ c.pc = "lock" /\ c.node = n
  <2>1. "lock" \in {"idle", "lock", "merge", "register", "sweep", "free",
                    "snapshot", "cleanup", "panicked"}
    OBVIOUS
  <2> QED BY <1>3, <1>4, <2>1, CallingFacts
<1> HIDE DEF n, c, C
<1>7. \A h \in 1..Len(servers') : KnowsOnly(servers'[h], C)
  BY <1>2, <1>5, KnownNodes, KnowsMore
<1>8. KeysWithin(keys', C)
  <2>1. servers[main].origin \in C
    BY <1>3, <1>5, KnownNodes
  <2> QED BY <1>2, <1>5, <2>1, KnownNodes, KeysMore, RegisterKeyWithin
<1>9. DOMAIN graphs' \subseteq C
  BY <1>2, <1>5, KnownNodes
<1>10. NodesAreCreated'
  <2>1. C = 1..Len(parents')
    BY DEF C
  <2> QED BY <1>2, <1>5, <1>6, <1>7, <1>8, <1>9, <2>1, NodesStep
<1>11. LocksAccounted'
  BY <1>2, <1>5, <1>6, LocksKept
<1> QED BY <1>10, <1>11

(* No node is created, and the server of one graph changes, to s. *)
LEMMA NodesKept ==
    ASSUME Accounted, NEW t \in Threads, NEW c \in Call,
           call' = [call EXCEPT ![t] = c], parents' = parents,
           \A u \in Threads : held'[u] \subseteq Created,
           DOMAIN graphs' \subseteq Created,
           KeysWithin(keys', Created),
           \/ servers' = servers
           \/ \E g \in 1..Len(servers), s \in Server :
                servers' = [servers EXCEPT ![g] = s] /\ KnowsOnly(s, Created),
           c.pc \notin {"idle", "panicked"} => c.node \in Created,
           state' \in Threads \cup {NoThread}
    PROVE  NodesAreCreated'
<1>1. Created = 1..Len(parents') /\ Created \subseteq Created
  BY DEF Created
<1>2. \A n \in Created : parents'[n] \subseteq Created
  BY KnownNodes
<1>3. \A h \in 1..Len(servers') : KnowsOnly(servers'[h], Created)
  <2>1. \A h \in 1..Len(servers) : KnowsOnly(servers[h], Created)
    BY KnownNodes
  <2>2. CASE servers' = servers
    BY <2>1, <2>2
  <2>3. ASSUME NEW g \in 1..Len(servers), NEW s \in Server,
               servers' = [servers EXCEPT ![g] = s], KnowsOnly(s, Created)
        PROVE  \A h \in 1..Len(servers') : KnowsOnly(servers'[h], Created)
    <3>1. servers \in Seq(Server)
      BY DEF Accounted, IInv, Types
    <3>2. /\ Len(servers') = Len(servers)
          /\ \A h \in 1..Len(servers) : servers'[h] = IF h = g THEN s ELSE servers[h]
      BY <2>3, <3>1, ServersUpdate
    <3> QED BY <2>1, <2>3, <3>2
  <2> QED BY <2>2, <2>3
<1> QED BY <1>1, <1>2, <1>3, NodesStep DEF Accounted

LEMMA LockMainAccounted ==
    ASSUME Accounted, NEW t \in Threads, LockMain(t)
    PROVE  NodesAreCreated' /\ LocksAccounted'
<1> DEFINE g == call[t].graph
           s == [servers[g] EXCEPT !.holder = t]
           c == [call[t] EXCEPT !.pc = "merge"]
<1> USE DEF Accounted
<1>1. call[t].pc = "lock" /\ servers' = [servers EXCEPT ![g] = s]
      /\ servers[g].holder = NoThread
      /\ call' = [call EXCEPT ![t] = c] /\ parents' = parents /\ held' = held
      /\ graphs' = graphs /\ keys' = keys /\ state' = state
  BY DEF LockMain
<1>2. g \in 1..Len(servers) /\ servers[g] \in Server /\ call[t] \in Call
  BY <1>1, Known
<1>3. s \in Server /\ s.holder = t
  BY <1>2 DEF Server
<1>4. c \in Call /\ c.pc = "merge" /\ c.node = call[t].node /\ c.graph = g
  BY <1>2 DEF Call
<1>5. KnowsOnly(s, Created)
  BY <1>2, KnownNodes, HolderKnows
<1>6. state = t
  BY <1>1 DEF MergeHoldsState, Merging
<1> HIDE DEF s, c
<1>7. NodesAreCreated'
  BY <1>1, <1>2, <1>3, <1>4, <1>5, KnownNodes, NodesKept
<1>8. LocksAccounted'
  BY <1>1, <1>3, <1>4, <1>6, LocksOwn
<1> QED BY <1>7, <1>8

LEMMA EndMergeAccounted ==
    ASSUME Accounted, NEW t \in Threads, EndMerge(t)
    PROVE  NodesAreCreated' /\ LocksAccounted'
<1> DEFINE g == call[t].graph
           s == [servers[g] EXCEPT !.holder = NoThread]
           c == [call[t] EXCEPT !.pc = "register"]
           S == {servers[g].origin, call[t].node}
<1> USE DEF Accounted
<1>1. call[t].pc = "merge" /\ servers' = [servers EXCEPT ![g] = s]
      /\ call' = [call EXCEPT ![t] = c] /\ parents' = parents /\ held' = held
      /\ graphs' = Mapped(graphs, S, g) /\ keys' = keys /\ state' = NoThread
  BY DEF EndMerge
<1>2. g \in 1..Len(servers) /\ servers[g] \in Server /\ call[t] \in Call
  BY <1>1, Known
<1>3. s \in Server /\ s.holder = NoThread
  BY <1>2 DEF Server
<1>4. c \in Call /\ c.pc = "register" /\ c.node = call[t].node /\ c.graph = g
  BY <1>2 DEF Call
<1>5. KnowsOnly(s, Created)
  BY <1>2, KnownNodes, HolderKnows
<1>6. state = t /\ servers[g].holder = t
  BY <1>1, <1>2 DEF MergeHoldsState, Merging, LocksAccounted, Graphs
<1>7. DOMAIN graphs' \subseteq Created
  <2>1. S \subseteq Created
    BY <1>1, <1>2, KnownNodes
  <2>2. DOMAIN graphs' = DOMAIN graphs \cup S
    BY <1>1, MappedDomain
  <2>3. DOMAIN graphs \subseteq Created
    BY KnownNodes
  <2> QED BY <2>1, <2>2, <2>3
<1> HIDE DEF s, c, S
<1>8. NodesAreCreated'
  BY <1>1, <1>2, <1>3, <1>4, <1>5, <1>7, KnownNodes, NodesKept
<1>9. \A u \in Threads \ {t} : state' = u <=> state = u
  BY <1>1, <1>6
<1>10. state' # t
  BY <1>1
<1>11. LocksAccounted'
  BY <1>1, <1>3, <1>4, <1>6, <1>9, <1>10, LocksOwn
<1> QED BY <1>8, <1>11

LEMMA RegisterAccounted ==
    ASSUME Accounted, NEW t \in Threads, Register(t)
    PROVE  NodesAreCreated' /\ LocksAccounted'
<1> DEFINE g == call[t].graph
           s == RegisterNode(servers[g], call[t].node)
<1> USE DEF Accounted
<1>1. call[t].pc = "register" /\ servers' = [servers EXCEPT ![g] = s]
      /\ servers[g].holder = NoThread
      /\ call' = [call EXCEPT ![t] = Idle] /\ parents' = parents /\ held' = held
      /\ graphs' = graphs /\ keys' = keys /\ state' = state
  BY DEF Register
<1>2. g \in 1..Len(servers) /\ servers[g] \in Server /\ call[t].node \in Nat
      /\ servers \in Seq(Server)
  BY <1>1, Known DEF Call, IInv, Types
<1>3. s \in Server /\ s.holder = servers[g].holder
  BY <1>2, RegisterNodeFacts, HolderKept
<1>4. KnowsOnly(s, Created)
  BY <1>1, <1>2, KnownNodes, RegisterKnows
<1>5. state # t
  BY <1>1 DEF LocksAccounted, Merging
<1> HIDE DEF s, g
<1>6. NodesAreCreated'
  BY <1>1, <1>2, <1>3, <1>4, IdleFacts, KnownNodes, NodesKept
<1>7. \A h \in 1..Len(servers') :
         h \in 1..Len(servers) /\ servers'[h].holder = servers[h].holder
  BY <1>1, <1>2, <1>3, ServersUpdate
<1>8. LocksAccounted'
  BY <1>1, <1>5, <1>7, IdleFacts, LocksKept
<1> QED BY <1>6, <1>8

LEMMA SweepAccounted ==
    ASSUME Accounted, NEW t \in Threads, Sweep(t)
    PROVE  NodesAreCreated' /\ LocksAccounted'
<1> DEFINE g == call[t].graph
           visited == Visited(servers[g], call[t].node)
           k == Consume(servers[g], visited)
           s == [k EXCEPT !.holder = t]
           c == [call[t] EXCEPT !.pc = "free", !.visited = visited]
<1> USE DEF Accounted
<1>1. call[t].pc = "sweep" /\ servers' = [servers EXCEPT ![g] = s]
      /\ servers[g].holder = NoThread
      /\ call' = [call EXCEPT ![t] = c] /\ parents' = parents /\ held' = held
      /\ graphs' = graphs /\ keys' = keys /\ state' = state
  BY DEF Sweep
<1>2. g \in 1..Len(servers) /\ servers[g] \in Server /\ call[t] \in Call
  BY <1>1, Known
<1>3. visited \in SUBSET Nat
  BY <1>2 DEF Visited, Server
<1> HIDE DEF visited
<1>4. k \in Server /\ KnowsOnly(k, Created)
  BY <1>2, KnownNodes, ConsumeFacts, ConsumeKnows
<1> HIDE DEF k
<1>5. s \in Server /\ s.holder = t /\ KnowsOnly(s, Created)
  BY <1>4, HolderKnows DEF Server
<1>6. c \in Call /\ c.pc = "free" /\ c.node = call[t].node /\ c.graph = g
  BY <1>2, <1>3 DEF Call
<1>7. state # t
  BY <1>1 DEF LocksAccounted, Merging
<1> HIDE DEF s, c
<1>8. NodesAreCreated'
  BY <1>1, <1>2, <1>5, <1>6, KnownNodes, NodesKept
<1>9. LocksAccounted'
  BY <1>1, <1>5, <1>6, <1>7, LocksOwn
<1> QED BY <1>8, <1>9

LEMMA PanicAccounted ==
    ASSUME Accounted, NEW t \in Threads, Panic(t)
    PROVE  NodesAreCreated' /\ LocksAccounted'
<1> DEFINE c == Calling("panicked", 0, 0, {})
<1> USE DEF Accounted
<1>1. call[t].pc = "sweep" /\ call' = [call EXCEPT ![t] = c]
      /\ held' = [held EXCEPT ![t] = {}]
      /\ parents' = parents /\ graphs' = graphs /\ keys' = keys
      /\ servers' = servers /\ state' = state
  BY DEF Panic
<1>2. c \in Call /\ c.pc = "panicked"
  <2>1. "panicked" \in Pcs /\ {} \in SUBSET Nat /\ 0 \in Nat
    BY DEF Pcs
  <2> QED BY <2>1, NewCall
<1> HIDE DEF c
<1>3. \A u \in Threads : held'[u] \subseteq Created
  BY <1>1, KnownNodes
<1>4. NodesAreCreated'
  BY <1>1, <1>2, <1>3, KnownNodes, NodesKept
<1>5. state # t
  BY <1>1 DEF LocksAccounted, Merging
<1>6. LocksAccounted'
  BY <1>1, <1>2, <1>5, LocksKept
<1> QED BY <1>4, <1>6

LEMMA MergeTwoAccounted ==
    ASSUME Accounted, NEW t \in Threads, NEW g \in call[t].others, MergeTwo(t, g)
    PROVE  NodesAreCreated' /\ LocksAccounted'
<1> DEFINE main == call[t].graph
           s == Extend(servers[main], servers[g])
           e == Emptied(servers[g])
           origin == servers[g].origin
           o == servers[main].origin
           moved == IF origin \in DOMAIN keys THEN keys[origin] ELSE {}
           c == [call[t] EXCEPT !.others = @ \ {g}]
           w == Without(keys, {origin})
           v == keys[o] \cup moved
           S == {origin} \cup moved
<1> USE DEF Accounted
<1>1. call[t].pc = "merge" /\ servers[g].holder = NoThread
      /\ servers' = [servers EXCEPT ![main] = s, ![g] = e]
      /\ call' = [call EXCEPT ![t] = c] /\ parents' = parents /\ held' = held
      /\ graphs' = Mapped(graphs, S, main) /\ keys' = Mapped(w, {o}, v) /\ state' = state
  BY DEF MergeTwo
<1>2. /\ main \in 1..Len(servers) /\ g \in 1..Len(servers) /\ main # g
      /\ servers[main] \in Server /\ servers[g] \in Server
      /\ servers \in Seq(Server) /\ call[t] \in Call
  BY <1>1, Known DEF IInv, Types
<1>3. /\ KnowsOnly(servers[main], Created) /\ KnowsOnly(servers[g], Created)
      /\ origin \in Created /\ o \in Created /\ KeysWithin(keys, Created)
      /\ DOMAIN graphs \subseteq Created
  BY <1>2, KnownNodes
<1>4. s \in Server /\ KnowsOnly(s, Created) /\ s.holder = servers[main].holder
  BY <1>2, <1>3, ExtendFacts, ExtendKnows, HolderKept
<1>5. e \in Server /\ KnowsOnly(e, Created) /\ e.holder = servers[g].holder
  BY <1>2, <1>3, EmptiedFacts, EmptiedKnows, HolderKept
<1>6. c \in Call /\ c.pc = "merge" /\ c.node = call[t].node /\ c.graph = main
  BY <1>1, <1>2 DEF Call
<1>7. moved \subseteq Created
  BY <1>3 DEF KeysWithin
<1>8. v \in SUBSET Created
  <2>1. o \in DOMAIN keys
    BY <1>1 DEF MergeHoldsState, Merging
  <2> QED BY <1>3, <1>7, <2>1 DEF KeysWithin
<1>9. S \subseteq Created
  BY <1>3, <1>7
<1>10. state = t /\ servers[main].holder = t
  BY <1>1, <1>2 DEF MergeHoldsState, Merging, LocksAccounted, Graphs
<1>11. \A h \in 1..Len(servers) : servers[h].holder = t => h = main
  BY DEF LocksAccounted, Graphs
<1>12. KeysWithin(w, Created)
  BY <1>3, WithoutKeys
<1> HIDE DEF main, s, e, o, c, w, v, S
<1>13. KeysWithin(keys', Created)
  BY <1>1, <1>3, <1>8, <1>12, MappedKeys
<1>14. DOMAIN graphs' \subseteq Created
  <2>1. DOMAIN graphs' = DOMAIN graphs \cup S
    BY <1>1, MappedDomain
  <2> QED BY <1>3, <1>9, <2>1
<1>15. /\ Len(servers') = Len(servers)
       /\ \A h \in 1..Len(servers) :
            servers'[h] = IF h = main THEN s ELSE IF h = g THEN e ELSE servers[h]
  <2> DEFINE first == [servers EXCEPT ![main] = s]
  <2>1. /\ first \in Seq(Server) /\ Len(first) = Len(servers)
        /\ \A h \in 1..Len(servers) : first[h] = IF h = main THEN s ELSE servers[h]
    BY <1>2, <1>4, ServersUpdate
  <2>2. servers' = [first EXCEPT ![g] = e]
    BY <1>1
  <2> HIDE DEF first
  <2>3. /\ Len(servers') = Len(first)
        /\ \A h \in 1..Len(first) : servers'[h] = IF h = g THEN e ELSE first[h]
    BY <1>2, <1>5, <2>1, <2>2, ServersUpdate
  <2> QED BY <1>2, <2>1, <2>3
<1>16. \A h \in 1..Len(servers') :
          KnowsOnly(servers'[h], Created) /\ servers'[h].holder = servers[h].holder
  <2>1. \A h \in 1..Len(servers) : KnowsOnly(servers[h], Created)
    BY KnownNodes
  <2> QED BY <1>4, <1>5, <1>15, <2>1
<1>17. NodesAreCreated'
  <2>1. Created = 1..Len(parents') /\ Created \subseteq Created
    BY <1>1 DEF Created
  <2>2. /\ \A n \in Created : parents'[n] \subseteq Created
        /\ \A u \in Threads : held'[u] \subseteq Created
        /\ c.node \in Created /\ state' \in Threads \cup {NoThread}
    BY <1>1, <1>6, KnownNodes
  <2> QED BY <1>1, <1>6, <1>13, <1>14, <1>16, <2>1, <2>2, NodesStep
<1>18. /\ \A h \in 1..Len(servers'), u \in Threads \ {t} :
             servers'[h].holder = u <=> h \in 1..Len(servers) /\ servers[h].holder = u
       /\ \A h \in 1..Len(servers') :
             servers'[h].holder = t <=> c.pc \in {"merge", "free"} /\ c.graph = h
  BY <1>6, <1>10, <1>11, <1>15, <1>16
<1>19. LocksAccounted'
  BY <1>1, <1>6, <1>10, <1>18, LocksStep
<1> QED BY <1>17, <1>19

LEMMA LocateRootAccounted ==
    ASSUME Accounted, NEW t \in Threads, NEW r \in held[t], LocateRoot(t, r)
    PROVE  NodesAreCreated' /\ LocksAccounted'
<1> USE DEF Accounted
<1>1. /\ parents' = parents /\ held' = held /\ call[t].pc = "idle"
      /\ state = NoThread /\ state' = state
  BY DEF LocateRoot
<1>2. /\ r \in Nat /\ Len(servers) \in Nat /\ servers \in Seq(Server)
      /\ \A n \in DOMAIN graphs : graphs[n] \in 1..Len(servers)
  BY Known DEF IInv, Types
<1>3. /\ r \in Created /\ KeysWithin(keys, Created) /\ DOMAIN graphs \subseteq Created
      /\ \A h \in 1..Len(servers) :
            KnowsOnly(servers[h], Created) /\ servers[h].origin \in Created
  BY KnownNodes
<1>4. "sweep" \in {"idle", "lock", "merge", "register", "sweep", "free",
                   "snapshot", "cleanup", "panicked"} /\ {} \in SUBSET Nat
  OBVIOUS
<1>5. /\ Created = 1..Len(parents') /\ Created \subseteq Created
      /\ \A n \in Created : parents'[n] \subseteq Created
      /\ \A u \in Threads : held'[u] \subseteq Created
      /\ state' \in Threads \cup {NoThread}
  <2>1. Created = 1..Len(parents') /\ Created \subseteq Created
    BY <1>1 DEF Created
  <2> QED BY <1>1, <2>1, KnownNodes
<1>6. CASE r \in DOMAIN graphs
  <2> DEFINE g == graphs[r]
             c == Calling("sweep", r, g, {})
  <2>1. call' = [call EXCEPT ![t] = c] /\ servers' = servers /\ graphs' = graphs
        /\ (keys' = keys \/ keys' = RegisterKey(keys, servers[g].origin, r))
    BY <1>6 DEF LocateRoot
  <2>2. g \in 1..Len(servers) /\ g \in Nat
    BY <1>2, <1>6
  <2> HIDE DEF g
  <2>3. c \in Call /\ c.pc = "sweep" /\ c.node = r
    BY <1>2, <1>4, <2>2, CallingFacts
  <2> HIDE DEF c
  <2>4. KeysWithin(keys', Created)
    BY <1>3, <2>1, <2>2, RegisterKeyWithin
  <2>5. NodesAreCreated'
    BY <1>1, <1>3, <1>5, <2>1, <2>3, <2>4, NodesKept
  <2>6. LocksAccounted'
    BY <1>1, <2>1, <2>3, LocksKept
  <2> QED BY <2>5, <2>6
<1>7. CASE r \notin DOMAIN graphs
  <2> DEFINE g == Len(servers) + 1
             v == NewServer(r)
             c == Calling("sweep", r, g, {})
  <2>1. call' = [call EXCEPT ![t] = c] /\ servers' = Append(servers, v)
        /\ graphs' = Mapped(graphs, {r}, g) /\ keys' = Mapped(keys, {r}, {})
    BY <1>7 DEF LocateRoot
  <2>2. g \in Nat /\ g = Len(servers) + 1
    BY <1>2
  <2>3. v \in Server /\ KnowsOnly(v, Created) /\ v.holder = NoThread
    BY <1>2, <1>3, NewServerFacts, NewServerKnows
  <2> HIDE DEF g
  <2>4. c \in Call /\ c.pc = "sweep" /\ c.node = r
    BY <1>2, <1>4, <2>2, CallingFacts
  <2> HIDE DEF c, v
  <2>5. /\ Len(servers') = g /\ servers'[g] = v
        /\ \A h \in 1..Len(servers) : servers'[h] = servers[h]
    BY <1>2, <2>1, <2>2, <2>3, ServersAppend
  <2>6. \A h \in 1..Len(servers') : KnowsOnly(servers'[h], Created)
    BY <1>2, <1>3, <2>2, <2>3, <2>5
  <2>7. KeysWithin(keys', Created)
    BY <1>3, <2>1, MappedKeys
  <2>8. DOMAIN graphs' \subseteq Created
    <3>1. DOMAIN graphs' = DOMAIN graphs \cup {r}
      BY <2>1, MappedDomain
    <3> QED BY <1>3, <3>1
  <2>9. NodesAreCreated'
    BY <1>3, <1>5, <2>1, <2>4, <2>6, <2>7, <2>8, NodesStep
  <2>10. \A h \in 1..Len(servers') :
            \/ h \in 1..Len(servers) /\ servers'[h].holder = servers[h].holder
            \/ h \notin 1..Len(servers) /\ servers'[h].holder = NoThread
    BY <1>2, <2>2, <2>3, <2>5
  <2>11. LocksAccounted'
    BY <1>1, <2>1, <2>4, <2>10, LocksKept
  <2> QED BY <2>9, <2>11
<1> QED BY <1>6, <1>7

LEMMA FreeAccounted ==
    ASSUME Accounted, NEW t \in Threads, Free(t)
    PROVE  NodesAreCreated' /\ LocksAccounted'
<1> DEFINE g == call[t].graph
           gone == Unneeded(servers[g]) \cup call[t].visited
           f == FreeUnavailable(servers[g])
           s == [f EXCEPT !.holder = NoThread]
           c == [call[t] EXCEPT !.pc = "snapshot"]
<1> USE DEF Accounted
<1>1. call[t].pc = "free" /\ state = NoThread /\ servers' = [servers EXCEPT ![g] = s]
      /\ call' = [call EXCEPT ![t] = c] /\ parents' = parents /\ held' = held
      /\ graphs' = Without(graphs, gone) /\ keys' = RemoveKeys(keys, gone) /\ state' = state
  BY DEF Free
<1>2. g \in 1..Len(servers) /\ servers[g] \in Server /\ call[t] \in Call
  BY <1>1, Known
<1>3. f \in Server /\ KnowsOnly(f, Created)
  BY <1>2, KnownNodes, FreeUnavailableFacts, FreeUnavailableKnows
<1> HIDE DEF f
<1>4. s \in Server /\ s.holder = NoThread /\ KnowsOnly(s, Created)
  BY <1>3, HolderKnows DEF Server
<1>5. c \in Call /\ c.pc = "snapshot" /\ c.node = call[t].node /\ c.graph = g
  BY <1>2 DEF Call
<1>6. servers[g].holder = t
  BY <1>1, <1>2 DEF LocksAccounted, Graphs
<1> HIDE DEF s, c, gone
<1>7. KeysWithin(keys', Created)
  BY <1>1, KnownNodes, RemoveKeysWithin
<1>8. DOMAIN graphs' \subseteq Created
  <2>1. DOMAIN graphs' \subseteq DOMAIN graphs
    BY <1>1, WithoutDomain
  <2> QED BY <2>1, KnownNodes
<1>9. NodesAreCreated'
  BY <1>1, <1>2, <1>4, <1>5, <1>7, <1>8, KnownNodes, NodesKept
<1>10. LocksAccounted'
  BY <1>1, <1>4, <1>5, <1>6, LocksOwn
<1> QED BY <1>9, <1>10

LEMMA SnapshotAccounted ==
    ASSUME Accounted, NEW t \in Threads, Snapshot(t)
    PROVE  NodesAreCreated' /\ LocksAccounted'
<1> DEFINE c == [call[t] EXCEPT !.pc = "cleanup", !.snapshot = graphs]
<1> USE DEF Accounted
<1>1. call[t].pc = "snapshot" /\ call' = [call EXCEPT ![t] = c] /\ held' = held
      /\ parents' = parents /\ graphs' = graphs /\ keys' = keys
      /\ servers' = servers /\ state' = state /\ state = NoThread
  BY DEF Snapshot
<1>2. call[t] \in Call /\ graphs \in Entries
  BY Known
<1>3. c \in Call /\ c.pc = "cleanup" /\ c.node = call[t].node
  BY <1>2 DEF Call
<1> HIDE DEF c
<1>4. NodesAreCreated'
  BY <1>1, <1>3, KnownNodes, NodesKept
<1>5. LocksAccounted'
  BY <1>1, <1>3, LocksKept
<1> QED BY <1>4, <1>5

LEMMA CleanupAccounted ==
    ASSUME Accounted, NEW t \in Threads, NEW n \in DOMAIN call[t].snapshot, Cleanup(t, n)
    PROVE  NodesAreCreated' /\ LocksAccounted'
<1> DEFINE g == call[t].snapshot[n]
           roots == IF MaybeUseful(servers[g]) THEN {} ELSE UnusedRoots(servers[g], {})
           s == Forget(servers[g], roots)
           w == Without(call[t].snapshot, {n})
           c == [call[t] EXCEPT !.snapshot = w, !.removable = @ \cup roots]
<1> USE DEF Accounted
<1>1. call[t].pc = "cleanup" /\ servers' = [servers EXCEPT ![g] = s]
      /\ call' = [call EXCEPT ![t] = c] /\ parents' = parents /\ held' = held
      /\ graphs' = graphs /\ keys' = keys /\ state' = state
  BY DEF Cleanup
<1>2. g \in 1..Len(servers) /\ servers[g] \in Server /\ call[t] \in Call
      /\ call[t].snapshot \in Partial(Positions) /\ servers \in Seq(Server)
  BY Known DEF Call, Entries, IInv, Types
<1>3. roots \in SUBSET Nat
  BY <1>2 DEF UnusedRoots, Server
<1> HIDE DEF roots
<1>4. s \in Server /\ KnowsOnly(s, Created) /\ s.holder = servers[g].holder
  BY <1>2, KnownNodes, ForgetFacts, ForgetKnows, HolderKept
<1>5. w \in Partial(Positions)
  BY <1>2, WithoutType
<1> HIDE DEF w
<1>6. c \in Call /\ c.pc = "cleanup" /\ c.node = call[t].node
  BY <1>1, <1>2, <1>3, <1>5 DEF Call, Entries
<1> HIDE DEF g, s, c
<1>7. NodesAreCreated'
  BY <1>1, <1>2, <1>4, <1>6, KnownNodes, NodesKept
<1>8. \A h \in 1..Len(servers') :
         h \in 1..Len(servers) /\ servers'[h].holder = servers[h].holder
  BY <1>1, <1>2, <1>4, ServersUpdate
<1>9. state # t
  BY <1>1 DEF LocksAccounted, Merging
<1>10. LocksAccounted'
  BY <1>1, <1>6, <1>8, <1>9, LocksKept
<1> QED BY <1>7, <1>10

LEMMA EndBackwardAccounted ==
    ASSUME Accounted, NEW t \in Threads, EndBackward(t)
    PROVE  NodesAreCreated' /\ LocksAccounted'
<1> USE DEF Accounted
<1>1. call[t].pc = "cleanup" /\ call' = [call EXCEPT ![t] = Idle] /\ held' = held
      /\ parents' = parents /\ graphs' = Without(graphs, call[t].removable)
      /\ keys' = keys /\ servers' = servers /\ state' = state
  BY DEF EndBackward
<1>2. DOMAIN graphs' \subseteq Created
  <2>1. DOMAIN graphs' \subseteq DOMAIN graphs
    BY <1>1, WithoutDomain
  <2> QED BY <2>1, KnownNodes
<1>3. NodesAreCreated'
  BY <1>1, <1>2, IdleFacts, KnownNodes, NodesKept
<1>4. state # t
  BY <1>1 DEF LocksAccounted, Merging
<1>5. LocksAccounted'
  BY <1>1, <1>4, IdleFacts, LocksKept
<1> QED BY <1>3, <1>5

LEMMA HeldAccounted ==
    ASSUME Accounted, \A u \in Threads : held'[u] \subseteq Created,
           UNCHANGED <<parents, graphs, keys, servers, state, call, spent>>
    PROVE  NodesAreCreated' /\ LocksAccounted'
BY DEF Accounted, NodesAreCreated, LocksAccounted, Merging, Graphs, Created,
       KeysWithin, KnowsOnly

LEMMA InitAccounted == Init => Accounted
<1> SUFFICES ASSUME Init PROVE Accounted
  OBVIOUS
<1>1. /\ servers = <<>> /\ graphs = <<>> /\ keys = <<>> /\ state = NoThread
      /\ call = [t \in Threads |-> Idle]
      /\ parents = [n \in 1..NumParams |-> {}]
      /\ held = [t \in Threads |-> 1..NumParams]
  BY DEF Init
<1>2. 1..Len(servers) = {} /\ DOMAIN graphs = {} /\ DOMAIN keys = {}
  BY <1>1
<1>3. Created = 1..NumParams
  BY <1>1 DEF Created
<1>4. \A t \in Threads : call[t].pc = "idle"
  BY <1>1, IdleFacts
<1>5. NodesAreCreated
  BY <1>1, <1>2, <1>3, <1>4 DEF NodesAreCreated, KeysWithin, Graphs
<1>6. LocksAccounted /\ MergeHoldsState
  BY <1>1, <1>2, <1>4 DEF LocksAccounted, MergeHoldsState, Merging, Graphs
<1> QED BY <1>5, <1>6, InitIInv DEF Accounted

LEMMA NextAccounted == Accounted /\ [Next]_vars => Accounted'
<1> SUFFICES ASSUME Accounted, [Next]_vars PROVE Accounted'
  OBVIOUS
<1>1. IInv' /\ MergeHoldsState'
  BY IInvStep, MergeHoldsStateStep DEF Accounted
<1>2. NodesAreCreated' /\ LocksAccounted'
  <2>1. CASE UNCHANGED vars
    BY <2>1 DEF vars, Accounted, NodesAreCreated, LocksAccounted, Merging, Graphs, Created,
                KeysWithin, KnowsOnly
  <2>2. \A t \in Threads : Operands(t) \subseteq SUBSET held[t]
    BY DEF Operands
  <2>3. ASSUME NEW t \in Threads, NEW n \in held[t], Drop(t, n)
        PROVE  NodesAreCreated' /\ LocksAccounted'
    <3>1. \A u \in Threads : held'[u] \subseteq Created
      BY <2>3, KnownNodes DEF Drop
    <3> QED BY <2>3, <3>1, HeldAccounted DEF Drop
  <2>4. ASSUME NEW t \in Threads, NEW u \in Threads, NEW n \in held[t], Share(t, u, n)
        PROVE  NodesAreCreated' /\ LocksAccounted'
    <3>1. \A x \in Threads : held'[x] \subseteq Created
      BY <2>4, KnownNodes DEF Share
    <3> QED BY <2>4, <3>1, HeldAccounted DEF Share
  <2> QED
    BY <2>1, <2>2, <2>3, <2>4, LocateNewAccounted, LocateOneAccounted,
       LocateSeveralAccounted, LockMainAccounted, MergeTwoAccounted, EndMergeAccounted,
       RegisterAccounted, LocateRootAccounted, SweepAccounted, PanicAccounted,
       FreeAccounted, SnapshotAccounted, CleanupAccounted, EndBackwardAccounted
    DEF Next
<1> QED BY <1>1, <1>2 DEF Accounted

LEMMA AccountedHolds == Spec => []Accounted
BY InitAccounted, NextAccounted, PTL DEF Spec

(* Every server, entry, key and held tensor speaks of nodes that were       *)
(* created, and every entry of the locator points to a graph that exists.  *)
THEOREM TypesAlwaysCorrect == Spec => []TypeOK
<1>1. Accounted => TypeOK
  <2> SUFFICES ASSUME Accounted PROVE TypeOK
    OBVIOUS
  <2>1. parents \in Seq(SUBSET Created)
    <3>1. parents \in Seq(SUBSET Nat) /\ \A n \in 1..Len(parents) : parents[n] \in SUBSET Created
      BY DEF Accounted, IInv, Types, NodesAreCreated, Created
    <3> QED BY <3>1
  <2>2. held \in [Threads -> SUBSET Created]
    BY DEF Accounted, IInv, Types, NodesAreCreated
  <2>3. DOMAIN graphs \subseteq Created /\ Range(graphs) \subseteq Graphs
    BY DEF Accounted, IInv, GraphsExist, NodesAreCreated, Range, Graphs
  <2>4. DOMAIN keys \subseteq Created /\ Range(keys) \subseteq SUBSET Created
    BY DEF Accounted, NodesAreCreated, KeysWithin, Range
  <2>5. ASSUME NEW g \in Graphs
        PROVE  servers[g] \in [origin : Created, steps : SUBSET Created,
                               nodes : SUBSET Created, leaves : SUBSET Created,
                               holder : Threads \cup {NoThread}]
    <3>1. servers[g] \in Server
      BY DEF Accounted, IInv, Types, Graphs
    <3>2. KnowsOnly(servers[g], Created) /\ servers[g].steps \subseteq Created
      BY DEF Accounted, IInv, StepsAreCreated, NodesAreCreated
    <3> QED BY <3>1, <3>2 DEF Server, KnowsOnly
  <2>6. state \in Threads \cup {NoThread} /\ spent \subseteq Created
    BY DEF Accounted, IInv, StepsAreCreated, NodesAreCreated
  <2> QED BY <2>1, <2>2, <2>3, <2>4, <2>5, <2>6 DEF TypeOK
<1> QED BY <1>1, AccountedHolds, PTL

(* No mutex is left locked: a graph is locked exactly while a thread merges *)
(* into it or is between the two halves of its backward pass, STATE while  *)
(* a thread merges.  A thread that panicked or is done holds nothing, and  *)
(* no two threads are in the same graph.                                   *)
THEOREM NoLockLeftBehind == Spec => []LocksAccounted
<1>1. Accounted => LocksAccounted
  BY DEF Accounted
<1> QED BY <1>1, AccountedHolds, PTL

-----------------------------------------------------------------------------
(* The walk to parents.  Follow is a recursive function; these lemmas say   *)
(* what it computes: the least set that contains the nodes it starts from  *)
(* and the parents of its nodes in `through'.                              *)

(* A node is created after its parents. *)
ParentsBefore == \A n \in Created : parents[n] \subseteq 1..(n - 1)

(* The walk never leaves C. *)
ClosedUnder(C, through) == \A n \in C \cap through : parents[n] \subseteq C

(* A non-empty set of nodes has a first one. *)
LEMMA FirstNode ==
    ASSUME NEW S \in SUBSET Nat, S # {}
    PROVE  \E m \in S : \A n \in S : m <= n
<1> DEFINE R == {ss \in Nat \X Nat : ss[1] < ss[2]}
<1>1. IsWellFoundedOn(R, Nat)
  <2>1. OpToRel(<, Nat) = R
    BY DEF OpToRel
  <2> QED BY <2>1, NatLessThanWellFounded
<1>2. \A a, b \in Nat : a < b => <<a, b>> \in R
  OBVIOUS
<1> HIDE DEF R
<1>3. PICK m \in S : \A n \in S : ~(<<n, m>> \in R)
  BY <1>1, WFMin
<1>4. \A n \in S : ~(n < m)
  BY <1>2, <1>3
<1> QED BY <1>3, <1>4

(* The equation that the function in Follow is meant to satisfy. *)
Walks(above, through) ==
    above = [n \in Created |->
                {n} \cup (IF n \in through
                          THEN UNION {above[p] : p \in parents[n]} ELSE {})]

(* It has a solution: the intersection of all sets the walk never leaves.  *)
LEMMA WalkExists ==
    ASSUME ParentsBefore, NEW through, Len(parents) \in Nat
    PROVE  \E above : Walks(above, through)
<1> DEFINE Within(n) == {C \in SUBSET Created : n \in C /\ ClosedUnder(C, through)}
           g == [n \in Created |-> {m \in Created : \A C \in Within(n) : m \in C}]
           G(n) == {n} \cup (IF n \in through THEN UNION {g[p] : p \in parents[n]} ELSE {})
<1>1. \A n \in Created : parents[n] \subseteq Created
  BY DEF ParentsBefore, Created
<1>2. \A n \in Created : g[n] \subseteq Created /\ n \in g[n]
  OBVIOUS
<1>3. \A n \in Created : ClosedUnder(g[n], through)
  BY <1>1 DEF ClosedUnder
<1>4. /\ \A n, m \in Created : m \in g[n] <=> \A C \in Within(n) : m \in C
      /\ \A n \in Created : \A C \in Within(n) : g[n] \subseteq C
      /\ g = [n \in Created |-> g[n]]
  OBVIOUS
<1> HIDE DEF g
<1>5. ASSUME NEW n \in Created PROVE g[n] = G(n)
  <2>1. ASSUME n \in through, NEW p \in parents[n] PROVE g[p] \subseteq g[n]
    <3>1. p \in Created
      BY <1>1
    <3>2. \A C \in Within(n) : C \in Within(p)
      BY <2>1, <3>1 DEF ClosedUnder
    <3> HIDE DEF Within
    <3> QED BY <1>2, <1>4, <3>1, <3>2
  <2>2. G(n) \subseteq Created
    BY <1>1, <1>2
  <2>3. ASSUME NEW x \in G(n), x \in through PROVE parents[x] \subseteq G(n)
    <3>1. CASE x = n
      <4>1. \A p \in parents[n] : p \in g[p]
        BY <1>1, <1>2
      <4> QED BY <2>3, <3>1, <4>1
    <3>2. CASE x # n
      <4>1. PICK p \in parents[n] : n \in through /\ x \in g[p]
        BY <3>2
      <4>2. parents[x] \subseteq g[p]
        BY <1>1, <1>3, <2>3, <4>1 DEF ClosedUnder
      <4>3. g[p] \subseteq G(n)
        BY <4>1
      <4> QED BY <4>2, <4>3
    <3> QED BY <3>1, <3>2
  <2>4. G(n) \in Within(n)
    BY <2>2, <2>3 DEF ClosedUnder
  <2>5. g[n] \subseteq G(n)
    BY <1>4, <2>4
  <2>6. G(n) \subseteq g[n]
    BY <1>2, <2>1
  <2> QED BY <2>5, <2>6
<1>6. g = [n \in Created |-> G(n)]
  <2> HIDE DEF G
  <2> QED BY <1>4, <1>5
<1> QED BY <1>6 DEF Walks

(* The set of nodes that Follow meets is one the walk never leaves, ... *)
LEMMA WalkClosed ==
    ASSUME ParentsBefore, NEW through, NEW above, Walks(above, through)
    PROVE  \A n \in Created :
               above[n] \subseteq Created /\ n \in above[n]
               /\ ClosedUnder(above[n], through)
<1>0. \A n \in Created : parents[n] \subseteq Created /\ \A p \in parents[n] : p < n
  BY DEF ParentsBefore, Created
<1>1. \A n \in Created :
         above[n] = {n} \cup (IF n \in through
                              THEN UNION {above[p] : p \in parents[n]} ELSE {})
  BY DEF Walks
<1> DEFINE Good(n) == /\ above[n] \subseteq Created /\ n \in above[n]
                      /\ ClosedUnder(above[n], through)
           Bad == {n \in Created : ~Good(n)}
<1>2. ASSUME NEW n \in Created, \A p \in parents[n] : Good(p) PROVE Good(n)
  <2>1. above[n] \subseteq Created /\ n \in above[n]
    BY <1>1, <1>2
  <2>2. ASSUME NEW x \in above[n], x \in through PROVE parents[x] \subseteq above[n]
    <3>1. CASE x = n
      <4>1. \A p \in parents[n] : p \in above[p]
        BY <1>2
      <4> QED BY <1>1, <2>2, <3>1, <4>1
    <3>2. CASE x # n
      <4>1. PICK p \in parents[n] : n \in through /\ x \in above[p]
        BY <1>1, <3>2
      <4>2. parents[x] \subseteq above[p]
        BY <1>2, <2>2, <4>1 DEF ClosedUnder
      <4> QED BY <1>1, <4>1, <4>2
    <3> QED BY <3>1, <3>2
  <2> QED BY <2>1, <2>2 DEF ClosedUnder
<1> HIDE DEF Good
<1>3. Bad = {}
  <2>1. SUFFICES ASSUME Bad # {} PROVE FALSE
    OBVIOUS
  <2>2. Bad \in SUBSET Nat
    BY DEF Created
  <2>3. PICK n \in Bad : \A m \in Bad : n <= m
    BY <2>1, <2>2, FirstNode
  <2>4. \A p \in parents[n] : p \in Created /\ p \notin Bad
    BY <1>0, <2>2, <2>3
  <2> QED BY <1>2, <2>3, <2>4
<1> QED BY <1>3 DEF Good

(* ... and the least one. *)
LEMMA WalkLeast ==
    ASSUME ParentsBefore, NEW through, NEW above, Walks(above, through),
           NEW C, ClosedUnder(C, through)
    PROVE  \A n \in Created : n \in C => above[n] \subseteq C
<1>0. \A n \in Created : parents[n] \subseteq Created /\ \A p \in parents[n] : p < n
  BY DEF ParentsBefore, Created
<1>1. \A n \in Created :
         above[n] = {n} \cup (IF n \in through
                              THEN UNION {above[p] : p \in parents[n]} ELSE {})
  BY DEF Walks
<1> DEFINE Bad == {n \in Created : n \in C /\ ~(above[n] \subseteq C)}
<1>2. ASSUME NEW n \in Created, n \in C, \A p \in parents[n] : p \in C => above[p] \subseteq C
      PROVE  above[n] \subseteq C
  BY <1>1, <1>2 DEF ClosedUnder
<1>3. Bad = {}
  <2>1. SUFFICES ASSUME Bad # {} PROVE FALSE
    OBVIOUS
  <2>2. Bad \in SUBSET Nat
    BY DEF Created
  <2>3. PICK n \in Bad : \A m \in Bad : n <= m
    BY <2>1, <2>2, FirstNode
  <2>4. \A p \in parents[n] : p \in Created /\ p \notin Bad
    BY <1>0, <2>2, <2>3
  <2> QED BY <1>2, <2>3, <2>4
<1> QED BY <1>3

(* Follow(start, through) is the least set of nodes that contains start and *)
(* that the walk through `through' never leaves.                           *)
LEMMA FollowFacts ==
    ASSUME ParentsBefore, Len(parents) \in Nat, NEW start, NEW through, start \subseteq Created
    PROVE  /\ Follow(start, through) \subseteq Created
           /\ start \subseteq Follow(start, through)
           /\ ClosedUnder(Follow(start, through), through)
<1> DEFINE above == CHOOSE f : Walks(f, through)
<1>1. Walks(above, through)
  BY WalkExists
<1>2. Follow(start, through) = UNION {above[n] : n \in start}
  BY DEF Follow, Walks
<1> HIDE DEF above
<1>3. \A n \in start : above[n] \subseteq Created /\ n \in above[n]
                       /\ ClosedUnder(above[n], through)
  BY <1>1, WalkClosed
<1> QED BY <1>2, <1>3 DEF ClosedUnder

LEMMA FollowLeast ==
    ASSUME ParentsBefore, Len(parents) \in Nat, NEW start, NEW through, start \subseteq Created,
           NEW C, start \subseteq C, ClosedUnder(C, through)
    PROVE  Follow(start, through) \subseteq C
<1> DEFINE above == CHOOSE f : Walks(f, through)
<1>1. Walks(above, through)
  BY WalkExists
<1>2. Follow(start, through) = UNION {above[n] : n \in start}
  BY DEF Follow, Walks
<1> HIDE DEF above
<1>3. \A n \in start : above[n] \subseteq C
  BY <1>1, WalkLeast
<1> QED BY <1>2, <1>3

-----------------------------------------------------------------------------
(* Every stored step is met when walking from the leaves of its graph       *)
(* through stored steps.  This is what free_unavailable_nodes rests on: it *)
(* looks at nothing else.                                                  *)

(* par: the parents of the nodes. *)
Reaches(par, s) ==
    \A C \in SUBSET Nat :
        /\ s.leaves \subseteq C
        /\ \A n \in C \cap s.steps : par[n] \subseteq C
        => s.steps \subseteq C

ReachedSteps == \A g \in Graphs : Reaches(parents, servers[g])

LEMMA ReachesSame ==
    ASSUME NEW par, NEW s, NEW r, Reaches(par, s), r.leaves = s.leaves, r.steps = s.steps,
           NEW others, \A n \in s.steps : others[n] = par[n]
    PROVE  Reaches(others, r)
BY DEF Reaches

LEMMA ReachesNothing ==
    ASSUME NEW par, NEW s, s.steps = {}
    PROVE  Reaches(par, s)
BY DEF Reaches

(* The parents of a node that is registered are met through it. *)
LEMMA RegisterReaches ==
    ASSUME NEW s \in Server, NEW n \in Nat, Reaches(parents, s)
    PROVE  Reaches(parents, RegisterNode(s, n))
<1> DEFINE r == RegisterNode(s, n)
<1>1. r.steps = s.steps \cup {n} /\ r.leaves = (s.leaves \ parents[n]) \cup {n}
  BY DEF RegisterNode, Server
<1> HIDE DEF r
<1> SUFFICES ASSUME NEW C \in SUBSET Nat, r.leaves \subseteq C,
                    \A m \in C \cap r.steps : parents[m] \subseteq C
             PROVE  r.steps \subseteq C
  BY DEF Reaches, r
<1>2. n \in C /\ parents[n] \subseteq C
  BY <1>1
<1>3. s.leaves \subseteq C
  BY <1>1, <1>2
<1>4. s.steps \subseteq C
  BY <1>1, <1>3 DEF Reaches
<1> QED BY <1>1, <1>2, <1>4

LEMMA ExtendReaches ==
    ASSUME NEW s \in Server, NEW o \in Server, Reaches(parents, s), Reaches(parents, o)
    PROVE  Reaches(parents, Extend(s, o))
<1> DEFINE r == Extend(s, o)
<1>1. r.steps = s.steps \cup o.steps /\ r.leaves = s.leaves \cup o.leaves
  BY DEF Extend, Server
<1> HIDE DEF r
<1> SUFFICES ASSUME NEW C \in SUBSET Nat, r.leaves \subseteq C,
                    \A m \in C \cap r.steps : parents[m] \subseteq C
             PROVE  r.steps \subseteq C
  BY DEF Reaches, r
<1>2. s.steps \subseteq C
  BY <1>1 DEF Reaches
<1>3. o.steps \subseteq C
  BY <1>1 DEF Reaches
<1> QED BY <1>1, <1>2, <1>3

(* The walk to a step that a backward pass leaves meets none that it took. *)
LEMMA ConsumeReaches ==
    ASSUME ParentsBefore, Len(parents) \in Nat, NEW s \in Server, Reaches(parents, s),
           s.steps \subseteq Created, NEW root \in Created
    PROVE  Reaches(parents, Consume(s, Visited(s, root)))
<1> DEFINE met == Follow({root}, s.steps)
           visited == Visited(s, root)
           r == Consume(s, visited)
<1>1. met \subseteq Created /\ ClosedUnder(met, s.steps)
  BY FollowFacts
<1>2. visited = met \cap s.steps
  BY DEF Visited
<1>3. r.steps = s.steps \ visited /\ s.leaves \ visited \subseteq r.leaves
  BY DEF Consume, Server
<1> HIDE DEF met, visited, r
<1>4. met \subseteq Nat
  <2>1. 1..Len(parents) \subseteq Nat
    OBVIOUS
  <2> QED BY <1>1, <2>1 DEF Created
<1> SUFFICES ASSUME NEW C \in SUBSET Nat, r.leaves \subseteq C,
                    \A m \in C \cap r.steps : parents[m] \subseteq C
             PROVE  r.steps \subseteq C
  BY DEF Reaches, r, visited
<1> DEFINE D == C \cup met
<1>5. s.leaves \subseteq D
  BY <1>2, <1>3
<1>6. \A m \in D \cap s.steps : parents[m] \subseteq D
  BY <1>1, <1>2, <1>3 DEF ClosedUnder
<1>7. s.steps \subseteq D
  <2>1. D \in SUBSET Nat
    BY <1>4
  <2> HIDE DEF D
  <2> QED BY <1>5, <1>6, <2>1 DEF Reaches
<1> QED BY <1>2, <1>3, <1>7

(* A root that is deleted is where a walk ends: its parents are not known. *)
LEMMA ForgetReaches ==
    ASSUME NEW s \in Server, Reaches(parents, s), s.steps \subseteq s.nodes,
           \A n \in s.steps : parents[n] \subseteq Nat,
           NEW roots, \A n \in roots : parents[n] \cap s.nodes = {}
    PROVE  Reaches(parents, Forget(s, roots))
<1> DEFINE r == Forget(s, roots)
<1>1. r.steps = s.steps \ roots /\ r.leaves = s.leaves
  BY DEF Forget, Server
<1> HIDE DEF r
<1> SUFFICES ASSUME NEW C \in SUBSET Nat, r.leaves \subseteq C,
                    \A m \in C \cap r.steps : parents[m] \subseteq C
             PROVE  r.steps \subseteq C
  BY DEF Reaches, r
<1> DEFINE D == C \cup (Nat \ s.nodes)
<1>2. s.leaves \subseteq D
  BY <1>1
<1>3. \A m \in D \cap s.steps : parents[m] \subseteq D
  BY <1>1
<1>4. s.steps \subseteq D
  <2>1. D \in SUBSET Nat
    OBVIOUS
  <2> HIDE DEF D
  <2> QED BY <1>2, <1>3, <2>1 DEF Reaches
<1> QED BY <1>1, <1>4

-----------------------------------------------------------------------------
(* free_unavailable_nodes.                                                 *)

(* A server as it is when free_unavailable_nodes is called. *)
Sound(s) ==
    /\ s \in Server /\ Reaches(parents, s)
    /\ s.steps \subseteq s.nodes /\ s.nodes \subseteq Created /\ s.leaves \subseteq Created

(* What the walks of free_unavailable_nodes meet: from the leaves to the    *)
(* first useful nodes, and from the tensors to their ancestors.            *)
LEMMA FreeWalks ==
    ASSUME ParentsBefore, Len(parents) \in Nat, NEW s, Sound(s)
    PROVE  LET met == Follow(s.leaves, s.nodes \ Useful(s))
           IN  /\ s.leaves \subseteq met /\ met \subseteq Created
               /\ \A n \in met : n \in s.nodes /\ n \notin Useful(s) => parents[n] \subseteq met
               /\ Useful(s) \subseteq s.nodes
               /\ \A n \in Useful(s) : parents[n] \cap s.nodes \subseteq Useful(s)
<1> DEFINE met == Follow(s.leaves, s.nodes \ Useful(s))
           tensors == {n \in Follow(s.leaves, s.nodes) : ~Unavailable(s, n) /\ Referenced(n)}
           all == Follow(tensors, s.nodes)
<1>1. s.leaves \subseteq met /\ met \subseteq Created /\ ClosedUnder(met, s.nodes \ Useful(s))
  BY FollowFacts DEF Sound
<1>2. tensors \subseteq Created
  BY FollowFacts DEF Sound
<1>3. Useful(s) = s.nodes \cap all
  BY DEF Useful
<1> HIDE DEF tensors, met
<1>4. ClosedUnder(all, s.nodes)
  BY <1>2, FollowFacts
<1> HIDE DEF all
<1>5. \A n \in met : n \in s.nodes /\ n \notin Useful(s) => parents[n] \subseteq met
  BY <1>1 DEF ClosedUnder
<1>6. \A n \in Useful(s) : parents[n] \cap s.nodes \subseteq Useful(s)
  BY <1>3, <1>4 DEF ClosedUnder
<1>7. Useful(s) \subseteq s.nodes
  BY <1>3
<1> QED BY <1>1, <1>5, <1>6, <1>7 DEF met

(* Of the stored steps only those of useful nodes are kept. *)
LEMMA OnlyUsefulKept ==
    ASSUME ParentsBefore, Len(parents) \in Nat, NEW s, Sound(s)
    PROVE  FreeUnavailable(s).steps \subseteq Useful(s)
<1> DEFINE met == Follow(s.leaves, s.nodes \ Useful(s))
           D == Useful(s) \cup met \cup (Nat \ s.nodes)
<1>1. /\ s.leaves \subseteq met /\ met \subseteq Created
      /\ \A n \in met : n \in s.nodes /\ n \notin Useful(s) => parents[n] \subseteq met
      /\ Useful(s) \subseteq s.nodes
      /\ \A n \in Useful(s) : parents[n] \cap s.nodes \subseteq Useful(s)
  BY FreeWalks
<1>2. FreeUnavailable(s).steps = s.steps \ Unneeded(s) /\ met \ Useful(s) \subseteq Unneeded(s)
  BY FreeUnavailableFacts DEF Sound, Unneeded, Useless
<1>3. \A n \in s.nodes : n \in Nat /\ parents[n] \subseteq Nat
  <2>1. \A n \in Created : n \in Nat /\ \A p \in parents[n] : p \in Nat
    BY DEF ParentsBefore, Created
  <2> QED BY <2>1 DEF Sound
<1> HIDE DEF met
<1>4. s.leaves \subseteq D /\ \A n \in D \cap s.steps : parents[n] \subseteq D
  <2>1. ASSUME NEW n \in D \cap s.steps PROVE parents[n] \subseteq D
    <3>1. n \in s.nodes
      BY DEF Sound
    <3>2. CASE n \in Useful(s)
      BY <1>1, <1>3, <3>1, <3>2
    <3>3. CASE n \notin Useful(s)
      BY <1>1, <3>1, <3>3
    <3> QED BY <3>2, <3>3
  <2> QED BY <1>1, <2>1
<1>5. D \in SUBSET Nat
  <2>1. met \subseteq Nat
    <3>1. 1..Len(parents) \subseteq Nat
      OBVIOUS
    <3> QED BY <1>1, <3>1 DEF Created
  <2>2. Useful(s) \subseteq Nat
    BY <1>1, <1>3
  <2> QED BY <2>1, <2>2
<1>6. s.steps \subseteq D
  <2> HIDE DEF D
  <2> QED BY <1>4, <1>5 DEF Sound, Reaches
<1> QED BY <1>2, <1>6 DEF Sound

(* Useful nodes are those with a tensor, and their ancestors, also among    *)
(* the nodes that are left.                                                *)
LEMMA UsefulStay ==
    ASSUME ParentsBefore, Len(parents) \in Nat, NEW s, Sound(s)
    PROVE  LET r == FreeUnavailable(s)
           IN  /\ Useful(s) \subseteq r.nodes
               /\ Useful(s) \subseteq Follow({n \in r.nodes : Referenced(n)}, r.nodes)
<1> DEFINE r == FreeUnavailable(s)
           tensors == {n \in Follow(s.leaves, s.nodes) : ~Unavailable(s, n) /\ Referenced(n)}
           all == Follow(tensors, s.nodes)
           left == {n \in r.nodes : Referenced(n)}
           kept == Follow(left, r.nodes)
           C == (all \cap kept) \cup (Created \ s.nodes)
<1>1. r.nodes = s.nodes \ Unneeded(s)
  BY FreeUnavailableFacts DEF Sound
<1>2. Useful(s) \cap Unneeded(s) = {}
  BY DEF Unneeded, Useless, UnusedRoots
<1>3. Useful(s) = s.nodes \cap all
  BY DEF Useful
<1>4. tensors \subseteq Created /\ \A n \in tensors : Referenced(n) /\ n \in s.nodes
  <2>1. tensors \subseteq Created
    BY FollowFacts DEF Sound
  <2>2. ASSUME NEW n \in tensors PROVE n \in s.nodes
    <3>1. {n} \subseteq Follow({n}, s.nodes)
      BY <2>1, FollowFacts
    <3>2. Follow({n}, s.nodes) \subseteq s.nodes
      BY DEF Unavailable
    <3> QED BY <3>1, <3>2
  <2> QED BY <2>1, <2>2
<1> HIDE DEF r
<1>5. left \subseteq Created
  BY <1>1 DEF Sound
<1> HIDE DEF tensors, left
<1>6. tensors \subseteq all /\ ClosedUnder(all, s.nodes)
  BY <1>4, FollowFacts
<1>7. left \subseteq kept /\ ClosedUnder(kept, r.nodes)
  BY <1>5, FollowFacts
<1> HIDE DEF kept
<1>8. Useful(s) \subseteq r.nodes
  BY <1>1, <1>2, <1>3
<1>9. tensors \subseteq C
  <2>1. \A n \in tensors : n \in Useful(s)
    BY <1>3, <1>4, <1>6
  <2>2. \A n \in tensors : n \in left
    BY <1>4, <1>8, <2>1 DEF left
  <2> QED BY <1>6, <1>7, <2>2
<1>10. ClosedUnder(C, s.nodes)
  <2> HIDE DEF all
  <2> SUFFICES ASSUME NEW n \in all \cap kept, n \in s.nodes PROVE parents[n] \subseteq C
    BY DEF ClosedUnder
  <2>1. parents[n] \subseteq all
    BY <1>6 DEF ClosedUnder
  <2>2. n \in r.nodes
    BY <1>3, <1>8
  <2>3. parents[n] \subseteq kept
    BY <1>7, <2>2 DEF ClosedUnder
  <2> QED BY <2>1, <2>3
<1> HIDE DEF C
<1>11. all \subseteq C
  BY <1>4, <1>9, <1>10, FollowLeast
<1> HIDE DEF all
<1>12. Useful(s) \subseteq kept
  BY <1>3, <1>11 DEF C
<1> QED BY <1>8, <1>12 DEF r, kept, left

(* The new leaves reach all that is kept. *)
LEMMA FreeReaches ==
    ASSUME ParentsBefore, Len(parents) \in Nat, NEW s, Sound(s)
    PROVE  Reaches(parents, FreeUnavailable(s))
<1> DEFINE r == FreeUnavailable(s)
           met == Follow(s.leaves, s.nodes \ Useful(s))
<1>1. /\ s.leaves \subseteq met /\ met \subseteq Created
      /\ \A n \in met : n \in s.nodes /\ n \notin Useful(s) => parents[n] \subseteq met
      /\ Useful(s) \subseteq s.nodes
  BY FreeWalks
<1>2. /\ r.steps = s.steps \ Unneeded(s)
      /\ met \ Useful(s) \subseteq Unneeded(s)
      /\ \A n \in Unneeded(s) : n \in met \ Useful(s) \/ parents[n] \cap s.nodes = {}
  BY FreeUnavailableFacts DEF Sound, Unneeded, Useless, UnusedRoots
<1>3. r.leaves = met \cap Useful(s)
  BY DEF FreeUnavailable, Forget, Sound, Server
<1>4. \A n \in s.nodes : n \in Nat /\ parents[n] \subseteq Nat
  <2>1. \A n \in Created : n \in Nat /\ \A p \in parents[n] : p \in Nat
    BY DEF ParentsBefore, Created
  <2> QED BY <2>1 DEF Sound
<1>5. met \subseteq Nat
  <2>1. 1..Len(parents) \subseteq Nat
    OBVIOUS
  <2> HIDE DEF met
  <2> QED BY <1>1, <2>1 DEF Created
<1> HIDE DEF r, met
<1> SUFFICES ASSUME NEW C \in SUBSET Nat, r.leaves \subseteq C,
                    \A m \in C \cap r.steps : parents[m] \subseteq C
             PROVE  r.steps \subseteq C
  BY DEF Reaches, r
<1> DEFINE D == C \cup met \cup (Nat \ s.nodes)
<1>6. ASSUME NEW n \in D \cap s.steps PROVE parents[n] \subseteq D
  <2>1. n \in s.nodes
    BY DEF Sound
  <2>2. CASE n \in met /\ n \notin Useful(s)
    BY <1>1, <2>1, <2>2
  <2>3. CASE n \notin met \/ n \in Useful(s)
    <3>1. n \in C
      BY <1>3, <2>1, <2>3
    <3>2. CASE n \in Unneeded(s)
      <4>1. parents[n] \cap s.nodes = {}
        BY <1>2, <2>3, <3>2
      <4> QED BY <1>4, <2>1, <4>1
    <3>3. CASE n \notin Unneeded(s)
      BY <1>2, <3>1, <3>3
    <3> QED BY <3>2, <3>3
  <2> QED BY <2>2, <2>3
<1>7. s.leaves \subseteq D /\ D \in SUBSET Nat
  BY <1>1, <1>5
<1>8. s.steps \subseteq D
  <2> HIDE DEF D
  <2> QED BY <1>6, <1>7 DEF Sound, Reaches
<1>9. ASSUME NEW n \in r.steps PROVE n \in C
  <2>1. n \in s.steps /\ n \in s.nodes /\ n \notin Unneeded(s)
    BY <1>2 DEF Sound
  <2>2. n \in C \cup met
    BY <1>8, <2>1
  <2> QED BY <1>2, <1>3, <2>1, <2>2
<1> QED BY <1>9

(* What a backward pass from a node with a tensor needs is kept, if its     *)
(* step is stored and all its ancestors are known.                         *)
LEMMA NeededUseful ==
    ASSUME ParentsBefore, Len(parents) \in Nat, NEW s, Sound(s),
           NEW n \in s.steps, Referenced(n), ~Unavailable(s, n)
    PROVE  Follow({n}, s.nodes) \subseteq Useful(s)
<1> DEFINE met == Follow(s.leaves, s.nodes)
           tensors == {m \in met : ~Unavailable(s, m) /\ Referenced(m)}
           all == Follow(tensors, s.nodes)
<1>1. s.leaves \subseteq met /\ met \subseteq Created /\ ClosedUnder(met, s.nodes)
  BY FollowFacts DEF Sound
<1>2. Useful(s) = s.nodes \cap all
  BY DEF Useful
<1> HIDE DEF met
<1>3. met \in SUBSET Nat
  <2>1. 1..Len(parents) \subseteq Nat
    OBVIOUS
  <2> QED BY <1>1, <2>1 DEF Created
<1>4. s.steps \subseteq met
  BY <1>1, <1>3 DEF Sound, Reaches, ClosedUnder
<1>5. n \in tensors /\ tensors \subseteq Created
  BY <1>1, <1>4
<1> HIDE DEF tensors
<1>6. tensors \subseteq all /\ ClosedUnder(all, s.nodes)
  BY <1>5, FollowFacts
<1> HIDE DEF all
<1>7. Follow({n}, s.nodes) \subseteq all
  BY <1>1, <1>4, <1>5, <1>6, FollowLeast
<1>8. Follow({n}, s.nodes) \subseteq s.nodes
  BY DEF Unavailable
<1> QED BY <1>2, <1>7, <1>8

-----------------------------------------------------------------------------
(* ReachedSteps is preserved.                                              *)

Reached == Accounted /\ ParentsBefore /\ ReachedSteps

LEMMA ReachedOne ==
    ASSUME Reached, parents' = parents, NEW g \in 1..Len(servers), NEW s \in Server,
           servers' = [servers EXCEPT ![g] = s], Reaches(parents, s)
    PROVE  ReachedSteps'
<1>1. servers \in Seq(Server)
  BY DEF Reached, Accounted, IInv, Types
<1>2. /\ Len(servers') = Len(servers)
      /\ \A h \in 1..Len(servers) : servers'[h] = IF h = g THEN s ELSE servers[h]
  BY <1>1, ServersUpdate
<1>3. \A h \in 1..Len(servers') : Reaches(parents', servers'[h])
  BY <1>2 DEF Reached, ReachedSteps, Graphs
<1> QED BY <1>3 DEF ReachedSteps, Graphs

LEMMA ReachedGrows ==
    ASSUME Reached, \A n \in Created : parents'[n] = parents[n],
           NEW k \in Nat, servers' \in {servers, Append(servers, NewServer(k))}
    PROVE  ReachedSteps'
<1>1. servers \in Seq(Server) /\ NewServer(k) \in Server /\ NewServer(k).steps = {}
  BY NewServerFacts DEF Reached, Accounted, IInv, Types
<1>2. \A h \in 1..Len(servers') :
         \/ h \in 1..Len(servers) /\ servers'[h] = servers[h]
         \/ servers'[h].steps = {}
  BY <1>1, ServersAppend
<1>3. \A h \in 1..Len(servers) : Reaches(parents, servers[h]) /\ servers[h].steps \subseteq Created
  BY DEF Reached, Accounted, IInv, StepsAreCreated, ReachedSteps, Graphs
<1>4. \A h \in 1..Len(servers) : Reaches(parents', servers[h])
  BY <1>3, ReachesSame
<1>5. \A h \in 1..Len(servers') : Reaches(parents', servers'[h])
  BY <1>2, <1>4, ReachesNothing
<1> QED BY <1>5 DEF ReachedSteps, Graphs

LEMMA CreateParents ==
    ASSUME Reached, NEW t \in Threads, NEW ps \in SUBSET held[t], Create(t, ps)
    PROVE  /\ \A n \in Created : parents'[n] = parents[n]
           /\ ParentsBefore'
           /\ Len(parents) + 1 \in Nat
<1>1. parents \in Seq(SUBSET Nat)
  BY DEF Reached, Accounted, IInv, Types
<1>2. /\ ps \subseteq Created /\ Len(parents) \in Nat /\ Created = 1..Len(parents)
  BY KnownNodes DEF Reached
<1>3. parents' = Append(parents, ps)
  BY DEF Create
<1>4. ps \in SUBSET Nat
  BY <1>2
<1>5. /\ Len(parents') = Len(parents) + 1
      /\ \A n \in 1..Len(parents) : parents'[n] = parents[n]
      /\ parents'[Len(parents) + 1] = ps
  BY <1>1, <1>3, <1>4
<1>6. \A n \in 1..Len(parents') : n \in Created \/ n = Len(parents) + 1
  BY <1>2, <1>5
<1>7. ASSUME NEW n \in 1..Len(parents') PROVE parents'[n] \subseteq 1..(n - 1)
  <2>1. CASE n \in Created
    BY <1>2, <1>5, <2>1 DEF Reached, ParentsBefore
  <2>2. CASE n = Len(parents) + 1
    <3>1. n - 1 = Len(parents)
      BY <1>2, <2>2
    <3> QED BY <1>2, <1>5, <2>2, <3>1
  <2> QED BY <1>6, <2>1, <2>2
<1> QED BY <1>2, <1>5, <1>7 DEF ParentsBefore, Created

LEMMA ReachesHolder ==
    ASSUME NEW s \in Server, NEW h \in Threads \cup {NoThread}, Reaches(parents, s)
    PROVE  Reaches(parents, [s EXCEPT !.holder = h])
<1>1. [s EXCEPT !.holder = h].leaves = s.leaves /\ [s EXCEPT !.holder = h].steps = s.steps
  BY DEF Server
<1> HIDE DEF Reaches
<1> QED BY <1>1, ReachesSame

(* What Reached says of the servers. *)
LEMMA KnownSound ==
    ASSUME Reached
    PROVE  /\ Len(parents) \in Nat /\ ParentsBefore
           /\ \A g \in 1..Len(servers) :
                Sound(servers[g]) /\ servers[g].steps \subseteq Created
<1>1. \A g \in 1..Len(servers) :
         /\ servers[g] \in Server /\ servers[g].steps \subseteq servers[g].nodes
         /\ servers[g].steps \subseteq Created
         /\ KnowsOnly(servers[g], Created) /\ Reaches(parents, servers[g])
  BY DEF Reached, Accounted, IInv, Types, StepsHaveNodes, StepsAreCreated, NodesAreCreated,
         ReachedSteps, Graphs
<1>2. Len(parents) \in Nat
  BY DEF Reached, Accounted, IInv, Types
<1> QED BY <1>1, <1>2 DEF Reached, Sound, KnowsOnly

LEMMA LockMainReached ==
    ASSUME Reached, NEW t \in Threads, LockMain(t) \/ EndMerge(t)
    PROVE  ReachedSteps'
<1> DEFINE g == call[t].graph
<1>1. PICK h \in Threads \cup {NoThread} :
        servers' = [servers EXCEPT ![g] = [servers[g] EXCEPT !.holder = h]]
  BY DEF LockMain, EndMerge
<1>2. g \in 1..Len(servers) /\ servers[g] \in Server /\ parents' = parents
  BY Known DEF Reached, Accounted, LockMain, EndMerge
<1> DEFINE s == [servers[g] EXCEPT !.holder = h]
<1>3. s \in Server
  BY <1>2 DEF Server
<1>4. Reaches(parents, s)
  BY <1>2, KnownSound, ReachesHolder DEF Sound
<1> HIDE DEF s, g
<1> QED BY <1>1, <1>2, <1>3, <1>4, ReachedOne DEF s

LEMMA RegisterReached ==
    ASSUME Reached, NEW t \in Threads, Register(t)
    PROVE  ReachedSteps'
<1> DEFINE g == call[t].graph
           s == RegisterNode(servers[g], call[t].node)
<1>1. servers' = [servers EXCEPT ![g] = s] /\ parents' = parents /\ call[t].pc = "register"
  BY DEF Register
<1>2. g \in 1..Len(servers) /\ servers[g] \in Server /\ call[t].node \in Nat
  BY <1>1, Known DEF Reached, Accounted, Call
<1>3. s \in Server
  BY <1>2, RegisterNodeFacts
<1>4. Reaches(parents, s)
  BY <1>2, KnownSound, RegisterReaches DEF Sound
<1> HIDE DEF s, g
<1> QED BY <1>1, <1>2, <1>3, <1>4, ReachedOne

LEMMA SweepReached ==
    ASSUME Reached, NEW t \in Threads, Sweep(t)
    PROVE  ReachedSteps'
<1> DEFINE g == call[t].graph
           k == Consume(servers[g], Visited(servers[g], call[t].node))
           s == [k EXCEPT !.holder = t]
<1>1. servers' = [servers EXCEPT ![g] = s] /\ parents' = parents /\ call[t].pc = "sweep"
  BY DEF Sweep
<1>2. g \in 1..Len(servers) /\ servers[g] \in Server
  BY <1>1, Known DEF Reached, Accounted
<1>3. call[t].node \in Created
  BY <1>1, KnownNodes DEF Reached
<1>4. k \in Server
  BY <1>2, ConsumeFacts
<1>5. Reaches(parents, k)
  BY <1>2, <1>3, KnownSound, ConsumeReaches DEF Sound
<1> HIDE DEF k, g
<1>6. s \in Server
  BY <1>4 DEF Server
<1>7. Reaches(parents, s)
  BY <1>4, <1>5, ReachesHolder
<1> HIDE DEF s
<1> QED BY <1>1, <1>2, <1>6, <1>7, ReachedOne

LEMMA FreeReached ==
    ASSUME Reached, NEW t \in Threads, Free(t)
    PROVE  ReachedSteps'
<1> DEFINE g == call[t].graph
           k == FreeUnavailable(servers[g])
           s == [k EXCEPT !.holder = NoThread]
<1>1. servers' = [servers EXCEPT ![g] = s] /\ parents' = parents /\ call[t].pc = "free"
  BY DEF Free
<1>2. g \in 1..Len(servers) /\ servers[g] \in Server
  BY <1>1, Known DEF Reached, Accounted
<1>3. k \in Server
  BY <1>2, FreeUnavailableFacts
<1>4. Reaches(parents, k)
  BY <1>2, KnownSound, FreeReaches
<1> HIDE DEF k, g
<1>5. s \in Server
  BY <1>3 DEF Server
<1>6. Reaches(parents, s)
  BY <1>3, <1>4, ReachesHolder
<1> HIDE DEF s
<1> QED BY <1>1, <1>2, <1>5, <1>6, ReachedOne

LEMMA CleanupReached ==
    ASSUME Reached, NEW t \in Threads, NEW n \in DOMAIN call[t].snapshot, Cleanup(t, n)
    PROVE  ReachedSteps'
<1> DEFINE g == call[t].snapshot[n]
           roots == IF MaybeUseful(servers[g]) THEN {} ELSE UnusedRoots(servers[g], {})
           s == Forget(servers[g], roots)
<1>1. servers' = [servers EXCEPT ![g] = s] /\ parents' = parents
  BY DEF Cleanup
<1>2. g \in 1..Len(servers) /\ servers[g] \in Server
  BY Known DEF Reached, Accounted
<1>3. s \in Server
  BY <1>2, ForgetFacts
<1>4. \A m \in roots : parents[m] \cap servers[g].nodes = {}
  BY DEF UnusedRoots
<1>5. Sound(servers[g]) /\ servers[g].steps \subseteq Created /\ Len(parents) \in Nat
      /\ ParentsBefore
  BY <1>2, KnownSound
<1>6. \A m \in servers[g].steps : parents[m] \subseteq Nat
  <2>1. \A m \in Created : \A p \in parents[m] : p \in Nat
    BY <1>5 DEF ParentsBefore, Created
  <2> QED BY <1>5, <2>1
<1> HIDE DEF roots
<1>7. Reaches(parents, s)
  BY <1>4, <1>5, <1>6, ForgetReaches DEF Sound
<1> HIDE DEF s, g
<1> QED BY <1>1, <1>2, <1>3, <1>7, ReachedOne

LEMMA MergeTwoReached ==
    ASSUME Reached, NEW t \in Threads, NEW g \in call[t].others, MergeTwo(t, g)
    PROVE  ReachedSteps'
<1> DEFINE main == call[t].graph
           s == Extend(servers[main], servers[g])
           e == Emptied(servers[g])
           first == [servers EXCEPT ![main] = s]
<1>1. servers' = [first EXCEPT ![g] = e] /\ parents' = parents /\ call[t].pc = "merge"
  BY DEF MergeTwo
<1>2. /\ main \in 1..Len(servers) /\ g \in 1..Len(servers) /\ servers \in Seq(Server)
      /\ servers[main] \in Server /\ servers[g] \in Server
  BY <1>1, Known DEF Reached, Accounted, IInv, Types
<1>3. s \in Server /\ Reaches(parents, s)
  BY <1>2, KnownSound, ExtendFacts, ExtendReaches DEF Sound
<1>4. e \in Server /\ Reaches(parents, e)
  BY <1>2, EmptiedFacts, ReachesNothing
<1> HIDE DEF s, e, main
<1>5. /\ first \in Seq(Server) /\ Len(first) = Len(servers)
      /\ \A h \in 1..Len(servers) : first[h] = IF h = main THEN s ELSE servers[h]
  BY <1>2, <1>3, ServersUpdate
<1> HIDE DEF first
<1>6. /\ Len(servers') = Len(first)
      /\ \A h \in 1..Len(first) : servers'[h] = IF h = g THEN e ELSE first[h]
  BY <1>1, <1>2, <1>4, <1>5, ServersUpdate
<1>7. \A h \in 1..Len(servers) : Reaches(parents, servers[h])
  BY KnownSound DEF Sound
<1>8. \A h \in 1..Len(servers') : Reaches(parents', servers'[h])
  BY <1>1, <1>3, <1>4, <1>5, <1>6, <1>7
<1> QED BY <1>8 DEF ReachedSteps, Graphs

LEMMA LocateReached ==
    ASSUME Reached, NEW t \in Threads, NEW ps \in SUBSET held[t],
           \/ LocateNew(t, ps)
           \/ \E g \in GraphsOf(ps) : LocateOne(t, ps, g) \/ LocateSeveral(t, ps, g)
    PROVE  ParentsBefore' /\ ReachedSteps'
<1>1. Create(t, ps) /\ servers' \in {servers, Append(servers, NewServer(Len(parents) + 1))}
  BY DEF LocateNew, LocateOne, LocateSeveral
<1> QED BY <1>1, CreateParents, ReachedGrows

LEMMA LocateRootReached ==
    ASSUME Reached, NEW t \in Threads, NEW r \in held[t], LocateRoot(t, r)
    PROVE  ReachedSteps'
<1>1. servers' \in {servers, Append(servers, NewServer(r))} /\ parents' = parents
  BY DEF LocateRoot
<1>2. r \in Nat
  BY Known DEF Reached, Accounted
<1> QED BY <1>1, <1>2, ReachedGrows

LEMMA QuietReached ==
    ASSUME Reached, parents' = parents, servers' = servers
    PROVE  ReachedSteps'
BY DEF Reached, ReachedSteps, Graphs

LEMMA InitReached == Init => Reached
<1> SUFFICES ASSUME Init PROVE Reached
  OBVIOUS
<1>1. servers = <<>> /\ parents = [n \in 1..NumParams |-> {}]
  BY DEF Init
<1>2. Graphs = {} /\ Created = 1..NumParams
  BY <1>1 DEF Graphs, Created
<1> QED BY <1>1, <1>2, InitAccounted DEF Reached, ParentsBefore, ReachedSteps

LEMMA NextReached == Reached /\ [Next]_vars => Reached'
<1> SUFFICES ASSUME Reached, [Next]_vars PROVE Reached'
  OBVIOUS
<1>1. Accounted'
  BY NextAccounted DEF Reached
<1>2. CASE UNCHANGED vars
  BY <1>1, <1>2, QuietReached DEF vars, Reached, ParentsBefore, Created
<1>3. CASE \E t \in Threads : \E ps \in Operands(t) :
              \/ LocateNew(t, ps)
              \/ \E g \in GraphsOf(ps) : LocateOne(t, ps, g) \/ LocateSeveral(t, ps, g)
  <2>1. \A t \in Threads : Operands(t) \subseteq SUBSET held[t]
    BY DEF Operands
  <2> QED BY <1>1, <1>3, <2>1, LocateReached DEF Reached
<1>4. CASE Next /\ ~ \E t \in Threads : \E ps \in Operands(t) :
              \/ LocateNew(t, ps)
              \/ \E g \in GraphsOf(ps) : LocateOne(t, ps, g) \/ LocateSeveral(t, ps, g)
  <2> PICK t \in Threads :
        \/ LockMain(t) \/ EndMerge(t) \/ Register(t) \/ Sweep(t) \/ Free(t)
        \/ \E g \in call[t].others : MergeTwo(t, g)
        \/ \E r \in held[t] : LocateRoot(t, r)
        \/ \E n \in DOMAIN call[t].snapshot : Cleanup(t, n)
        \/ Panic(t) \/ Snapshot(t) \/ EndBackward(t)
        \/ \E n \in held[t] : Drop(t, n)
        \/ \E u \in Threads, n \in held[t] : Share(t, u, n)
    BY <1>4 DEF Next
  <2>1. parents' = parents
    BY DEF LockMain, EndMerge, Register, Sweep, Free, MergeTwo, LocateRoot, Cleanup, Panic,
           Snapshot, EndBackward, Drop, Share
  <2>2. ASSUME Panic(t) \/ Snapshot(t) \/ EndBackward(t)
               \/ (\E n \in held[t] : Drop(t, n))
               \/ \E u \in Threads, n \in held[t] : Share(t, u, n)
        PROVE  ReachedSteps'
    <3>1. servers' = servers
      BY <2>2 DEF Panic, Snapshot, EndBackward, Drop, Share
    <3> QED BY <2>1, <3>1, QuietReached
  <2>3. ReachedSteps'
    BY <2>2, LockMainReached, RegisterReached, SweepReached, FreeReached, MergeTwoReached,
       LocateRootReached, CleanupReached
  <2>4. ParentsBefore'
    BY <2>1 DEF Reached, ParentsBefore, Created
  <2> QED BY <1>1, <2>3, <2>4 DEF Reached
<1> QED BY <1>2, <1>3, <1>4

LEMMA ReachedHolds == Spec => []Reached
BY InitReached, NextReached, PTL DEF Spec

-----------------------------------------------------------------------------
(* What free_unavailable_nodes does in a step of a thread.                 *)

LEMMA FreeKeepsUseful ==
    ASSUME Reached, NEW t \in Threads, Free(t)
    PROVE  LET s == servers[call[t].graph]
               r == servers'[call[t].graph]
           IN  /\ Sound(s) /\ ParentsBefore /\ Len(parents) \in Nat
               /\ r.steps = FreeUnavailable(s).steps /\ r.nodes = FreeUnavailable(s).nodes
               /\ r.steps = s.steps \ Unneeded(s)
               /\ call'[t].graph = call[t].graph /\ held' = held /\ parents' = parents
<1> DEFINE g == call[t].graph
           f == FreeUnavailable(servers[g])
<1>1. /\ call[t].pc = "free" /\ held' = held /\ parents' = parents
      /\ servers' = [servers EXCEPT ![g] = [f EXCEPT !.holder = NoThread]]
      /\ call' = [call EXCEPT ![t].pc = "snapshot"]
  BY DEF Free
<1>2. /\ g \in 1..Len(servers) /\ servers[g] \in Server
      /\ servers \in Seq(Server) /\ call \in [Threads -> Call]
  BY <1>1, Known DEF Reached, Accounted, IInv, Types
<1>3. f \in Server /\ f.steps = servers[g].steps \ Unneeded(servers[g])
  BY <1>2, FreeUnavailableFacts
<1>4. Sound(servers[g]) /\ ParentsBefore /\ Len(parents) \in Nat
  BY <1>2, KnownSound
<1>5. call'[t].graph = call[t].graph
  BY <1>1, <1>2 DEF Call
<1> HIDE DEF f, g
<1>6. servers'[g] = [f EXCEPT !.holder = NoThread]
  BY <1>1, <1>2
<1>7. servers'[g].steps = f.steps /\ servers'[g].nodes = f.nodes
  BY <1>3, <1>6 DEF Server
<1> QED BY <1>1, <1>3, <1>4, <1>5, <1>7 DEF f, g

(* What NothingUseless says of one thread. *)
UselessFreed(t) ==
    LET server == servers[call[t].graph]
    IN  server.steps \subseteq Follow({n \in server.nodes : Referenced(n)}, server.nodes)

(* Follow looks at the parents alone. *)
FollowIn(par, start, through) ==
    LET above[n \in 1..Len(par)] ==
            {n} \cup (IF n \in through
                      THEN UNION {above[p] : p \in par[n]} ELSE {})
    IN  UNION {above[n] : n \in start}

LEMMA SameFollow ==
    ASSUME parents' = parents, held' = held, NEW t \in Threads,
           LET r == servers'[call'[t].graph]
           IN  r.steps \subseteq Follow({n \in r.nodes : Referenced(n)}, r.nodes)
    PROVE  UselessFreed(t)'
<1> DEFINE r == servers'[call'[t].graph]
           start == {n \in r.nodes : Referenced(n)}
<1>1. UselessFreed(t)' <=>
         r.steps \subseteq
            FollowIn(parents', {n \in r.nodes : \E u \in Threads : n \in held'[u]}, r.nodes)
  BY DEF UselessFreed, Follow, FollowIn, Referenced, Created
<1>2. Follow(start, r.nodes) = FollowIn(parents, start, r.nodes)
  BY DEF Follow, FollowIn, Created
<1>3. start = {n \in r.nodes : \E u \in Threads : n \in held'[u]}
  BY DEF Referenced
<1>4. r.steps \subseteq Follow(start, r.nodes)
  OBVIOUS
<1> HIDE DEF r, start
<1> QED BY <1>1, <1>2, <1>3, <1>4

LEMMA FreeLeavesNothing ==
    ASSUME Reached, NEW t \in Threads, Free(t)
    PROVE  UselessFreed(t)'
<1> DEFINE s == servers[call[t].graph]
           r == servers'[call[t].graph]
           f == FreeUnavailable(s)
<1>1. /\ Sound(s) /\ ParentsBefore /\ Len(parents) \in Nat
      /\ r.steps = f.steps /\ r.nodes = f.nodes
      /\ call'[t].graph = call[t].graph /\ held' = held /\ parents' = parents
  BY FreeKeepsUseful
<1> HIDE DEF r, s
<1>2. f.steps \subseteq Useful(s)
  BY <1>1, OnlyUsefulKept
<1>3. Useful(s) \subseteq Follow({n \in f.nodes : Referenced(n)}, f.nodes)
  BY <1>1, UsefulStay
<1> HIDE DEF f
<1>4. r.steps \subseteq Follow({n \in r.nodes : Referenced(n)}, r.nodes)
  BY <1>1, <1>2, <1>3
<1> QED BY <1>1, <1>4, SameFollow DEF r

(* Whatever the threads do meanwhile: free_unavailable_nodes                *)
(* (memory_management.rs) leaves in the graph it works on no step but      *)
(* those of nodes with a tensor and of their ancestors.                    *)
THEOREM FreeingLeavesNothingUseless ==
    Spec => [][\A t \in Threads : Free(t) => UselessFreed(t)']_vars
<1>1. Reached /\ [Next]_vars => [\A t \in Threads : Free(t) => UselessFreed(t)']_vars
  BY FreeLeavesNothing
<1> QED BY <1>1, ReachedHolds, PTL DEF Spec

(* ... and it frees no step that a backward pass from a node with a tensor  *)
(* needs, if the step of the node is stored and its ancestors are known.   *)
NeededKept(t) ==
    \A n \in servers[call[t].graph].steps :
        Referenced(n) /\ ~Unavailable(servers[call[t].graph], n) =>
            Visited(servers[call[t].graph], n) \subseteq servers'[call[t].graph].steps

(* The nodes a backward pass visits are among those Follow meets. *)
LEMMA VisitedAmong ==
    ASSUME ParentsBefore, Len(parents) \in Nat, NEW s, Sound(s), NEW n \in s.steps
    PROVE  Visited(s, n) \subseteq Follow({n}, s.nodes)
<1>1. n \in Created
  BY DEF Sound
<1>2. {n} \subseteq Follow({n}, s.nodes) /\ ClosedUnder(Follow({n}, s.nodes), s.nodes)
  BY <1>1, FollowFacts
<1>3. ClosedUnder(Follow({n}, s.nodes), s.steps)
  BY <1>2 DEF ClosedUnder, Sound
<1>4. Follow({n}, s.steps) \subseteq Follow({n}, s.nodes)
  BY <1>1, <1>2, <1>3, FollowLeast
<1> QED BY <1>4 DEF Visited

(* free_unavailable_nodes (memory_management.rs) never frees a step that   *)
(* the backward pass from a node with a tensor would execute.              *)
THEOREM FreeingKeepsNeeded ==
    Spec => [][\A t \in Threads : Free(t) => NeededKept(t)]_vars
<1>1. ASSUME Reached, NEW t \in Threads, Free(t) PROVE NeededKept(t)
  <2> DEFINE s == servers[call[t].graph]
  <2>1. /\ Sound(s) /\ ParentsBefore /\ Len(parents) \in Nat
        /\ servers'[call[t].graph].steps = s.steps \ Unneeded(s)
    BY <1>1, FreeKeepsUseful
  <2>2. Useful(s) \cap Unneeded(s) = {}
    BY DEF Unneeded, Useless, UnusedRoots
  <2> HIDE DEF s
  <2>3. ASSUME NEW n \in s.steps, Referenced(n), ~Unavailable(s, n)
        PROVE  Visited(s, n) \subseteq s.steps \ Unneeded(s)
    <3>1. Visited(s, n) \subseteq Useful(s)
      BY <2>1, <2>3, VisitedAmong, NeededUseful
    <3>2. Visited(s, n) \subseteq s.steps
      BY DEF Visited
    <3> QED BY <2>2, <3>1, <3>2
  <2> QED BY <2>1, <2>3 DEF NeededKept, s
<1>2. Reached /\ [Next]_vars => [\A t \in Threads : Free(t) => NeededKept(t)]_vars
  BY <1>1
<1> QED BY <1>2, ReachedHolds, PTL DEF Spec

(* With one thread nothing comes between freeing the steps and taking the   *)
(* copy of the entries (graph.rs, free_unused_roots): once memory          *)
(* management ran, a graph stores no step but those of nodes with a tensor *)
(* and of their ancestors.                                                 *)
THEOREM NothingUselessKept ==
    ASSUME NEW main \in Threads, Threads = {main}
    PROVE  Spec => []NothingUseless
<1> DEFINE Kept == call[main].pc = "snapshot" => UselessFreed(main)
<1>1. Kept => NothingUseless
  BY DEF NothingUseless, UselessFreed
<1>2. Init => Kept
  BY IdleFacts DEF Init
<1>3. ASSUME Reached, Kept, [Next]_vars PROVE Kept'
  <2> SUFFICES ASSUME call'[main].pc = "snapshot" PROVE UselessFreed(main)'
    OBVIOUS
  <2>1. call \in [Threads -> Call]
    BY <1>3 DEF Reached, Accounted, IInv, Types
  <2>2. CASE UNCHANGED vars
    BY <1>3, <2>2, SameFollow DEF vars, UselessFreed
  <2>3. CASE Free(main)
    BY <1>3, <2>3, FreeLeavesNothing
  <2>4. CASE Next /\ ~Free(main)
    <3>1. ASSUME NEW pc, NEW node, NEW g, NEW others PROVE Calling(pc, node, g, others).pc = pc
      BY DEF Calling
    <3>2. Idle.pc = "idle"
      BY DEF Idle, Calling
    <3> HIDE DEF Kept
    <3>3. call[main] \in Call
      BY <2>1
    <3>4. ASSUME NEW c, call' = [call EXCEPT ![main] = c] PROVE c.pc = "snapshot"
      BY <2>1, <3>4
    <3>5. ASSUME NEW ps, LocateNew(main, ps) PROVE FALSE
      <4> DEFINE c == Calling("register", Len(parents) + 1, Len(servers) + 1, {})
      <4>1. call' = [call EXCEPT ![main] = c]
        BY <3>5 DEF LocateNew
      <4>2. c.pc = "register"
        BY DEF Calling
      <4> HIDE DEF c
      <4> QED BY <3>4, <4>1, <4>2
    <3>6. ASSUME NEW ps, NEW g, LocateOne(main, ps, g) \/ LocateSeveral(main, ps, g) PROVE FALSE
      <4> DEFINE c(pc, others) == Calling(pc, Len(parents) + 1, g, others)
      <4>1. \/ call' = [call EXCEPT ![main] = c("register", {})]
            \/ \E gs : call' = [call EXCEPT ![main] = c("lock", gs \ {g})]
        BY <3>6 DEF LocateOne, LocateSeveral
      <4>2. c("register", {}).pc = "register" /\ \A gs : c("lock", gs \ {g}).pc = "lock"
        BY <3>1
      <4> HIDE DEF c
      <4> QED BY <3>4, <4>1, <4>2
    <3>7. ~LockMain(main) /\ ~EndMerge(main) /\ ~Sweep(main)
      BY <3>3, <3>4 DEF LockMain, EndMerge, Sweep, Call
    <3>8. ~Register(main) /\ ~Panic(main) /\ ~EndBackward(main)
      BY <3>1, <3>2, <3>4 DEF Register, Panic, EndBackward
    <3>9. ASSUME NEW r, LocateRoot(main, r) PROVE FALSE
      BY <3>1, <3>4, <3>9 DEF LocateRoot
    <3>10. ASSUME NEW g, MergeTwo(main, g) PROVE FALSE
      BY <3>3, <3>4, <3>10 DEF MergeTwo, Call
    <3>11. ~Snapshot(main)
      <4>1. Snapshot(main) =>
               call' = [call EXCEPT ![main] = [call[main] EXCEPT !.pc = "cleanup", !.snapshot = graphs]]
        BY <2>1 DEF Snapshot
      <4>2. [call[main] EXCEPT !.pc = "cleanup", !.snapshot = graphs].pc = "cleanup"
        BY <3>3 DEF Call
      <4> QED BY <3>4, <4>1, <4>2
    <3>12. ASSUME NEW n, Cleanup(main, n) PROVE FALSE
      BY <3>3, <3>4, <3>12 DEF Cleanup, Call
    <3>13. ASSUME NEW n, NEW u, Drop(main, n) \/ Share(main, u, n) PROVE FALSE
      BY <3>13 DEF Drop, Share
    <3> QED
      BY <2>4, <3>5, <3>6, <3>7, <3>8, <3>9, <3>10, <3>11, <3>12, <3>13 DEF Next
  <2> QED BY <1>3, <2>2, <2>3, <2>4
<1> QED BY <1>1, <1>2, <1>3, ReachedHolds, PTL DEF Spec
=============================================================================
