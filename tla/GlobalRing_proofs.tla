-------------------------- MODULE GlobalRing_proofs --------------------------
(***************************************************************************)
(* Proofs about the transfers of GlobalAllReduce: the types of its         *)
(* variables, for every strategy, and what the slices of a ring all-reduce *)
(* hold, for any number of nodes and of all-reduces.                       *)
(***************************************************************************)
EXTENDS GlobalAllReduce_proofs, Integers, FiniteSetTheorems

-----------------------------------------------------------------------------
(* The topology.                                                           *)

LEMMA ModBelow ==
    ASSUME NEW x \in Nat, x < 3 * N
    PROVE  x % N = IF x < N THEN x ELSE IF x < 2 * N THEN x - N ELSE x - 2 * N
<1>1. CASE x < N
  BY <1>1, TopologyAssumption
<1>2. CASE N <= x /\ x < 2 * N
  BY <1>2, TopologyAssumption
<1>3. CASE 2 * N <= x
  BY <1>3, TopologyAssumption
<1> QED BY <1>1, <1>2, <1>3, TopologyAssumption

LEMMA NodesFinite == IsFiniteSet(Nodes) /\ Nodes \subseteq Nat /\ 0 \in Nodes
<1>1. IsFiniteSet(0 .. N - 1)
  BY FS_Interval, TopologyAssumption
<1> QED BY <1>1, TopologyAssumption DEF Nodes

LEMMA ChildrenFinite ==
    ASSUME NEW n \in Nodes
    PROVE  /\ Children(strategy, n) \subseteq Nodes
           /\ IsFiniteSet(Children(strategy, n))
           /\ Cardinality(Children(strategy, n)) \in Nat
<1>1. Children(strategy, n) \subseteq Nodes
  BY DEF Children
<1> QED BY <1>1, NodesFinite, FS_Subset, FS_CardinalityType

LEMMA PreviousIs ==
    ASSUME NEW n \in Nodes
    PROVE  /\ Previous(n) \in Nodes
           /\ Previous(n) = IF n = 0 THEN N - 1 ELSE n - 1
<1>1. n \in Nat /\ n < N /\ N \in Nat /\ N > 0
  BY TopologyAssumption DEF Nodes
<1>2. (n + N - 1) % N = IF n = 0 THEN N - 1 ELSE n - 1
  <2> DEFINE x == n + N - 1
  <2>1. x \in Nat /\ x < 3 * N /\ x < 2 * N
    BY <1>1
  <2>2. x % N = IF x < N THEN x ELSE IF x < 2 * N THEN x - N ELSE x - 2 * N
    BY <2>1, ModBelow
  <2> QED BY <1>1, <2>1, <2>2
<1> QED BY <1>1, <1>2 DEF Previous, Nodes

(* How many places after s a node n comes in the ring. *)
Dist(s, n) == IF s <= n THEN n - s ELSE n + N - s

(* In cycle k a node sends the slice that comes k places before it, and    *)
(* receives the one before that: the slice its predecessor sends.          *)
LEMMA SliceDistances ==
    ASSUME NEW n \in Nodes, NEW k \in Nat, k < Cycles
    PROVE  /\ SendSlice(n, k) \in Nodes
           /\ RecvSlice(n, k) = SendSlice(Previous(n), k)
           /\ RecvSlice(n, k) \in Nodes
           /\ Dist(SendSlice(n, k), n) = IF k < N THEN k ELSE k - N
           /\ Dist(RecvSlice(n, k), n) = IF k < N - 1 THEN k + 1 ELSE k - (N - 1)
<1>1. n \in Nat /\ n < N /\ N \in Nat /\ N > 0 /\ k < 2 * N - 2
  BY TopologyAssumption DEF Nodes, Cycles
<1>2. ASSUME NEW m \in Nodes
      PROVE  SendSlice(m, k) = IF k <= m THEN m - k
                               ELSE IF k <= m + N THEN m + N - k ELSE m + 2 * N - k
  <2>1. m \in Nat /\ m < N
    BY <1>1 DEF Nodes
  <2> DEFINE x == m + 2 * N - k
  <2>2. x \in Nat /\ x < 3 * N
    BY <1>1, <2>1
  <2>3. x % N = IF x < N THEN x ELSE IF x < 2 * N THEN x - N ELSE x - 2 * N
    BY <2>2, ModBelow
  <2>4. SendSlice(m, k) = x % N
    BY DEF SendSlice
  <2> QED BY <1>1, <2>1, <2>3, <2>4
<1>3. SendSlice(n, k) \in Nodes
  BY <1>1, <1>2 DEF Nodes
<1>4. RecvSlice(n, k) = IF SendSlice(n, k) = 0 THEN N - 1 ELSE SendSlice(n, k) - 1
  BY <1>3, PreviousIs DEF RecvSlice, Previous
<1>5. RecvSlice(n, k) \in Nodes
  BY <1>1, <1>3, <1>4 DEF Nodes
<1>6. RecvSlice(n, k) = SendSlice(Previous(n), k)
  BY <1>1, <1>2, <1>4, PreviousIs
<1>7. Dist(SendSlice(n, k), n) = IF k < N THEN k ELSE k - N
  BY <1>1, <1>2 DEF Dist
<1>8. Dist(RecvSlice(n, k), n) = IF k < N - 1 THEN k + 1 ELSE k - (N - 1)
  BY <1>1, <1>2, <1>4 DEF Dist
<1> QED BY <1>3, <1>5, <1>6, <1>7, <1>8

-----------------------------------------------------------------------------
(* The types.                                                              *)

Entry == [tensor : Slice, max : Nat, count : Nat]

Tables == UNION {[ids -> Entry] : ids \in SUBSET Nat}

Waiting == {"check", "missed", "wait"}

FullUploads == [phase : {"insert", "notify"}, id : Nat, tensor : Slice, max : Nat]

OpenRequests == [phase : Waiting, id : Nat]

Replies == [phase : {"reply"}, tensor : Slice]

(* TypeOK says that too, except of what exposed, upload and request are    *)
(* functions of.                                                           *)
DataTypes ==
    /\ exposed \in [Nodes -> Tables]
    /\ upload \in [Nodes -> {NoUpload} \cup FullUploads]
    /\ request \in [Nodes -> [Nodes -> {NoRequest} \cup OpenRequests \cup Replies]]

NodeTypes ==
    /\ strategy \in Strategies
    /\ pc \in [Nodes -> Labels]
    /\ round \in [Nodes -> 0 .. MaxRounds]
    /\ cycle \in [Nodes -> 0 .. Cycles]
    /\ tensor \in [Nodes -> [Slices(strategy) -> Slice]]

SyncTypes ==
    /\ syncing \in [Nodes -> [Nodes -> Nat]]
    /\ syncer \in [Nodes -> {"none", "check", "missed", "wait"}]
    /\ notices \subseteq [from : Nodes, to : Nodes, nth : 1 .. MaxRounds]

(* Which labels belong to which strategy, and to a call of all-reduce. *)
LabelsFit ==
    \A n \in Nodes :
        /\ pc[n] # "idle" => round[n] < MaxRounds
        /\ pc[n] \in {"cycle", "transfer"} => strategy = "ring" /\ cycle[n] < Cycles
        /\ pc[n] \in {"gather", "offer", "receive", "give", "given"} => strategy # "ring"

TInv == DataTypes /\ NodeTypes /\ SyncTypes /\ LabelsFit

LEMMA SumIsSlice == \A X : SumOf(X) \in Slice
BY DEF SumOf, Slice

LEMMA PlusIsSlice == \A a, b \in Slice : Plus(a, b) \in Slice
BY DEF Plus, Slice

LEMMA UploadIs ==
    ASSUME NEW i \in Nat, NEW t \in Slice, NEW m \in Nat
    PROVE  /\ Upload(i, t, m) \in FullUploads
           /\ Upload(i, t, m).phase = "insert" /\ Upload(i, t, m).id = i
           /\ Upload(i, t, m).tensor = t /\ Upload(i, t, m).max = m
BY DEF Upload, FullUploads

LEMMA AskedIs ==
    ASSUME NEW i \in Nat
    PROVE  Asked(i) \in OpenRequests /\ Asked(i).phase = "check" /\ Asked(i).id = i
BY DEF Asked, OpenRequests, Waiting

LEMMA TableIs ==
    ASSUME NEW t \in Tables
    PROVE  DOMAIN t \in SUBSET Nat /\ t \in [DOMAIN t -> Entry]
BY DEF Tables

LEMMA IsTable ==
    ASSUME NEW ids \in SUBSET Nat, NEW t \in [ids -> Entry]
    PROVE  t \in Tables
BY DEF Tables

LEMMA PhaseOf ==
    /\ NoUpload.phase = "none" /\ NoRequest.phase = "none"
    /\ \A u \in FullUploads : u.phase \in {"insert", "notify"}
    /\ \A r \in OpenRequests : r.phase \in Waiting
    /\ \A r \in Replies : r.phase = "reply"
BY DEF NoUpload, NoRequest, FullUploads, OpenRequests, Replies

-----------------------------------------------------------------------------
(* What the steps of the data service do, entry by entry.                  *)

LEMMA InsertIs ==
    ASSUME DataTypes, NEW s \in Nodes, Insert(s)
    PROVE  /\ DataTypes'
           /\ upload[s] \in FullUploads /\ upload[s].phase = "insert"
           /\ upload'[s] \in FullUploads /\ upload'[s].phase = "notify"
           /\ upload'[s].id = upload[s].id /\ upload'[s].max = upload[s].max
           /\ upload'[s].tensor = upload[s].tensor
           /\ \A m \in Nodes \ {s} : upload'[m] = upload[m] /\ exposed'[m] = exposed[m]
           /\ DOMAIN exposed'[s] = DOMAIN exposed[s] \cup {upload[s].id}
           /\ exposed'[s][upload[s].id] =
                  [tensor |-> upload[s].tensor, max |-> upload[s].max, count |-> 0]
           /\ \A i \in DOMAIN exposed[s] \ {upload[s].id} : exposed'[s][i] = exposed[s][i]
           /\ request' = request
<1> DEFINE u == upload[s]
           e == [tensor |-> u.tensor, max |-> u.max, count |-> 0]
           D == DOMAIN exposed[s] \cup {u.id}
           t == [i \in D |-> IF i = u.id THEN e ELSE exposed[s][i]]
<1>1. /\ u.phase = "insert"
      /\ exposed' = [exposed EXCEPT ![s] = t]
      /\ upload' = [upload EXCEPT ![s].phase = "notify"]
      /\ request' = request
  BY DEF Insert
<1>2. u \in FullUploads
  BY <1>1, PhaseOf DEF DataTypes
<1>3. e \in Entry /\ u.id \in Nat
  BY <1>2 DEF FullUploads, Entry
<1>4. DOMAIN exposed[s] \in SUBSET Nat /\ exposed[s] \in [DOMAIN exposed[s] -> Entry]
  BY TableIs DEF DataTypes
<1>5. t \in Tables
  <2>1. D \in SUBSET Nat /\ t \in [D -> Entry]
    BY <1>3, <1>4
  <2> QED BY <2>1, IsTable
<1>6. upload'[s] \in FullUploads /\ upload'[s].phase = "notify" /\ upload'[s].id = u.id
      /\ upload'[s].max = u.max /\ upload'[s].tensor = u.tensor
  BY <1>1, <1>2 DEF FullUploads, DataTypes
<1>7. DataTypes'
  <2>1. exposed' \in [Nodes -> Tables]
    BY <1>1, <1>5 DEF DataTypes
  <2>2. upload' \in [Nodes -> {NoUpload} \cup FullUploads]
    BY <1>1, <1>6 DEF DataTypes
  <2> QED BY <1>1, <2>1, <2>2 DEF DataTypes
<1>8. exposed'[s] = t /\ \A m \in Nodes \ {s} : exposed'[m] = exposed[m] /\ upload'[m] = upload[m]
  BY <1>1 DEF DataTypes
<1> QED BY <1>1, <1>2, <1>6, <1>7, <1>8

LEMMA ServeIs ==
    ASSUME DataTypes, NEW c \in Nodes, NEW s \in Nodes, Serve(c, s)
    PROVE  /\ DataTypes'
           /\ request[c][s] \in OpenRequests
           /\ request[c][s].id \in DOMAIN exposed[s]
           /\ exposed[s][request[c][s].id] \in Entry
           /\ request'[c][s] =
                 [phase |-> "reply", tensor |-> exposed[s][request[c][s].id].tensor]
           /\ \A d, m \in Nodes : (d # c \/ m # s) => request'[d][m] = request[d][m]
           /\ exposed'[s] = Taken(exposed[s], request[c][s].id)
           /\ \A m \in Nodes \ {s} : exposed'[m] = exposed[m]
           /\ upload' = upload
<1> DEFINE i == request[c][s].id
           t == exposed[s]
<1>1. /\ request[c][s].phase = "check" /\ i \in DOMAIN t
      /\ request' = [request EXCEPT ![c][s] = [phase |-> "reply", tensor |-> t[i].tensor]]
      /\ exposed' = [exposed EXCEPT ![s] = Taken(t, i)]
      /\ upload' = upload
  BY DEF Serve
<1>2. request[c][s] \in OpenRequests
  <2>1. request[c][s] \in {NoRequest} \cup OpenRequests \cup Replies
    BY DEF DataTypes
  <2> QED BY <1>1, <2>1, PhaseOf
<1>3. DOMAIN t \in SUBSET Nat /\ t \in [DOMAIN t -> Entry] /\ t[i] \in Entry /\ i \in Nat
  <2>1. DOMAIN t \in SUBSET Nat /\ t \in [DOMAIN t -> Entry]
    BY TableIs DEF DataTypes
  <2> QED BY <1>1, <2>1
<1>4. Taken(t, i) \in Tables
  <2> DEFINE D == DOMAIN t \ {i}
             e == [t[i] EXCEPT !.count = t[i].count + 1]
  <2>1. [j \in D |-> t[j]] \in Tables
    <3>1. D \in SUBSET Nat /\ [j \in D |-> t[j]] \in [D -> Entry]
      BY <1>3
    <3> QED BY <3>1, IsTable
  <2>2. [t EXCEPT ![i].count = t[i].count + 1] \in Tables
    <3>1. e \in Entry
      BY <1>3 DEF Entry
    <3> HIDE DEF e
    <3>2. [t EXCEPT ![i] = e] \in [DOMAIN t -> Entry]
      BY <1>3, <3>1
    <3> USE DEF e
    <3> QED BY <1>3, <3>2, IsTable
  <2> QED BY <2>1, <2>2 DEF Taken
<1>5. [phase |-> "reply", tensor |-> t[i].tensor] \in Replies
  BY <1>3 DEF Replies, Entry
<1> HIDE DEF i, t
<1>6. /\ request'[c][s] = [phase |-> "reply", tensor |-> t[i].tensor]
      /\ \A d, m \in Nodes : (d # c \/ m # s) => request'[d][m] = request[d][m]
      /\ exposed'[s] = Taken(t, i)
      /\ \A m \in Nodes \ {s} : exposed'[m] = exposed[m]
  BY <1>1 DEF DataTypes
<1>7. exposed' \in [Nodes -> Tables]
  BY <1>1, <1>4 DEF DataTypes
<1>8. request' \in [Nodes -> [Nodes -> {NoRequest} \cup OpenRequests \cup Replies]]
  BY <1>1, <1>5 DEF DataTypes
<1>9. DataTypes'
  BY <1>1, <1>7, <1>8 DEF DataTypes
<1> USE DEF i, t
<1> QED BY <1>1, <1>2, <1>3, <1>6, <1>9

(* What a download leaves of a table: the last one takes the entry. *)
LEMMA TakenIs ==
    ASSUME NEW t \in Tables, NEW i \in DOMAIN t
    PROVE  /\ t[i].count + 1 = t[i].max =>
                 /\ DOMAIN Taken(t, i) = DOMAIN t \ {i}
                 /\ \A j \in DOMAIN t \ {i} : Taken(t, i)[j] = t[j]
           /\ t[i].count + 1 # t[i].max =>
                 /\ DOMAIN Taken(t, i) = DOMAIN t
                 /\ \A j \in DOMAIN t \ {i} : Taken(t, i)[j] = t[j]
                 /\ Taken(t, i)[i] =
                       [tensor |-> t[i].tensor, max |-> t[i].max, count |-> t[i].count + 1]
<1>1. t \in [DOMAIN t -> Entry] /\ t[i] \in Entry
  BY TableIs
<1>2. CASE t[i].count + 1 = t[i].max
  <2>1. Taken(t, i) = [j \in DOMAIN t \ {i} |-> t[j]]
    BY <1>2 DEF Taken
  <2> QED BY <1>2, <2>1
<1>3. CASE t[i].count + 1 # t[i].max
  <2>1. Taken(t, i) = [t EXCEPT ![i] = [t[i] EXCEPT !.count = t[i].count + 1]]
    BY <1>3 DEF Taken
  <2>2. [t[i] EXCEPT !.count = t[i].count + 1] =
           [tensor |-> t[i].tensor, max |-> t[i].max, count |-> t[i].count + 1]
    BY <1>1 DEF Entry
  <2> QED BY <1>1, <1>3, <2>1, <2>2
<1> QED BY <1>2, <1>3

(* A request that stays one, of the same id, or any that stays as it is. *)
SameRequest(c, s) ==
    \/ request'[c][s] = request[c][s]
    \/ /\ request[c][s] \in OpenRequests /\ request'[c][s] \in OpenRequests
       /\ request'[c][s].id = request[c][s].id

LEMMA WaitStep ==
    ASSUME DataTypes, NEW c \in Nodes, NEW s \in Nodes, NEW p \in Waiting,
           request[c][s] \in OpenRequests,
           request' = [request EXCEPT ![c][s].phase = p],
           UNCHANGED <<exposed, upload>>
    PROVE  DataTypes' /\ \A d, m \in Nodes : SameRequest(d, m)
<1> DEFINE r == [request[c][s] EXCEPT !.phase = p]
<1>1. r \in OpenRequests /\ r.id = request[c][s].id
  BY DEF OpenRequests
<1>2. request' = [request EXCEPT ![c] = [request[c] EXCEPT ![s] = r]]
  OBVIOUS
<1> HIDE DEF r
<1>3. request' \in [Nodes -> [Nodes -> {NoRequest} \cup OpenRequests \cup Replies]]
  <2> DEFINE All == {NoRequest} \cup OpenRequests \cup Replies
  <2>1. request \in [Nodes -> [Nodes -> All]] /\ r \in All
    BY <1>1 DEF DataTypes
  <2> HIDE DEF All
  <2>2. [request[c] EXCEPT ![s] = r] \in [Nodes -> All]
    BY <2>1
  <2>3. request' \in [Nodes -> [Nodes -> All]]
    BY <1>2, <2>1, <2>2
  <2> QED BY <2>3 DEF All
<1>4. \A d, m \in Nodes : request'[d][m] = IF d = c /\ m = s THEN r ELSE request[d][m]
  BY <1>2 DEF DataTypes
<1> QED BY <1>1, <1>3, <1>4 DEF DataTypes, SameRequest

LEMMA OpenRequestIs ==
    ASSUME DataTypes, NEW c \in Nodes, NEW s \in Nodes, request[c][s].phase \in Waiting
    PROVE  request[c][s] \in OpenRequests
<1>1. request[c][s] \in {NoRequest} \cup OpenRequests \cup Replies
  BY DEF DataTypes
<1> QED BY <1>1, PhaseOf DEF Waiting

LEMMA MissIs ==
    ASSUME DataTypes, NEW c \in Nodes, NEW s \in Nodes, Miss(c, s) \/ Await(c, s)
    PROVE  /\ DataTypes' /\ UNCHANGED <<exposed, upload>>
           /\ \A d, m \in Nodes : SameRequest(d, m)
<1>1. request[c][s].phase \in Waiting /\ UNCHANGED <<exposed, upload>>
  BY DEF Miss, Await, Waiting
<1>2. PICK p \in Waiting : request' = [request EXCEPT ![c][s].phase = p]
  BY DEF Miss, Await, Waiting
<1> QED BY <1>1, <1>2, OpenRequestIs, WaitStep

LEMMA NotifyIs ==
    ASSUME DataTypes, NEW s \in Nodes, NotifyTensor(s)
    PROVE  /\ DataTypes' /\ exposed' = exposed
           /\ upload[s] \in FullUploads /\ upload[s].phase = "notify"
           /\ upload'[s] = NoUpload
           /\ \A m \in Nodes \ {s} : upload'[m] = upload[m]
           /\ \A d, m \in Nodes : SameRequest(d, m)
<1>1. /\ upload[s].phase = "notify" /\ upload' = [upload EXCEPT ![s] = NoUpload]
      /\ exposed' = exposed
      /\ request' = [c \in Nodes |-> IF request[c][s].phase = "wait"
                                     THEN [request[c] EXCEPT ![s].phase = "check"]
                                     ELSE request[c]]
  BY DEF NotifyTensor
<1>2. upload[s] \in FullUploads
  BY <1>1, PhaseOf DEF DataTypes
<1>3. ASSUME NEW c \in Nodes
      PROVE  /\ request'[c] \in [Nodes -> {NoRequest} \cup OpenRequests \cup Replies]
             /\ \A m \in Nodes : SameRequest(c, m)
  <2>0. request[c] \in [Nodes -> {NoRequest} \cup OpenRequests \cup Replies]
    BY DEF DataTypes
  <2>1. CASE request[c][s].phase = "wait"
    <3> DEFINE r == [request[c][s] EXCEPT !.phase = "check"]
    <3>1. request[c][s] \in OpenRequests
      BY <2>1, OpenRequestIs DEF Waiting
    <3>2. r \in OpenRequests /\ r.id = request[c][s].id
      BY <3>1 DEF OpenRequests, Waiting
    <3>3. request'[c] = [request[c] EXCEPT ![s] = r]
      BY <1>1, <2>1
    <3> HIDE DEF r
    <3>4. request'[c] \in [Nodes -> {NoRequest} \cup OpenRequests \cup Replies]
      BY <2>0, <3>2, <3>3
    <3>5. \A m \in Nodes : request'[c][m] = IF m = s THEN r ELSE request[c][m]
      BY <2>0, <3>3
    <3> QED BY <3>1, <3>2, <3>4, <3>5 DEF SameRequest
  <2>2. CASE request[c][s].phase # "wait"
    <3>1. request'[c] = request[c]
      BY <1>1, <2>2
    <3> QED BY <2>0, <3>1 DEF SameRequest
  <2> QED BY <2>1, <2>2
<1>4. request' \in [Nodes -> [Nodes -> {NoRequest} \cup OpenRequests \cup Replies]]
  BY <1>1, <1>3
<1>5. DataTypes'
  BY <1>1, <1>4 DEF DataTypes
<1>6. upload'[s] = NoUpload /\ \A m \in Nodes \ {s} : upload'[m] = upload[m]
  BY <1>1 DEF DataTypes
<1> QED BY <1>1, <1>2, <1>3, <1>5, <1>6

-----------------------------------------------------------------------------
(* The types, step by step.                                                *)

LEMMA InitTInv == Init => TInv
<1> SUFFICES ASSUME Init PROVE TInv
  OBVIOUS
<1>1. DataTypes
  <2>1. <<>> \in Tables
    <3>1. <<>> \in [{} -> Entry] /\ {} \in SUBSET Nat
      OBVIOUS
    <3> QED BY <3>1, IsTable
  <2> QED BY <2>1 DEF Init, InitData, DataTypes
<1>2. NodeTypes
  <2>1. 0 \in 0 .. MaxRounds /\ 0 \in 0 .. Cycles
    BY RoundsAssumption, TopologyAssumption DEF Cycles
  <2>2. tensor \in [Nodes -> [Slices(strategy) -> Slice]]
    BY SumIsSlice DEF Init
  <2> QED BY <2>1, <2>2 DEF Init, NodeTypes, Labels
<1>3. SyncTypes
  BY DEF Init, InitSync, SyncTypes
<1>4. LabelsFit
  BY DEF Init, LabelsFit
<1> QED BY <1>1, <1>2, <1>3, <1>4 DEF TInv

LEMMA UploadStep ==
    ASSUME DataTypes, NEW n \in Nodes, NEW u \in FullUploads,
           upload' = [upload EXCEPT ![n] = u], UNCHANGED <<exposed, request>>
    PROVE  DataTypes'
BY DEF DataTypes

LEMMA RequestStep ==
    ASSUME DataTypes, NEW n \in Nodes, NEW s \in Nodes,
           NEW r \in {NoRequest} \cup OpenRequests,
           request' = [request EXCEPT ![n][s] = r], UNCHANGED <<exposed, upload>>
    PROVE  DataTypes'
<1> DEFINE All == {NoRequest} \cup OpenRequests \cup Replies
<1>1. request \in [Nodes -> [Nodes -> All]] /\ r \in All
  BY DEF DataTypes
<1> HIDE DEF All
<1>2. request' \in [Nodes -> [Nodes -> All]]
  <2>1. [request[n] EXCEPT ![s] = r] \in [Nodes -> All]
    BY <1>1
  <2> QED BY <1>1, <2>1
<1> QED BY <1>2 DEF DataTypes, All

(* The two together, as StartCycle does it. *)
LEMMA UploadRequestStep ==
    ASSUME DataTypes, NEW n \in Nodes, NEW u \in FullUploads,
           NEW s \in Nodes, NEW r \in OpenRequests,
           upload' = [upload EXCEPT ![n] = u], request' = [request EXCEPT ![n][s] = r],
           UNCHANGED exposed
    PROVE  DataTypes'
<1> DEFINE All == {NoRequest} \cup OpenRequests \cup Replies
<1>1. request \in [Nodes -> [Nodes -> All]] /\ r \in All
  BY DEF DataTypes
<1> HIDE DEF All
<1>2. request' \in [Nodes -> [Nodes -> All]]
  <2>1. [request[n] EXCEPT ![s] = r] \in [Nodes -> All]
    BY <1>1
  <2> QED BY <1>1, <2>1
<1> QED BY <1>2 DEF DataTypes, All

(* A new label, for a node that is in a call. *)
LEMMA LabelStep ==
    ASSUME NodeTypes, LabelsFit, NEW n \in Nodes, NEW l \in Labels, Goto(n, l),
           l # "idle" => round[n] < MaxRounds,
           l \in {"cycle", "transfer"} => strategy = "ring" /\ cycle'[n] < Cycles,
           l \in {"gather", "offer", "receive", "give", "given"} => strategy # "ring",
           cycle' \in [Nodes -> 0 .. Cycles], \A m \in Nodes \ {n} : cycle'[m] = cycle[m],
           tensor' \in [Nodes -> [Slices(strategy) -> Slice]],
           UNCHANGED <<strategy, round>>
    PROVE  NodeTypes' /\ LabelsFit'
<1>1. pc' = [pc EXCEPT ![n] = l] /\ pc \in [Nodes -> Labels]
  BY DEF Goto, NodeTypes
<1>2. NodeTypes'
  BY <1>1 DEF NodeTypes
<1>3. LabelsFit'
  BY <1>1 DEF LabelsFit
<1> QED BY <1>2, <1>3

LEMMA TensorSet ==
    ASSUME NodeTypes, NEW n \in Nodes, NEW k \in Slices(strategy), NEW t \in Slice,
           tensor' = [tensor EXCEPT ![n][k] = t]
    PROVE  /\ tensor' \in [Nodes -> [Slices(strategy) -> Slice]]
           /\ tensor'[n][k] = t
           /\ \A m \in Nodes, j \in Slices(strategy) :
                 (m # n \/ j # k) => tensor'[m][j] = tensor[m][j]
<1>1. tensor \in [Nodes -> [Slices(strategy) -> Slice]]
  BY DEF NodeTypes
<1>2. [tensor[n] EXCEPT ![k] = t] \in [Slices(strategy) -> Slice]
  BY <1>1
<1> QED BY <1>1, <1>2

LEMMA OwnTensor ==
    ASSUME NodeTypes, NEW n \in Nodes, NEW t \in Slice,
           tensor' = [tensor EXCEPT ![n] = [k \in Slices(strategy) |-> t]]
    PROVE  /\ tensor' \in [Nodes -> [Slices(strategy) -> Slice]]
           /\ \A k \in Slices(strategy) : tensor'[n][k] = t
           /\ \A m \in Nodes \ {n} : tensor'[m] = tensor[m]
BY DEF NodeTypes

LEMMA BeginRingT ==
    ASSUME TInv, NEW n \in Nodes, BeginRing(n)
    PROVE  TInv'
<1>1. /\ round[n] < MaxRounds /\ strategy = "ring" /\ Goto(n, CycleLabel(0))
      /\ tensor' = [tensor EXCEPT ![n] = [k \in Slices(strategy) |-> SumOf({<<round[n] + 1, n>>})]]
      /\ cycle' = [cycle EXCEPT ![n] = 0]
      /\ UNCHANGED <<strategy, round, dataVars, syncVars>>
  BY DEF BeginRing
<1>2. tensor' \in [Nodes -> [Slices(strategy) -> Slice]]
  <2>1. SumOf({<<round[n] + 1, n>>}) \in Slice
    BY SumIsSlice
  <2> QED BY <1>1, <2>1, OwnTensor DEF TInv
<1>3. Cycles \in Nat /\ (CycleLabel(0) = "cycle" => 0 < Cycles) /\ CycleLabel(0) \in {"cycle", "sync"}
  BY TopologyAssumption DEF Cycles, CycleLabel
<1>4. /\ cycle' \in [Nodes -> 0 .. Cycles] /\ cycle'[n] = 0
      /\ \A m \in Nodes \ {n} : cycle'[m] = cycle[m]
  BY <1>1, <1>3 DEF TInv, NodeTypes
<1>5. NodeTypes' /\ LabelsFit'
  <2>1. CycleLabel(0) \in Labels
    BY <1>3 DEF Labels
  <2> QED BY <1>1, <1>2, <1>3, <1>4, <2>1, LabelStep DEF TInv
<1> QED BY <1>1, <1>5 DEF TInv, DataTypes, SyncTypes, dataVars, syncVars

LEMMA FailRingT ==
    ASSUME TInv, NEW n \in Nodes, FailRing(n)
    PROVE  TInv'
<1>1. PICK l \in {"idle", "panicked"} : Goto(n, l)
  BY DEF FailRing
<1>2. round[n] < MaxRounds /\ UNCHANGED <<strategy, round, cycle, tensor, dataVars, syncVars>>
  BY DEF FailRing
<1>3. /\ l \in Labels /\ cycle' \in [Nodes -> 0 .. Cycles]
      /\ tensor' \in [Nodes -> [Slices(strategy) -> Slice]]
  BY <1>2 DEF Labels, TInv, NodeTypes
<1>4. NodeTypes' /\ LabelsFit'
  BY <1>1, <1>2, <1>3, LabelStep DEF TInv
<1> QED BY <1>2, <1>4 DEF TInv, DataTypes, SyncTypes, dataVars, syncVars

LEMMA BeginTreeT ==
    ASSUME TInv, NEW n \in Nodes, BeginTree(n)
    PROVE  /\ TInv'
           /\ \A s \in Nodes :
                 request'[n][s] = IF s \in Children(strategy, n) THEN Asked(0) ELSE request[n][s]
           /\ \A m \in Nodes \ {n} : request'[m] = request[m]
           /\ tensor'[n][0] = SumOf({<<round[n] + 1, n>>})
           /\ \A m \in Nodes \ {n} : tensor'[m] = tensor[m]
<1> DEFINE row == [s \in Nodes |-> IF s \in Children(strategy, n) THEN Asked(0) ELSE request[n][s]]
           All == {NoRequest} \cup OpenRequests \cup Replies
<1>1. /\ round[n] < MaxRounds /\ strategy # "ring" /\ Goto(n, "gather")
      /\ tensor' = [tensor EXCEPT ![n] = [k \in Slices(strategy) |-> SumOf({<<round[n] + 1, n>>})]]
      /\ request' = [request EXCEPT ![n] = row]
      /\ UNCHANGED <<strategy, round, cycle, exposed, upload, syncVars>>
  BY DEF BeginTree
<1>2. /\ tensor' \in [Nodes -> [Slices(strategy) -> Slice]]
      /\ tensor'[n][0] = SumOf({<<round[n] + 1, n>>})
      /\ \A m \in Nodes \ {n} : tensor'[m] = tensor[m]
  <2>1. SumOf({<<round[n] + 1, n>>}) \in Slice
    BY SumIsSlice
  <2>2. 0 \in Slices(strategy)
    BY <1>1 DEF Slices
  <2> QED BY <1>1, <2>1, <2>2, OwnTensor DEF TInv
<1>3. row \in [Nodes -> All] /\ request \in [Nodes -> [Nodes -> All]]
  <2>1. request \in [Nodes -> [Nodes -> All]]
    BY DEF TInv, DataTypes
  <2>2. Asked(0) \in All
    BY AskedIs
  <2> HIDE DEF All
  <2> QED BY <2>1, <2>2
<1>4. NodeTypes' /\ LabelsFit'
  <2>1. "gather" \in Labels
    BY DEF Labels
  <2>2. cycle' \in [Nodes -> 0 .. Cycles]
    BY <1>1 DEF TInv, NodeTypes
  <2> QED BY <1>1, <1>2, <2>1, <2>2, LabelStep DEF TInv
<1>5. DataTypes'
  <2> HIDE DEF row, All
  <2>1. request' \in [Nodes -> [Nodes -> All]]
    BY <1>1, <1>3
  <2> QED BY <1>1, <2>1 DEF TInv, DataTypes, All
<1>6. request'[n] = row /\ \A m \in Nodes \ {n} : request'[m] = request[m]
  <2> HIDE DEF row
  <2> QED BY <1>1, <1>3
<1> QED BY <1>1, <1>2, <1>4, <1>5, <1>6 DEF TInv, SyncTypes, syncVars

LEMMA StartCycleT ==
    ASSUME TInv, NEW n \in Nodes, StartCycle(n)
    PROVE  /\ TInv' /\ strategy = "ring" /\ cycle[n] \in Nat /\ cycle[n] < Cycles
           /\ upload'[n] = Upload(cycle[n], tensor[n][SendSlice(n, cycle[n])], 1)
           /\ tensor[n][SendSlice(n, cycle[n])] \in Slice
           /\ request'[n][Previous(n)] = Asked(cycle[n])
           /\ \A m \in Nodes \ {n} : upload'[m] = upload[m]
           /\ \A d, m \in Nodes : (d # n \/ m # Previous(n)) => request'[d][m] = request[d][m]
<1> DEFINE k == cycle[n]
           t == tensor[n][SendSlice(n, k)]
<1>1. /\ pc[n] = "cycle" /\ Goto(n, "transfer")
      /\ upload' = [upload EXCEPT ![n] = Upload(k, t, 1)]
      /\ request' = [request EXCEPT ![n][Previous(n)] = Asked(k)]
      /\ UNCHANGED <<strategy, round, cycle, tensor, exposed, syncVars>>
  BY DEF StartCycle
<1>2. strategy = "ring" /\ k \in Nat /\ k < Cycles /\ round[n] < MaxRounds
  BY <1>1, TopologyAssumption DEF TInv, LabelsFit, NodeTypes, Cycles
<1>3. t \in Slice
  <2>1. SendSlice(n, k) \in Nodes
    BY <1>2, SliceDistances
  <2> QED BY <1>2, <2>1 DEF TInv, NodeTypes, Slices
<1>4. Upload(k, t, 1) \in FullUploads /\ Asked(k) \in OpenRequests /\ Previous(n) \in Nodes
  BY <1>2, <1>3, UploadIs, AskedIs, PreviousIs
<1>5. /\ DataTypes' /\ upload'[n] = Upload(k, t, 1) /\ request'[n][Previous(n)] = Asked(k)
      /\ \A m \in Nodes \ {n} : upload'[m] = upload[m]
      /\ \A d, m \in Nodes : (d # n \/ m # Previous(n)) => request'[d][m] = request[d][m]
  <2> DEFINE u == Upload(k, t, 1)
             a == Asked(k)
  <2>1. /\ upload' = [upload EXCEPT ![n] = u] /\ request' = [request EXCEPT ![n][Previous(n)] = a]
        /\ UNCHANGED exposed /\ u \in FullUploads /\ a \in OpenRequests /\ Previous(n) \in Nodes
        /\ DataTypes
    BY <1>1, <1>4 DEF TInv
  <2> HIDE DEF u, a
  <2>2. DataTypes'
    BY <2>1, UploadRequestStep
  <2>3. upload'[n] = u /\ \A m \in Nodes \ {n} : upload'[m] = upload[m]
    BY <2>1 DEF DataTypes
  <2>4. /\ request'[n][Previous(n)] = a
        /\ \A d, m \in Nodes : (d # n \/ m # Previous(n)) => request'[d][m] = request[d][m]
    BY <2>1 DEF DataTypes
  <2> QED BY <2>2, <2>3, <2>4 DEF u, a
<1>6. NodeTypes' /\ LabelsFit'
  <2>1. "transfer" \in Labels
    BY DEF Labels
  <2>2. cycle' \in [Nodes -> 0 .. Cycles] /\ tensor' \in [Nodes -> [Slices(strategy) -> Slice]]
    BY <1>1 DEF TInv, NodeTypes
  <2> QED BY <1>1, <1>2, <2>1, <2>2, LabelStep DEF TInv
<1> QED BY <1>1, <1>2, <1>3, <1>5, <1>6 DEF TInv, SyncTypes, syncVars

LEMMA ReplyIs ==
    ASSUME DataTypes, NEW c \in Nodes, NEW s \in Nodes, request[c][s].phase = "reply"
    PROVE  request[c][s] \in Replies /\ request[c][s].tensor \in Slice
<1>1. request[c][s] \in {NoRequest} \cup OpenRequests \cup Replies
  BY DEF DataTypes
<1>2. request[c][s] \in Replies
  BY <1>1, PhaseOf DEF Waiting
<1> QED BY <1>2 DEF Replies

LEMMA EndCycleT ==
    ASSUME TInv, NEW n \in Nodes, EndCycle(n)
    PROVE  /\ TInv' /\ strategy = "ring" /\ cycle[n] \in Nat /\ cycle[n] < Cycles
           /\ request[n][Previous(n)].phase = "reply"
           /\ request[n][Previous(n)].tensor \in Slice
           /\ tensor'[n][RecvSlice(n, cycle[n])] =
                 Received(cycle[n], tensor[n][RecvSlice(n, cycle[n])],
                          request[n][Previous(n)].tensor)
           /\ \A m, s \in Nodes : (m # n \/ s # RecvSlice(n, cycle[n])) =>
                 tensor'[m][s] = tensor[m][s]
           /\ cycle'[n] = cycle[n] + 1 /\ \A m \in Nodes \ {n} : cycle'[m] = cycle[m]
           /\ request'[n][Previous(n)] = NoRequest
           /\ \A d, m \in Nodes : (d # n \/ m # Previous(n)) => request'[d][m] = request[d][m]
<1> DEFINE k == cycle[n]
           r == request[n][Previous(n)]
           t == Received(k, tensor[n][RecvSlice(n, k)], r.tensor)
<1>1. /\ pc[n] = "transfer" /\ upload[n].phase = "none" /\ r.phase = "reply"
      /\ tensor' = [tensor EXCEPT ![n][RecvSlice(n, k)] = t]
      /\ cycle' = [cycle EXCEPT ![n] = k + 1]
      /\ Goto(n, CycleLabel(k + 1))
      /\ request' = [request EXCEPT ![n][Previous(n)] = NoRequest]
      /\ UNCHANGED <<strategy, round, exposed, upload, syncVars>>
  BY DEF EndCycle
<1>2. strategy = "ring" /\ k \in Nat /\ k < Cycles /\ round[n] < MaxRounds /\ Cycles \in Nat
  BY <1>1, TopologyAssumption DEF TInv, LabelsFit, NodeTypes, Cycles
<1>3. r.tensor \in Slice /\ Previous(n) \in Nodes
  BY <1>1, PreviousIs, ReplyIs DEF TInv
<1>4. t \in Slice /\ RecvSlice(n, k) \in Slices(strategy) /\ Slices(strategy) = Nodes
  <2>1. RecvSlice(n, k) \in Nodes
    BY <1>2, SliceDistances
  <2>2. tensor[n][RecvSlice(n, k)] \in Slice
    BY <1>2, <2>1 DEF TInv, NodeTypes, Slices
  <2> HIDE DEF r
  <2> QED BY <1>2, <1>3, <2>1, <2>2, PlusIsSlice DEF Received, Slices
<1>5. /\ tensor' \in [Nodes -> [Slices(strategy) -> Slice]]
      /\ tensor'[n][RecvSlice(n, k)] = t
      /\ \A m, s \in Nodes : (m # n \/ s # RecvSlice(n, k)) => tensor'[m][s] = tensor[m][s]
  <2> DEFINE j == RecvSlice(n, k)
  <2>1. /\ tensor' = [tensor EXCEPT ![n][j] = t]
        /\ j \in Slices(strategy) /\ t \in Slice /\ NodeTypes
    BY <1>1, <1>4 DEF TInv
  <2> HIDE DEF j, t
  <2>2. /\ tensor' \in [Nodes -> [Slices(strategy) -> Slice]]
        /\ tensor'[n][j] = t
        /\ \A m \in Nodes, s \in Slices(strategy) :
              (m # n \/ s # j) => tensor'[m][s] = tensor[m][s]
    BY <2>1, TensorSet
  <2> QED BY <1>4, <2>2 DEF j
<1>6. /\ DataTypes' /\ request'[n][Previous(n)] = NoRequest
      /\ \A d, m \in Nodes : (d # n \/ m # Previous(n)) => request'[d][m] = request[d][m]
  <2>1. DataTypes
    BY DEF TInv
  <2>2. DataTypes'
    BY <1>1, <1>3, <2>1, RequestStep
  <2>3. /\ request'[n][Previous(n)] = NoRequest
        /\ \A d, m \in Nodes : (d # n \/ m # Previous(n)) => request'[d][m] = request[d][m]
    BY <1>1, <1>3, <2>1 DEF DataTypes
  <2> QED BY <2>2, <2>3
<1>7. /\ cycle' \in [Nodes -> 0 .. Cycles] /\ cycle'[n] = k + 1
      /\ \A m \in Nodes \ {n} : cycle'[m] = cycle[m]
  BY <1>1, <1>2 DEF TInv, NodeTypes
<1>8. NodeTypes' /\ LabelsFit'
  <2>1. CycleLabel(k + 1) \in {"cycle", "sync"} /\ (CycleLabel(k + 1) = "cycle" => k + 1 < Cycles)
    BY DEF CycleLabel
  <2>2. CycleLabel(k + 1) \in Labels
    BY <2>1 DEF Labels
  <2> QED BY <1>1, <1>2, <1>5, <1>7, <2>1, <2>2, LabelStep DEF TInv
<1> QED BY <1>1, <1>2, <1>3, <1>5, <1>6, <1>7, <1>8 DEF TInv, SyncTypes, syncVars

(* A node replaces its tensor by one it computes from a reply. *)
LEMMA TreeReplyT ==
    ASSUME TInv, NEW n \in Nodes, NEW s \in Nodes, NEW t \in Slice, NEW l \in Labels,
           strategy # "ring", round[n] < MaxRounds, l \in {"gather", "give"}, Goto(n, l),
           tensor' = [tensor EXCEPT ![n][0] = t],
           request' = [request EXCEPT ![n][s] = NoRequest],
           UNCHANGED <<strategy, round, cycle, exposed, upload, syncVars>>
    PROVE  /\ TInv' /\ tensor'[n][0] = t
           /\ \A m \in Nodes \ {n} : tensor'[m] = tensor[m]
           /\ request'[n][s] = NoRequest
           /\ \A d, m \in Nodes : (d # n \/ m # s) => request'[d][m] = request[d][m]
<1>1. 0 \in Slices(strategy)
  BY DEF Slices
<1>2. /\ tensor' \in [Nodes -> [Slices(strategy) -> Slice]] /\ tensor'[n][0] = t
      /\ \A m \in Nodes \ {n} : tensor'[m] = tensor[m]
  <2>1. tensor' \in [Nodes -> [Slices(strategy) -> Slice]] /\ tensor'[n][0] = t
    BY <1>1, TensorSet DEF TInv
  <2> QED BY <2>1 DEF TInv, NodeTypes
<1>3. /\ DataTypes' /\ request'[n][s] = NoRequest
      /\ \A d, m \in Nodes : (d # n \/ m # s) => request'[d][m] = request[d][m]
  <2>1. DataTypes
    BY DEF TInv
  <2>2. DataTypes'
    BY <2>1, RequestStep
  <2>3. /\ request'[n][s] = NoRequest
        /\ \A d, m \in Nodes : (d # n \/ m # s) => request'[d][m] = request[d][m]
    BY <2>1 DEF DataTypes
  <2> QED BY <2>2, <2>3
<1>4. NodeTypes' /\ LabelsFit'
  <2>1. cycle' \in [Nodes -> 0 .. Cycles]
    BY DEF TInv, NodeTypes
  <2> QED BY <1>2, <2>1, LabelStep DEF TInv
<1> QED BY <1>2, <1>3, <1>4 DEF TInv, SyncTypes, syncVars

LEMMA TreeTensorIs ==
    ASSUME TInv, NEW n \in Nodes, strategy # "ring"
    PROVE  tensor[n][0] \in Slice
BY DEF TInv, NodeTypes, Slices

LEMMA GatherT ==
    ASSUME TInv, NEW n \in Nodes, NEW c \in Nodes, Gather(n, c)
    PROVE  /\ TInv' /\ strategy # "ring"
           /\ tensor'[n][0] = Plus(tensor[n][0], request[n][c].tensor)
           /\ \A m \in Nodes \ {n} : tensor'[m] = tensor[m]
           /\ request'[n][c] = NoRequest
           /\ \A d, m \in Nodes : (d # n \/ m # c) => request'[d][m] = request[d][m]
<1> DEFINE t == Plus(tensor[n][0], request[n][c].tensor)
<1>1. /\ pc[n] = "gather" /\ request[n][c].phase = "reply"
      /\ tensor' = [tensor EXCEPT ![n][0] = t]
      /\ request' = [request EXCEPT ![n][c] = NoRequest]
      /\ UNCHANGED <<strategy, pc, round, cycle, exposed, upload, syncVars>>
  BY DEF Gather
<1>2. strategy # "ring" /\ round[n] < MaxRounds
  BY <1>1 DEF TInv, LabelsFit
<1>3. t \in Slice
  BY <1>1, <1>2, ReplyIs, TreeTensorIs, PlusIsSlice DEF TInv
<1>4. Goto(n, "gather") /\ "gather" \in Labels
  BY <1>1 DEF Goto, TInv, NodeTypes, Labels
<1> HIDE DEF t
<1>5. /\ TInv' /\ tensor'[n][0] = t
      /\ \A m \in Nodes \ {n} : tensor'[m] = tensor[m]
      /\ request'[n][c] = NoRequest
      /\ \A d, m \in Nodes : (d # n \/ m # c) => request'[d][m] = request[d][m]
  BY <1>1, <1>2, <1>3, <1>4, TreeReplyT
<1> USE DEF t
<1> QED BY <1>2, <1>5

LEMMA ReceiveT ==
    ASSUME TInv, NEW n \in Nodes, NEW p \in Nodes, Receive(n, p)
    PROVE  /\ TInv' /\ strategy # "ring"
           /\ tensor'[n][0] = request[n][p].tensor
           /\ \A m \in Nodes \ {n} : tensor'[m] = tensor[m]
           /\ request'[n][p] = NoRequest
           /\ \A d, m \in Nodes : (d # n \/ m # p) => request'[d][m] = request[d][m]
<1> DEFINE t == request[n][p].tensor
<1>1. /\ pc[n] = "receive" /\ request[n][p].phase = "reply" /\ Goto(n, "give")
      /\ tensor' = [tensor EXCEPT ![n][0] = t]
      /\ request' = [request EXCEPT ![n][p] = NoRequest]
      /\ UNCHANGED <<strategy, round, cycle, exposed, upload, syncVars>>
  BY DEF Receive
<1>2. strategy # "ring" /\ round[n] < MaxRounds /\ t \in Slice /\ "give" \in Labels
  BY <1>1, ReplyIs DEF TInv, LabelsFit, Labels
<1> HIDE DEF t
<1>3. /\ TInv' /\ tensor'[n][0] = t
      /\ \A m \in Nodes \ {n} : tensor'[m] = tensor[m]
      /\ request'[n][p] = NoRequest
      /\ \A d, m \in Nodes : (d # n \/ m # p) => request'[d][m] = request[d][m]
  BY <1>1, <1>2, TreeReplyT
<1> USE DEF t
<1> QED BY <1>2, <1>3

(* A node goes on within a tree all-reduce, and may expose a tensor. *)
LEMMA TreeLabelT ==
    ASSUME TInv, NEW n \in Nodes, NEW l \in Labels, strategy # "ring", round[n] < MaxRounds,
           l \notin {"idle", "cycle", "transfer"}, Goto(n, l), DataTypes',
           UNCHANGED <<strategy, round, cycle, tensor, syncing, notices>>,
           syncer' \in [Nodes -> {"none", "check", "missed", "wait"}]
    PROVE  TInv'
<1>1. NodeTypes' /\ LabelsFit'
  <2>1. cycle' \in [Nodes -> 0 .. Cycles] /\ tensor' \in [Nodes -> [Slices(strategy) -> Slice]]
    BY DEF TInv, NodeTypes
  <2> QED BY <2>1, LabelStep DEF TInv
<1> QED BY <1>1 DEF TInv, SyncTypes

LEMMA EndGatherT ==
    ASSUME TInv, NEW n \in Nodes, EndGather(n)
    PROVE  /\ TInv' /\ strategy # "ring"
           /\ \/ /\ ParentsOf(strategy, n) # {} /\ Goto(n, "offer")
                 /\ upload'[n] = Upload(0, tensor[n][0], 1)
                 /\ \A m \in Nodes \ {n} : upload'[m] = upload[m]
              \/ ParentsOf(strategy, n) = {} /\ Goto(n, "give") /\ UNCHANGED upload
           /\ tensor[n][0] \in Slice
<1>1. /\ pc[n] = "gather" /\ UNCHANGED <<strategy, round, cycle, tensor, exposed, request, syncVars>>
      /\ \/ /\ ParentsOf(strategy, n) # {} /\ Goto(n, "offer")
            /\ upload' = [upload EXCEPT ![n] = Upload(0, tensor[n][0], 1)]
         \/ ParentsOf(strategy, n) = {} /\ Goto(n, "give") /\ UNCHANGED upload
  BY DEF EndGather
<1>2. /\ strategy # "ring" /\ round[n] < MaxRounds /\ tensor[n][0] \in Slice
      /\ {"offer", "give"} \subseteq Labels
      /\ syncer' \in [Nodes -> {"none", "check", "missed", "wait"}]
  BY <1>1, TreeTensorIs DEF TInv, LabelsFit, Labels, SyncTypes, syncVars
<1>3. Upload(0, tensor[n][0], 1) \in FullUploads
  BY <1>2, UploadIs
<1>4. DataTypes'
  <2>1. CASE UNCHANGED upload
    BY <1>1, <2>1 DEF TInv, DataTypes
  <2>2. CASE upload' = [upload EXCEPT ![n] = Upload(0, tensor[n][0], 1)]
    BY <1>1, <1>3, <2>2, UploadStep DEF TInv
  <2> QED BY <1>1, <2>1, <2>2
<1>5. TInv'
  <2>1. UNCHANGED <<strategy, round, cycle, tensor, syncing, notices>>
    BY <1>1 DEF syncVars
  <2>2. CASE Goto(n, "offer")
    BY <1>2, <1>4, <2>1, <2>2, TreeLabelT
  <2>3. CASE Goto(n, "give")
    BY <1>2, <1>4, <2>1, <2>3, TreeLabelT
  <2> QED BY <1>1, <2>2, <2>3
<1>6. upload' = [upload EXCEPT ![n] = Upload(0, tensor[n][0], 1)] =>
         /\ upload'[n] = Upload(0, tensor[n][0], 1)
         /\ \A m \in Nodes \ {n} : upload'[m] = upload[m]
  BY DEF TInv, DataTypes
<1> QED BY <1>1, <1>2, <1>5, <1>6

LEMMA AskParentT ==
    ASSUME TInv, NEW n \in Nodes, NEW p \in Nodes, AskParent(n, p)
    PROVE  /\ TInv' /\ strategy # "ring"
           /\ request'[n][p] = Asked(1)
           /\ \A d, m \in Nodes : (d # n \/ m # p) => request'[d][m] = request[d][m]
<1>1. /\ pc[n] = "offer" /\ Goto(n, "receive")
      /\ request' = [request EXCEPT ![n][p] = Asked(1)]
      /\ UNCHANGED <<strategy, round, cycle, tensor, exposed, upload, syncVars>>
  BY DEF AskParent
<1>2. /\ strategy # "ring" /\ round[n] < MaxRounds /\ "receive" \in Labels
      /\ syncer' \in [Nodes -> {"none", "check", "missed", "wait"}]
      /\ UNCHANGED <<strategy, round, cycle, tensor, syncing, notices>>
  BY <1>1 DEF TInv, LabelsFit, Labels, SyncTypes, syncVars
<1>3. /\ DataTypes' /\ request'[n][p] = Asked(1)
      /\ \A d, m \in Nodes : (d # n \/ m # p) => request'[d][m] = request[d][m]
  <2> DEFINE r == Asked(1)
  <2>1. /\ request' = [request EXCEPT ![n][p] = r] /\ r \in {NoRequest} \cup OpenRequests
        /\ UNCHANGED <<exposed, upload>> /\ DataTypes
    BY <1>1, AskedIs DEF TInv
  <2> HIDE DEF r
  <2>2. DataTypes'
    BY <2>1, RequestStep
  <2>3. /\ request'[n][p] = r
        /\ \A d, m \in Nodes : (d # n \/ m # p) => request'[d][m] = request[d][m]
    BY <2>1 DEF DataTypes
  <2> QED BY <2>2, <2>3 DEF r
<1>4. TInv'
  BY <1>1, <1>2, <1>3, TreeLabelT
<1> QED BY <1>2, <1>3, <1>4

LEMMA GiveT ==
    ASSUME TInv, NEW n \in Nodes, Give(n)
    PROVE  /\ TInv' /\ strategy # "ring" /\ tensor[n][0] \in Slice
           /\ \/ /\ Children(strategy, n) # {} \/ (strategy = "centralized" /\ n = Central)
                 /\ Goto(n, "given")
                 /\ upload'[n] = Upload(1, tensor[n][0], Cardinality(Children(strategy, n)))
                 /\ \A m \in Nodes \ {n} : upload'[m] = upload[m]
              \/ /\ Children(strategy, n) = {} /\ ~(strategy = "centralized" /\ n = Central)
                 /\ Goto(n, "sync") /\ UNCHANGED upload
<1> DEFINE u == Upload(1, tensor[n][0], Cardinality(Children(strategy, n)))
<1>1. /\ pc[n] = "give" /\ UNCHANGED <<strategy, round, cycle, tensor, exposed, request, syncVars>>
      /\ \/ /\ Children(strategy, n) # {} \/ (strategy = "centralized" /\ n = Central)
            /\ Goto(n, "given") /\ upload' = [upload EXCEPT ![n] = u]
         \/ /\ Children(strategy, n) = {} /\ ~(strategy = "centralized" /\ n = Central)
            /\ Goto(n, "sync") /\ UNCHANGED upload
  BY DEF Give
<1>2. /\ strategy # "ring" /\ round[n] < MaxRounds /\ tensor[n][0] \in Slice
      /\ {"given", "sync"} \subseteq Labels
      /\ syncer' \in [Nodes -> {"none", "check", "missed", "wait"}]
  BY <1>1, TreeTensorIs DEF TInv, LabelsFit, Labels, SyncTypes, syncVars
<1>3. u \in FullUploads
  BY <1>2, UploadIs, ChildrenFinite
<1> HIDE DEF u
<1>4. DataTypes'
  <2>1. CASE UNCHANGED upload
    BY <1>1, <2>1 DEF TInv, DataTypes
  <2>2. CASE upload' = [upload EXCEPT ![n] = u]
    BY <1>1, <1>3, <2>2, UploadStep DEF TInv
  <2> QED BY <1>1, <2>1, <2>2
<1>5. TInv'
  <2>1. UNCHANGED <<strategy, round, cycle, tensor, syncing, notices>>
    BY <1>1 DEF syncVars
  <2>2. CASE Goto(n, "given")
    BY <1>2, <1>4, <2>1, <2>2, TreeLabelT
  <2>3. CASE Goto(n, "sync")
    BY <1>2, <1>4, <2>1, <2>3, TreeLabelT
  <2> QED BY <1>1, <2>2, <2>3
<1>6. upload' = [upload EXCEPT ![n] = u] =>
         upload'[n] = u /\ \A m \in Nodes \ {n} : upload'[m] = upload[m]
  BY DEF TInv, DataTypes
<1> USE DEF u
<1> QED BY <1>1, <1>2, <1>5, <1>6

LEMMA EndGiveT ==
    ASSUME TInv, NEW n \in Nodes, EndGive(n)
    PROVE  TInv' /\ strategy # "ring"
<1>1. /\ pc[n] = "given" /\ Goto(n, "sync")
      /\ UNCHANGED <<strategy, round, cycle, tensor, dataVars, syncVars>>
  BY DEF EndGive
<1>2. /\ strategy # "ring" /\ round[n] < MaxRounds /\ "sync" \in Labels /\ DataTypes'
      /\ syncer' \in [Nodes -> {"none", "check", "missed", "wait"}]
      /\ UNCHANGED <<strategy, round, cycle, tensor, syncing, notices>>
  BY <1>1 DEF TInv, LabelsFit, Labels, SyncTypes, syncVars, DataTypes, dataVars
<1> QED BY <1>1, <1>2, TreeLabelT

LEMMA SyncT ==
    ASSUME TInv, NEW n \in Nodes, Sync(n)
    PROVE  TInv'
<1>1. /\ pc[n] = "sync" /\ Goto(n, "barrier")
      /\ syncing' = [syncing EXCEPT ![n][n] = syncing[n][n] + 1]
      /\ notices' = notices \cup {Notice(n, m, round[n] + 1) : m \in Nodes \ {n}}
      /\ syncer' = [syncer EXCEPT ![n] = "check"]
      /\ UNCHANGED <<strategy, round, cycle, tensor, dataVars>>
  BY DEF Sync, StartSync
<1>2. round[n] < MaxRounds /\ "barrier" \in Labels /\ round[n] \in Nat
      /\ round[n] + 1 \in 1 .. MaxRounds
  BY <1>1, RoundsAssumption DEF TInv, LabelsFit, Labels, NodeTypes
<1>3. NodeTypes' /\ LabelsFit'
  <2>1. /\ cycle' \in [Nodes -> 0 .. Cycles] /\ tensor' \in [Nodes -> [Slices(strategy) -> Slice]]
        /\ UNCHANGED <<strategy, round>>
    BY <1>1 DEF TInv, NodeTypes
  <2>2. \A m \in Nodes \ {n} : cycle'[m] = cycle[m]
    BY <1>1
  <2> QED BY <1>1, <1>2, <2>1, <2>2, LabelStep DEF TInv
<1>4. SyncTypes'
  <2>1. syncing' \in [Nodes -> [Nodes -> Nat]] /\ syncer' \in [Nodes -> {"none", "check", "missed", "wait"}]
    BY <1>1 DEF TInv, SyncTypes
  <2>2. \A m \in Nodes : Notice(n, m, round[n] + 1) \in [from : Nodes, to : Nodes, nth : 1 .. MaxRounds]
    BY <1>2 DEF Notice
  <2> QED BY <1>1, <2>1, <2>2 DEF TInv, SyncTypes
<1> QED BY <1>1, <1>3, <1>4 DEF TInv, DataTypes, dataVars

LEMMA ReturnT ==
    ASSUME TInv, NEW n \in Nodes, Return(n)
    PROVE  TInv'
<1>1. /\ pc[n] = "barrier" /\ pc' = [pc EXCEPT ![n] = "idle"]
      /\ round' = [round EXCEPT ![n] = round[n] + 1]
      /\ syncer' = [syncer EXCEPT ![n] = "none"]
      /\ UNCHANGED <<strategy, cycle, tensor, dataVars, syncing, notices>>
  BY DEF Return, EndSync, Goto
<1>2. round[n] + 1 \in 0 .. MaxRounds /\ "idle" \in Labels
  BY <1>1, RoundsAssumption DEF TInv, LabelsFit, NodeTypes, Labels
<1>3. NodeTypes'
  BY <1>1, <1>2 DEF TInv, NodeTypes
<1>4. LabelsFit'
  BY <1>1 DEF TInv, LabelsFit, NodeTypes
<1>5. SyncTypes'
  BY <1>1 DEF TInv, SyncTypes
<1> QED BY <1>1, <1>3, <1>4, <1>5 DEF TInv, DataTypes, dataVars

LEMMA DataStepT ==
    ASSUME TInv, DataStep, UNCHANGED <<nodeVars, syncVars>>
    PROVE  TInv'
<1>1. DataTypes'
  <2>1. ASSUME NEW s \in Nodes, Insert(s) PROVE DataTypes'
    BY <2>1, InsertIs DEF TInv
  <2>2. ASSUME NEW s \in Nodes, NotifyTensor(s) PROVE DataTypes'
    BY <2>2, NotifyIs DEF TInv
  <2>3. ASSUME NEW c \in Nodes, NEW s \in Nodes, Serve(c, s) PROVE DataTypes'
    BY <2>3, ServeIs DEF TInv
  <2>4. ASSUME NEW c \in Nodes, NEW s \in Nodes, Miss(c, s) \/ Await(c, s) PROVE DataTypes'
    BY <2>4, MissIs DEF TInv
  <2> QED BY <2>1, <2>2, <2>3, <2>4 DEF DataStep
<1> QED BY <1>1 DEF TInv, NodeTypes, SyncTypes, LabelsFit, nodeVars, syncVars

LEMMA SyncStepT ==
    ASSUME TInv, SyncStep, UNCHANGED <<nodeVars, dataVars>>
    PROVE  TInv'
<1>1. SyncTypes'
  <2>1. ASSUME NEW n \in Nodes, MissPeer(n) \/ AwaitPeer(n) PROVE SyncTypes'
    BY <2>1 DEF MissPeer, AwaitPeer, TInv, SyncTypes
  <2>2. ASSUME NEW m \in notices, AddPeer(m) PROVE SyncTypes'
    <3>1. m.from \in Nodes /\ m.to \in Nodes
      BY DEF TInv, SyncTypes
    <3>2. /\ syncing' = [syncing EXCEPT ![m.to][m.from] = syncing[m.to][m.from] + 1]
          /\ notices' = notices \ {m}
          /\ syncer' = [syncer EXCEPT ![m.to] = IF syncer[m.to] = "wait" THEN "check" ELSE syncer[m.to]]
      BY <2>2 DEF AddPeer
    <3>3. syncing' \in [Nodes -> [Nodes -> Nat]]
      BY <3>1, <3>2 DEF TInv, SyncTypes
    <3>4. syncer' \in [Nodes -> {"none", "check", "missed", "wait"}]
      BY <3>1, <3>2 DEF TInv, SyncTypes
    <3> QED BY <3>2, <3>3, <3>4 DEF TInv, SyncTypes
  <2> QED BY <2>1, <2>2 DEF SyncStep
<1> QED BY <1>1 DEF TInv, NodeTypes, DataTypes, LabelsFit, nodeVars, dataVars

LEMMA NextTInv == TInv /\ [Next]_vars => TInv'
<1> SUFFICES ASSUME TInv, [Next]_vars PROVE TInv'
  OBVIOUS
<1>1. ASSUME NEW n \in Nodes, BeginRing(n) \/ FailRing(n) \/ StartCycle(n) \/ EndCycle(n)
      PROVE  TInv'
  BY <1>1, BeginRingT, FailRingT, StartCycleT, EndCycleT
<1>2. ASSUME NEW n \in Nodes, BeginTree(n) \/ EndGather(n) \/ Give(n) \/ EndGive(n) PROVE TInv'
  BY <1>2, BeginTreeT, EndGatherT, GiveT, EndGiveT
<1>3. ASSUME NEW n \in Nodes, NEW m \in Nodes, Gather(n, m) \/ AskParent(n, m) \/ Receive(n, m)
      PROVE  TInv'
  BY <1>3, GatherT, AskParentT, ReceiveT
<1>4. ASSUME NEW n \in Nodes, Sync(n) \/ Return(n) PROVE TInv'
  BY <1>4, SyncT, ReturnT
<1>5. CASE DataStep /\ UNCHANGED <<nodeVars, syncVars>>
  BY <1>5, DataStepT
<1>6. CASE SyncStep /\ UNCHANGED <<nodeVars, dataVars>>
  BY <1>6, SyncStepT
<1>7. CASE UNCHANGED vars
  BY <1>7 DEF TInv, NodeTypes, DataTypes, SyncTypes, LabelsFit, vars, nodeVars, dataVars, syncVars
<1> QED BY <1>1, <1>2, <1>3, <1>4, <1>5, <1>6, <1>7 DEF Next

(* The variables have the types of GlobalAllReduce, whatever the strategy, *)
(* the number of nodes and of all-reduces: a slice is only ever indexed    *)
(* with the slices of the tensor, and cycles end where they should.        *)
THEOREM TypesAlwaysCorrect == Spec => []TypeOK
<1>1. TInv => TypeOK
  <2> SUFFICES ASSUME TInv PROVE TypeOK
    OBVIOUS
  <2>1. ASSUME NEW s \in Nodes
        PROVE  /\ DOMAIN exposed[s] \subseteq Nat
               /\ \A i \in DOMAIN exposed[s] : exposed[s][i] \in [tensor : Slice, max : Nat, count : Nat]
    BY TableIs DEF TInv, DataTypes, Entry
  <2>2. ASSUME NEW s \in Nodes
        PROVE  /\ upload[s] = NoUpload
                  \/ upload[s] \in [phase : {"insert", "notify"}, id : Nat, tensor : Slice, max : Nat]
               /\ \A c \in Nodes :
                     request[c][s] \in {NoRequest}
                         \cup [phase : {"check", "missed", "wait"}, id : Nat]
                         \cup [phase : {"reply"}, tensor : Slice]
    BY DEF TInv, DataTypes, FullUploads, OpenRequests, Replies, Waiting
  <2> QED BY <2>1, <2>2 DEF TInv, NodeTypes, SyncTypes, TypeOK
<1> QED BY <1>1, InitTInv, NextTInv, PTL DEF Spec

-----------------------------------------------------------------------------
(* The ring.                                                               *)

(* The sum of the inputs some nodes have in the all-reduce node n is in. *)
Total(n, nodes) == SumOf({round[n] + 1} \X nodes)

(* How many slices a node has received, and sent, in the ring all-reduce   *)
(* it is in; that it has those of a cycle of a given all-reduce.           *)
Got(n) ==
    IF pc[n] = "cycle" THEN cycle[n]
    ELSE IF pc[n] = "transfer"
         THEN cycle[n] + (IF request[n][Previous(n)].phase = "reply" THEN 1 ELSE 0)
    ELSE IF pc[n] \in {"sync", "barrier"} THEN Cycles ELSE 0

Sent(n) ==
    IF pc[n] = "cycle" THEN cycle[n]
    ELSE IF pc[n] = "transfer" THEN cycle[n] + (IF upload[n].phase = "insert" THEN 0 ELSE 1)
    ELSE IF pc[n] \in {"sync", "barrier"} THEN Cycles ELSE 0

HasGot(n, k, r) == round[n] > r \/ (round[n] = r /\ k < Got(n))

HasSent(n, k, r) == round[n] > r \/ (round[n] = r /\ k < Sent(n))

(* The nodes whose inputs are in the slice that a node sends in cycle k, ... *)
SentNodes(n, k) ==
    IF k < N THEN {x \in Nodes : Dist(SendSlice(n, k), x) <= k} ELSE Nodes

(* ... and in its slice s before cycle k. *)
SliceNodes(n, s, k) ==
    IF k < Dist(s, n) THEN {n}
    ELSE IF k < N + Dist(s, n) THEN {x \in Nodes : Dist(s, x) <= Dist(s, n)} ELSE Nodes

RingNode(n) ==
    /\ upload[n].phase # "none" =>
          /\ pc[n] = "transfer" /\ upload[n].id = cycle[n] /\ upload[n].max = 1
          /\ upload[n].tensor = Total(n, SentNodes(n, cycle[n]))
    /\ \A m \in Nodes : request[n][m].phase # "none" =>
          /\ pc[n] = "transfer" /\ m = Previous(n)
          /\ request[n][m].phase # "reply" => request[n][m].id = cycle[n]
          /\ request[n][m].phase = "reply" =>
                request[n][m].tensor = Total(n, SentNodes(m, cycle[n]))
    /\ pc[n] \in {"cycle", "transfer"} =>
          \A s \in Nodes : tensor[n][s] = Total(n, SliceNodes(n, s, cycle[n]))
    /\ pc[n] \in {"sync", "barrier"} =>
          \A s \in Nodes : tensor[n][s] = Total(n, Nodes)

(* A slice is received after it has been sent. *)
RingOrder ==
    \A n \in Nodes, k \in 0 .. Cycles - 1, r \in Nat :
        HasGot(n, k, r) => HasSent(Previous(n), k, r)

(* What is exposed is of this all-reduce and has not been downloaded. *)
RingExposed ==
    \A n \in Nodes : \A k \in DOMAIN exposed[n] :
        /\ k \in 0 .. Cycles - 1
        /\ exposed[n][k] = [tensor |-> Total(n, SentNodes(n, k)), max |-> 1, count |-> 0]
        /\ HasSent(n, k, round[n])
        /\ \A m \in Nodes : n = Previous(m) => ~HasGot(m, k, round[n])

RingInv == RingOrder /\ RingExposed /\ \A n \in Nodes : RingNode(n)

(* Steps of a node after which it has received and sent as much as before. *)
LEMMA RingStep ==
    ASSUME RingInv, NEW n \in Nodes, RingNode(n)', UNCHANGED <<round, exposed>>,
           Got(n)' = Got(n), Sent(n)' = Sent(n),
           \A m \in Nodes \ {n} :
               /\ pc'[m] = pc[m] /\ cycle'[m] = cycle[m] /\ tensor'[m] = tensor[m]
               /\ upload'[m] = upload[m] /\ request'[m] = request[m]
    PROVE  RingInv'
<1>1. \A m \in Nodes : Got(m)' = Got(m) /\ Sent(m)' = Sent(m)
  BY DEF Got, Sent
<1>2. \A m \in Nodes : \A k, r : HasGot(m, k, r)' = HasGot(m, k, r) /\ HasSent(m, k, r)' = HasSent(m, k, r)
  BY <1>1 DEF HasGot, HasSent
<1>3. RingOrder'
  BY <1>2, PreviousIs DEF RingInv, RingOrder
<1>4. \A m \in Nodes : \A X : Total(m, X)' = Total(m, X)
  BY DEF Total
<1>5. RingExposed'
  BY <1>2, <1>4, PreviousIs DEF RingInv, RingExposed
<1>6. ASSUME NEW m \in Nodes \ {n} PROVE RingNode(m)'
  BY <1>4, <1>6 DEF RingInv, RingNode
<1> QED BY <1>3, <1>5, <1>6 DEF RingInv

LEMMA DistIs ==
    ASSUME NEW s \in Nodes, NEW n \in Nodes
    PROVE  /\ Dist(s, n) \in Nat /\ Dist(s, n) < N
           /\ Dist(s, n) = 0 <=> s = n
           /\ \A t \in Nodes : Dist(t, n) = Dist(s, n) => t = s
           /\ \A x \in Nodes : Dist(s, x) = Dist(s, n) => x = n
BY TopologyAssumption DEF Nodes, Dist

(* Sums of different inputs add up. *)
LEMMA SumsAddUp ==
    ASSUME NEW X, NEW Y, X \cap Y = {}
    PROVE  Plus(SumOf(X), SumOf(Y)) = SumOf(X \cup Y)
<1>1. ASSUME NEW i \in Inputs
      PROVE  SumOf(X)[i] + SumOf(Y)[i] = SumOf(X \cup Y)[i]
  BY DEF SumOf
<1> QED BY <1>1 DEF Plus, SumOf

LEMMA TotalsAddUp ==
    ASSUME NEW n \in Nodes, NEW X, NEW Y, X \cap Y = {}
    PROVE  Plus(Total(n, X), Total(n, Y)) = Total(n, X \cup Y)
<1> DEFINE A == {round[n] + 1} \X X
           B == {round[n] + 1} \X Y
<1>1. A \cap B = {}
  OBVIOUS
<1>2. A \cup B = {round[n] + 1} \X (X \cup Y)
  OBVIOUS
<1> HIDE DEF A, B
<1>3. Plus(SumOf(A), SumOf(B)) = SumOf(A \cup B)
  BY <1>1, SumsAddUp
<1> QED BY <1>2, <1>3 DEF Total, A, B

(* What a node sends is what it has. *)
LEMMA SendsWhatItHas ==
    ASSUME NEW n \in Nodes, NEW k \in Nat, k < Cycles
    PROVE  SliceNodes(n, SendSlice(n, k), k) = SentNodes(n, k)
<1> DEFINE s == SendSlice(n, k)
<1>1. s \in Nodes /\ Dist(s, n) = IF k < N THEN k ELSE k - N
  BY SliceDistances
<1>2. N \in Nat /\ N > 0 /\ k < 2 * N - 2
  BY TopologyAssumption DEF Cycles
<1> HIDE DEF s
<1>3. SliceNodes(n, s, k) = IF k < N THEN {x \in Nodes : Dist(s, x) <= k} ELSE Nodes
  <2>1. CASE k < N
    <3>1. Dist(s, n) = k /\ ~(k < k) /\ k < N + k
      BY <1>1, <1>2, <2>1
    <3> QED BY <2>1, <3>1 DEF SliceNodes
  <2>2. CASE k >= N
    <3>1. ~(k < Dist(s, n)) /\ ~(k < N + Dist(s, n)) /\ ~(k < N)
      BY <1>1, <1>2, <2>2
    <3> QED BY <3>1 DEF SliceNodes
  <2> QED BY <1>2, <2>1, <2>2
<1> USE DEF s
<1> QED BY <1>3 DEF SentNodes

(* In a cycle a slice gets as many nodes as it is said to, and the others  *)
(* stay as they are.                                                       *)
LEMMA OtherSlicesStay ==
    ASSUME NEW n \in Nodes, NEW k \in Nat, k < Cycles, NEW s \in Nodes, s # RecvSlice(n, k)
    PROVE  SliceNodes(n, s, k + 1) = SliceNodes(n, s, k)
<1> DEFINE r == RecvSlice(n, k)
<1>1. r \in Nodes /\ Dist(r, n) = IF k < N - 1 THEN k + 1 ELSE k - (N - 1)
  BY SliceDistances
<1>2. N \in Nat /\ N > 0 /\ k < 2 * N - 2
  BY TopologyAssumption DEF Cycles
<1>3. Dist(s, n) \in Nat /\ Dist(s, n) < N /\ Dist(s, n) # Dist(r, n)
  BY <1>1, DistIs
<1> HIDE DEF r
<1>4. (k < Dist(s, n) <=> k + 1 < Dist(s, n)) /\ (k < N + Dist(s, n) <=> k + 1 < N + Dist(s, n))
  BY <1>1, <1>2, <1>3
<1> QED BY <1>4 DEF SliceNodes

LEMMA ReceivedSlice ==
    ASSUME NEW n \in Nodes, NEW k \in Nat, k < Cycles
    PROVE  LET s == RecvSlice(n, k)
               X == SentNodes(Previous(n), k)
           IN  /\ k < N - 1 => /\ SliceNodes(n, s, k) \cap X = {}
                               /\ SliceNodes(n, s, k + 1) = SliceNodes(n, s, k) \cup X
               /\ k >= N - 1 => SliceNodes(n, s, k + 1) = X
<1> DEFINE s == RecvSlice(n, k)
           X == SentNodes(Previous(n), k)
<1>1. s \in Nodes /\ Dist(s, n) = IF k < N - 1 THEN k + 1 ELSE k - (N - 1)
  BY SliceDistances
<1>2. N \in Nat /\ N > 0 /\ k < 2 * N - 2
  BY TopologyAssumption DEF Cycles
<1>3. X = IF k < N THEN {x \in Nodes : Dist(s, x) <= k} ELSE Nodes
  BY SliceDistances DEF SentNodes
<1> HIDE DEF s, X
<1>4. \A x \in Nodes : Dist(s, x) \in Nat /\ Dist(s, x) < N /\ (Dist(s, x) = Dist(s, n) => x = n)
  BY <1>1, DistIs
<1>5. CASE k < N - 1
  <2>1. SliceNodes(n, s, k) = {n}
    BY <1>1, <1>2, <1>5 DEF SliceNodes
  <2>2. SliceNodes(n, s, k + 1) = {x \in Nodes : Dist(s, x) <= k + 1}
    BY <1>1, <1>2, <1>5 DEF SliceNodes
  <2>3. X = {x \in Nodes : Dist(s, x) <= k}
    BY <1>2, <1>3, <1>5
  <2>4. \A x \in Nodes : Dist(s, x) <= k + 1 <=> (Dist(s, x) <= k \/ x = n)
    BY <1>1, <1>4, <1>5
  <2>5. ~(Dist(s, n) <= k)
    BY <1>1, <1>5
  <2> QED BY <1>5, <2>1, <2>2, <2>3, <2>4, <2>5, <1>2 DEF s, X
<1>6. CASE k >= N - 1
  <2>1. SliceNodes(n, s, k + 1) = Nodes
    BY <1>1, <1>2, <1>6 DEF SliceNodes
  <2>2. X = Nodes
    BY <1>2, <1>3, <1>4, <1>6
  <2> QED BY <1>2, <1>6, <2>1, <2>2 DEF s, X
<1> QED BY <1>2, <1>5, <1>6 DEF s, X

(* After the last cycle all slices are complete. *)
LEMMA AllSlicesComplete ==
    ASSUME NEW n \in Nodes, NEW s \in Nodes
    PROVE  SliceNodes(n, s, Cycles) = Nodes
<1>1. N \in Nat /\ N > 0 /\ Cycles = 2 * N - 2
  BY TopologyAssumption DEF Cycles
<1>2. /\ Dist(s, n) \in Nat /\ Dist(s, n) < N
      /\ \A x \in Nodes : Dist(s, x) \in Nat /\ Dist(s, x) < N
  BY DistIs
<1>3. CASE Dist(s, n) = N - 1
  BY <1>1, <1>2, <1>3 DEF SliceNodes
<1>4. CASE Dist(s, n) < N - 1
  BY <1>1, <1>2, <1>4 DEF SliceNodes
<1> QED BY <1>1, <1>2, <1>3, <1>4

LEMMA OwnSlice ==
    ASSUME NEW n \in Nodes, NEW s \in Nodes
    PROVE  SliceNodes(n, s, 0) = {n}
<1>1. N \in Nat /\ N > 0 /\ Dist(s, n) \in Nat /\ (Dist(s, n) = 0 => s = n)
      /\ \A x \in Nodes : Dist(s, x) \in Nat /\ (Dist(s, x) = Dist(s, n) <=> x = n)
  BY DistIs, TopologyAssumption
<1>2. CASE Dist(s, n) > 0
  BY <1>1, <1>2 DEF SliceNodes
<1>3. CASE Dist(s, n) = 0
  BY <1>1, <1>3 DEF SliceNodes
<1> QED BY <1>1, <1>2, <1>3

-----------------------------------------------------------------------------
LEMMA NoTransfer ==
    ASSUME TInv, RingInv, NEW n \in Nodes, pc[n] # "transfer"
    PROVE  upload[n].phase = "none" /\ \A m \in Nodes : request[n][m].phase = "none"
BY DEF RingInv, RingNode

LEMMA BeginRingR ==
    ASSUME TInv, RingInv, NEW n \in Nodes, BeginRing(n)
    PROVE  RingInv'
<1>1. /\ pc[n] = "idle" /\ round[n] < MaxRounds /\ strategy = "ring"
      /\ tensor' = [tensor EXCEPT ![n] = [k \in Slices(strategy) |-> SumOf({<<round[n] + 1, n>>})]]
      /\ cycle' = [cycle EXCEPT ![n] = 0]
      /\ pc' = [pc EXCEPT ![n] = CycleLabel(0)]
      /\ UNCHANGED <<round, exposed, upload, request>>
  BY DEF BeginRing, Goto, dataVars
<1>2. /\ pc'[n] = CycleLabel(0) /\ cycle'[n] = 0
      /\ \A s \in Nodes : tensor'[n][s] = SumOf({<<round[n] + 1, n>>})
      /\ \A m \in Nodes \ {n} : pc'[m] = pc[m] /\ cycle'[m] = cycle[m] /\ tensor'[m] = tensor[m]
  BY <1>1 DEF TInv, NodeTypes, Slices
<1>3. /\ Cycles \in Nat /\ N \in Nat /\ N > 0
      /\ (CycleLabel(0) = "cycle" /\ Cycles > 0)
         \/ (CycleLabel(0) = "sync" /\ Cycles = 0 /\ N = 1)
  BY TopologyAssumption DEF Cycles, CycleLabel
<1>4. Got(n)' = Got(n) /\ Sent(n)' = Sent(n)
  BY <1>1, <1>2, <1>3 DEF Got, Sent
<1>5. SumOf({<<round[n] + 1, n>>}) = Total(n, {n})'
  <2>1. {<<round[n] + 1, n>>} = {round[n] + 1} \X {n}
    OBVIOUS
  <2> QED BY <1>1, <2>1 DEF Total
<1>6. pc'[n] = "cycle" => \A s \in Nodes : tensor'[n][s] = Total(n, SliceNodes(n, s, cycle[n]))'
  <2>1. \A s \in Nodes : SliceNodes(n, s, cycle[n])' = {n}
    BY <1>2, OwnSlice DEF SliceNodes
  <2> QED BY <1>2, <1>5, <2>1 DEF Total
<1>7. pc'[n] = "sync" => \A s \in Nodes : tensor'[n][s] = Total(n, Nodes)'
  <2>1. N = 1 => Nodes = {n}
    BY DEF Nodes
  <2> QED BY <1>2, <1>3, <1>5, <2>1
<1>8. RingNode(n)'
  <2>1. upload'[n].phase = "none" /\ \A m \in Nodes : request'[n][m].phase = "none"
    BY <1>1, NoTransfer
  <2> QED BY <1>2, <1>3, <1>6, <1>7, <2>1 DEF RingNode
<1> QED BY <1>1, <1>2, <1>4, <1>8, RingStep

LEMMA FailRingR ==
    ASSUME TInv, RingInv, NEW n \in Nodes, FailRing(n)
    PROVE  RingInv'
<1>1. /\ pc[n] = "idle" /\ pc'[n] \in {"idle", "panicked"}
      /\ \A m \in Nodes \ {n} : pc'[m] = pc[m]
      /\ UNCHANGED <<round, cycle, tensor, exposed, upload, request>>
  BY DEF FailRing, Goto, dataVars, TInv, NodeTypes
<1>2. Got(n)' = Got(n) /\ Sent(n)' = Sent(n)
  BY <1>1 DEF Got, Sent
<1>3. RingNode(n)'
  BY <1>1, NoTransfer DEF RingNode
<1> QED BY <1>1, <1>2, <1>3, RingStep

LEMMA StartCycleR ==
    ASSUME TInv, RingInv, NEW n \in Nodes, StartCycle(n)
    PROVE  RingInv'
<1> DEFINE k == cycle[n]
           s == SendSlice(n, k)
           p == Previous(n)
<1>1. /\ pc[n] = "cycle" /\ pc' = [pc EXCEPT ![n] = "transfer"]
      /\ UNCHANGED <<round, cycle, tensor, exposed>>
  BY DEF StartCycle, Goto
<1>2. /\ k \in Nat /\ k < Cycles /\ tensor[n][s] \in Slice
      /\ upload'[n] = Upload(k, tensor[n][s], 1) /\ request'[n][p] = Asked(k)
      /\ \A m \in Nodes \ {n} : upload'[m] = upload[m]
      /\ \A d, m \in Nodes : (d # n \/ m # p) => request'[d][m] = request[d][m]
      /\ TInv'
  BY StartCycleT
<1>3. /\ pc'[n] = "transfer" /\ \A m \in Nodes \ {n} : pc'[m] = pc[m]
      /\ s \in Nodes /\ p \in Nodes
  BY <1>1, <1>2, PreviousIs, SliceDistances DEF TInv, NodeTypes
<1>4. /\ upload'[n].phase = "insert" /\ upload'[n].id = k /\ upload'[n].max = 1
      /\ upload'[n].tensor = tensor[n][s]
      /\ request'[n][p].phase = "check" /\ request'[n][p].id = k
  BY <1>2, UploadIs, AskedIs
<1>5. Got(n)' = Got(n) /\ Sent(n)' = Sent(n)
  BY <1>1, <1>2, <1>3, <1>4 DEF Got, Sent
<1>6. tensor[n][s] = Total(n, SentNodes(n, k)) /\ \A X : Total(n, X)' = Total(n, X)
  <2>1. \A t \in Nodes : tensor[n][t] = Total(n, SliceNodes(n, t, k))
    BY <1>1 DEF RingInv, RingNode
  <2> QED BY <1>1, <1>2, <1>3, <2>1, SendsWhatItHas DEF Total
<1>7. \A m \in Nodes \ {p} : request'[n][m].phase = "none"
  BY <1>1, <1>2, NoTransfer
<1>8. \A t \in Nodes : tensor'[n][t] = Total(n, SliceNodes(n, t, cycle[n]))'
  BY <1>1, <1>6 DEF RingInv, RingNode
<1> HIDE DEF k, s, p
<1>9. RingNode(n)'
  <2>1. cycle'[n] = k /\ Previous(n) = p
    BY <1>1 DEF k, p
  <2>2. upload'[n].tensor = Total(n, SentNodes(n, cycle[n]))'
    BY <1>4, <1>6, <2>1
  <2> QED BY <1>3, <1>4, <1>7, <1>8, <2>1, <2>2 DEF RingNode
<1>10. \A m \in Nodes \ {n} : request'[m] = request[m]
  BY <1>2 DEF TInv, DataTypes
<1> QED BY <1>1, <1>2, <1>3, <1>5, <1>9, <1>10, RingStep

LEMMA EndCycleR ==
    ASSUME TInv, RingInv, NEW n \in Nodes, EndCycle(n)
    PROVE  RingInv'
<1> DEFINE k == cycle[n]
           s == RecvSlice(n, k)
           p == Previous(n)
           X == SentNodes(p, k)
<1>1. /\ pc[n] = "transfer" /\ pc' = [pc EXCEPT ![n] = CycleLabel(k + 1)]
      /\ upload[n].phase = "none"
      /\ UNCHANGED <<round, exposed, upload>>
  BY DEF EndCycle, Goto
<1>2. /\ TInv' /\ k \in Nat /\ k < Cycles /\ request[n][p].phase = "reply"
      /\ tensor'[n][s] = Received(k, tensor[n][s], request[n][p].tensor)
      /\ \A m, t \in Nodes : (m # n \/ t # s) => tensor'[m][t] = tensor[m][t]
      /\ cycle'[n] = k + 1 /\ \A m \in Nodes \ {n} : cycle'[m] = cycle[m]
      /\ request'[n][p] = NoRequest
      /\ \A d, m \in Nodes : (d # n \/ m # p) => request'[d][m] = request[d][m]
      /\ strategy = "ring"
  BY EndCycleT
<1>3. /\ pc'[n] = CycleLabel(k + 1) /\ \A m \in Nodes \ {n} : pc'[m] = pc[m]
      /\ s \in Nodes /\ p \in Nodes
      /\ \/ CycleLabel(k + 1) = "cycle"
         \/ CycleLabel(k + 1) = "sync" /\ k + 1 = Cycles
  <2>1. Cycles \in Nat
    BY TopologyAssumption DEF Cycles
  <2> QED BY <1>1, <1>2, <2>1, PreviousIs, SliceDistances DEF TInv, NodeTypes, CycleLabel
<1>4. Got(n)' = Got(n) /\ Sent(n)' = Sent(n)
  BY <1>1, <1>2, <1>3 DEF Got, Sent
<1>5. \A Y : Total(n, Y)' = Total(n, Y)
  BY <1>1 DEF Total
<1>6. /\ \A t \in Nodes : tensor[n][t] = Total(n, SliceNodes(n, t, k))
      /\ request[n][p].tensor = Total(n, X)
      /\ \A m \in Nodes \ {p} : request[n][m].phase = "none"
  BY <1>1, <1>2, <1>3 DEF RingInv, RingNode
<1>7. tensor'[n][s] = Total(n, SliceNodes(n, s, k + 1))
  <2>1. CASE k < N - 1
    <3>1. /\ SliceNodes(n, s, k) \cap X = {}
          /\ SliceNodes(n, s, k + 1) = SliceNodes(n, s, k) \cup X
      BY <1>2, <2>1, ReceivedSlice
    <3>2. tensor'[n][s] = Plus(Total(n, SliceNodes(n, s, k)), Total(n, X))
      BY <1>2, <1>3, <1>6, <2>1 DEF Received
    <3> HIDE DEF X, s, k
    <3> QED BY <3>1, <3>2, TotalsAddUp
  <2>2. CASE ~(k < N - 1)
    <3>1. SliceNodes(n, s, k + 1) = X
      <4>1. k >= N - 1
        BY <1>2, <2>2, TopologyAssumption
      <4> QED BY <1>2, <4>1, ReceivedSlice
    <3>2. tensor'[n][s] = Total(n, X)
      BY <1>2, <1>6, <2>2 DEF Received
    <3> QED BY <3>1, <3>2
  <2> QED BY <2>1, <2>2
<1>8. \A t \in Nodes : tensor'[n][t] = Total(n, SliceNodes(n, t, k + 1))
  <2> SUFFICES ASSUME NEW t \in Nodes PROVE tensor'[n][t] = Total(n, SliceNodes(n, t, k + 1))
    OBVIOUS
  <2>1. CASE t = s
    BY <1>7, <2>1
  <2>2. CASE t # s
    <3>1. SliceNodes(n, t, k + 1) = SliceNodes(n, t, k)
      BY <1>2, <2>2, OtherSlicesStay
    <3> QED BY <1>2, <1>6, <2>2, <3>1
  <2> QED BY <2>1, <2>2
<1> HIDE DEF k, s, p, X
<1>9. RingNode(n)'
  <2>1. upload'[n].phase = "none" /\ \A m \in Nodes : request'[n][m].phase = "none"
    BY <1>1, <1>2, <1>6, PhaseOf
  <2>2. pc'[n] \in {"cycle", "transfer"} =>
            \A t \in Nodes : tensor'[n][t] = Total(n, SliceNodes(n, t, cycle[n]))'
    <3>1. \A t \in Nodes : SliceNodes(n, t, cycle[n])' = SliceNodes(n, t, k + 1)
      BY <1>2 DEF SliceNodes
    <3>2. \A t \in Nodes :
             Total(n, SliceNodes(n, t, cycle[n]))' = Total(n, SliceNodes(n, t, k + 1))
      BY <1>1, <3>1 DEF Total
    <3> QED BY <1>8, <3>2
  <2>3. pc'[n] \in {"sync", "barrier"} => \A t \in Nodes : tensor'[n][t] = Total(n, Nodes)'
    BY <1>3, <1>5, <1>8, AllSlicesComplete
  <2> QED BY <2>1, <2>2, <2>3 DEF RingNode
<1>10. ASSUME NEW m \in Nodes \ {n}
       PROVE  request'[m] = request[m] /\ tensor'[m] = tensor[m]
  <2> DEFINE All == {NoRequest} \cup OpenRequests \cup Replies
  <2>1. request[m] \in [Nodes -> All] /\ request'[m] \in [Nodes -> All]
    BY <1>2 DEF TInv, DataTypes
  <2>2. strategy' = "ring"
    BY <1>2 DEF EndCycle
  <2>3. tensor[m] \in [Nodes -> Slice] /\ tensor'[m] \in [Nodes -> Slice]
    BY <1>2, <2>2 DEF TInv, NodeTypes, Slices
  <2>4. \A t \in Nodes : request'[m][t] = request[m][t] /\ tensor'[m][t] = tensor[m][t]
    BY <1>2
  <2> HIDE DEF All
  <2> QED BY <2>1, <2>3, <2>4
<1> QED BY <1>1, <1>2, <1>3, <1>4, <1>9, <1>10, RingStep

LEMMA SyncR ==
    ASSUME TInv, RingInv, NEW n \in Nodes, Sync(n)
    PROVE  RingInv'
<1>1. /\ pc[n] = "sync" /\ pc' = [pc EXCEPT ![n] = "barrier"]
      /\ UNCHANGED <<round, cycle, tensor, exposed, upload, request>>
  BY DEF Sync, Goto, dataVars
<1>2. pc'[n] = "barrier" /\ \A m \in Nodes \ {n} : pc'[m] = pc[m]
  BY <1>1 DEF TInv, NodeTypes
<1>3. Got(n)' = Got(n) /\ Sent(n)' = Sent(n)
  BY <1>1, <1>2 DEF Got, Sent
<1>4. RingNode(n)'
  <2>1. upload'[n].phase = "none" /\ \A m \in Nodes : request'[n][m].phase = "none"
    BY <1>1, NoTransfer
  <2>2. \A s \in Nodes : tensor'[n][s] = Total(n, Nodes)'
    BY <1>1 DEF RingInv, RingNode, Total
  <2> QED BY <1>2, <2>1, <2>2 DEF RingNode
<1> QED BY <1>1, <1>2, <1>3, <1>4, RingStep

(* A node that leaves the barrier leaves nothing exposed: its successor    *)
(* has come to the barrier, with all it was to get.                        *)
LEMMA ReturnR ==
    ASSUME IInv', TInv, RingInv, NEW n \in Nodes, Return(n)
    PROVE  RingInv'
<1>1. /\ pc[n] = "barrier" /\ pc' = [pc EXCEPT ![n] = "idle"]
      /\ round' = [round EXCEPT ![n] = round[n] + 1]
      /\ UNCHANGED <<cycle, tensor, exposed, upload, request>>
  BY DEF Return, Goto, dataVars
<1>2. /\ pc'[n] = "idle" /\ round'[n] = round[n] + 1
      /\ \A m \in Nodes : round[m] \in Nat
      /\ \A m \in Nodes \ {n} : pc'[m] = pc[m] /\ round'[m] = round[m]
  BY <1>1 DEF TInv, NodeTypes
<1>3. \A m \in Nodes : Got(m)' = (IF m = n THEN 0 ELSE Got(m)) /\ Sent(m)' = (IF m = n THEN 0 ELSE Sent(m))
  BY <1>1, <1>2 DEF Got, Sent
<1>4. Got(n) = Cycles /\ Sent(n) = Cycles /\ Cycles \in Nat
  BY <1>1, TopologyAssumption DEF Got, Sent, Cycles
<1>5. ASSUME NEW m \in Nodes, NEW k \in 0 .. Cycles - 1, NEW r \in Nat
      PROVE  HasGot(m, k, r)' = HasGot(m, k, r) /\ HasSent(m, k, r)' = HasSent(m, k, r)
  BY <1>2, <1>3, <1>4 DEF HasGot, HasSent
<1>6. RingOrder'
  BY <1>5, PreviousIs DEF RingInv, RingOrder
<1>7. DOMAIN exposed[n] = {}
  <2> SUFFICES ASSUME NEW k \in DOMAIN exposed[n] PROVE FALSE
    OBVIOUS
  <2>1. PICK m \in Nodes : n = Previous(m)
    <3> DEFINE m == IF n = N - 1 THEN 0 ELSE n + 1
    <3>1. m \in Nodes
      BY TopologyAssumption DEF Nodes
    <3>2. Previous(m) = n
      BY <3>1, PreviousIs, TopologyAssumption DEF Nodes
    <3> QED BY <3>1, <3>2
  <2>2. k \in 0 .. Cycles - 1 /\ ~HasGot(m, k, round[n])
    BY <2>1 DEF RingInv, RingExposed
  <2>3. round'[n] > round'[m] => pc'[m] = "barrier" /\ round'[n] = round'[m] + 1
    <3>1. NoEarlyLeave'
      BY BarrierFollows, PTL
    <3> QED BY <3>1 DEF NoEarlyLeave
  <2>4. CASE m = n
    BY <1>4, <2>2, <2>4 DEF HasGot
  <2>5. CASE m # n
    <3>1. round[m] <= round[n] /\ round[m] \in Nat /\ round[n] \in Nat
      BY <1>2, <2>2 DEF HasGot
    <3>2. round'[n] > round'[m]
      BY <1>2, <2>5, <3>1
    <3>3. pc'[m] = "barrier" /\ round'[n] = round'[m] + 1
      BY <2>3, <3>2
    <3>4. pc[m] = "barrier" /\ round[m] = round[n]
      BY <1>2, <2>5, <3>1, <3>3
    <3>5. Got(m) = Cycles
      BY <3>4 DEF Got
    <3> QED BY <1>4, <2>2, <3>4, <3>5 DEF HasGot
  <2> QED BY <2>4, <2>5
<1>8. RingExposed'
  <2> SUFFICES ASSUME NEW m \in Nodes, NEW k \in DOMAIN exposed[m]
               PROVE  /\ k \in 0 .. Cycles - 1
                      /\ exposed'[m][k] =
                            [tensor |-> Total(m, SentNodes(m, k))', max |-> 1, count |-> 0]
                      /\ HasSent(m, k, round[m])'
                      /\ \A d \in Nodes : m = Previous(d) => ~HasGot(d, k, round[m])'
    BY <1>1 DEF RingExposed
  <2>1. m # n /\ round'[m] = round[m]
    BY <1>2, <1>7
  <2>2. Total(m, SentNodes(m, k))' = Total(m, SentNodes(m, k))
    BY <2>1 DEF Total
  <2>3. /\ k \in 0 .. Cycles - 1
        /\ exposed[m][k] = [tensor |-> Total(m, SentNodes(m, k)), max |-> 1, count |-> 0]
        /\ HasSent(m, k, round[m])
        /\ \A d \in Nodes : m = Previous(d) => ~HasGot(d, k, round[m])
    BY DEF RingInv, RingExposed
  <2>4. \A d \in Nodes : HasGot(d, k, round[m])' = HasGot(d, k, round[m])
    <3>1. \A q \in Nat, d \in Nodes : HasGot(d, k, q)' = HasGot(d, k, q)
      BY <1>5, <2>3
    <3> QED BY <1>2, <2>1, <3>1 DEF HasGot
  <2>5. HasSent(m, k, round[m])' = HasSent(m, k, round[m])
    <3>1. \A q \in Nat : HasSent(m, k, q)' = HasSent(m, k, q)
      BY <1>5, <2>3
    <3> QED BY <1>2, <2>1, <3>1 DEF HasSent
  <2> QED BY <1>1, <2>2, <2>3, <2>4, <2>5
<1>9. ASSUME NEW m \in Nodes PROVE RingNode(m)'
  <2>1. CASE m = n
    <3>1. upload'[n].phase = "none" /\ \A d \in Nodes : request'[n][d].phase = "none"
      BY <1>1, NoTransfer
    <3> QED BY <1>2, <2>1, <3>1 DEF RingNode
  <2>2. CASE m # n
    <3>1. \A X : Total(m, X)' = Total(m, X)
      BY <1>2, <2>2 DEF Total
    <3> QED BY <1>1, <1>2, <2>2, <3>1 DEF RingInv, RingNode
  <2> QED BY <2>1, <2>2
<1> QED BY <1>6, <1>8, <1>9 DEF RingInv

(* What waits still waits for the same. *)
LEMMA SameRequestIs ==
    ASSUME NEW n \in Nodes, NEW m \in Nodes, SameRequest(n, m)
    PROVE  /\ request'[n][m].phase = "none" <=> request[n][m].phase = "none"
           /\ request'[n][m].phase = "reply" <=> request[n][m].phase = "reply"
           /\ request[n][m].phase = "reply" => request'[n][m] = request[n][m]
           /\ request[n][m].phase \in Waiting => request'[n][m].id = request[n][m].id
BY PhaseOf DEF SameRequest, Waiting

(* Steps of the data service that leave the tensors of the nodes alone. *)
LEMMA RingNodeKept ==
    ASSUME UNCHANGED <<pc, round, cycle, tensor>>, NEW n \in Nodes, RingNode(n),
           upload'[n].phase # "none" =>
               /\ upload[n].phase # "none" /\ upload'[n].id = upload[n].id
               /\ upload'[n].max = upload[n].max /\ upload'[n].tensor = upload[n].tensor,
           \A m \in Nodes : request'[n][m].phase # "none" =>
               /\ request[n][m].phase # "none"
               /\ request'[n][m].phase # "reply" =>
                     request[n][m].phase # "reply" /\ request'[n][m].id = request[n][m].id
               /\ request'[n][m].phase = "reply" =>
                     request'[n][m].tensor = Total(n, SentNodes(m, cycle[n]))
    PROVE  RingNode(n)'
<1>1. ASSUME NEW m \in Nodes
      PROVE  Total(n, SentNodes(m, cycle[n]))' = Total(n, SentNodes(m, cycle[n]))
  BY DEF Total, SentNodes
<1>2. upload'[n].phase # "none" =>
          /\ pc'[n] = "transfer" /\ upload'[n].id = cycle'[n] /\ upload'[n].max = 1
          /\ upload'[n].tensor = Total(n, SentNodes(n, cycle[n]))'
  BY <1>1 DEF RingNode
<1>3. \A m \in Nodes : request'[n][m].phase # "none" =>
          /\ pc'[n] = "transfer" /\ m = Previous(n)
          /\ request'[n][m].phase # "reply" => request'[n][m].id = cycle'[n]
          /\ request'[n][m].phase = "reply" =>
                request'[n][m].tensor = Total(n, SentNodes(m, cycle[n]))'
  BY <1>1 DEF RingNode
<1>4. /\ pc'[n] \in {"cycle", "transfer"} =>
            \A s \in Nodes : tensor'[n][s] = Total(n, SliceNodes(n, s, cycle[n]))'
      /\ pc'[n] \in {"sync", "barrier"} => \A s \in Nodes : tensor'[n][s] = Total(n, Nodes)'
  BY DEF RingNode, Total, SliceNodes
<1> QED BY <1>2, <1>3, <1>4 DEF RingNode

LEMMA RingWaits ==
    ASSUME TInv, RingInv, UNCHANGED <<pc, round, cycle, tensor, exposed>>,
           \A n, m \in Nodes : SameRequest(n, m),
           \A n \in Nodes : \/ upload'[n] = upload[n]
                            \/ upload[n].phase = "notify" /\ upload'[n].phase = "none"
    PROVE  RingInv'
<1>1. \A n \in Nodes : Got(n)' = Got(n) /\ Sent(n)' = Sent(n)
  BY SameRequestIs, PreviousIs DEF Got, Sent
<1>2. \A n \in Nodes : \A k, r : HasGot(n, k, r)' = HasGot(n, k, r) /\ HasSent(n, k, r)' = HasSent(n, k, r)
  BY <1>1 DEF HasGot, HasSent
<1>3. \A n \in Nodes : \A X : Total(n, X)' = Total(n, X)
  BY DEF Total
<1>4. RingOrder'
  BY <1>2, PreviousIs DEF RingInv, RingOrder
<1>5. RingExposed'
  BY <1>2, <1>3 DEF RingInv, RingExposed
<1>6. ASSUME NEW n \in Nodes PROVE RingNode(n)'
  <2>1. RingNode(n) /\ (upload'[n].phase # "none" => upload'[n] = upload[n])
    BY DEF RingInv
  <2>2. \A m \in Nodes : request[n][m].phase \in {"none", "reply"} \cup Waiting
    BY PhaseOf DEF TInv, DataTypes
  <2>3. ASSUME NEW m \in Nodes, request'[n][m].phase # "none"
        PROVE  /\ request[n][m].phase # "none"
               /\ request'[n][m].phase # "reply" =>
                     request[n][m].phase # "reply" /\ request'[n][m].id = request[n][m].id
               /\ request'[n][m].phase = "reply" =>
                     request'[n][m].tensor = Total(n, SentNodes(m, cycle[n]))
    BY <2>1, <2>2, <2>3, SameRequestIs DEF RingNode
  <2> QED BY <2>1, <2>3, RingNodeKept
<1> QED BY <1>4, <1>5, <1>6 DEF RingInv

(* Exposing a slice overwrites none, and precedes its download. *)
LEMMA InsertR ==
    ASSUME TInv, RingInv, NEW s \in Nodes, Insert(s), UNCHANGED nodeVars
    PROVE  RingInv' /\ upload[s].id \notin DOMAIN exposed[s]
<1> DEFINE k == cycle[s]
<1>1. /\ upload[s].phase = "insert" /\ upload'[s].phase = "notify"
      /\ upload'[s].id = upload[s].id /\ upload'[s].max = upload[s].max
      /\ upload'[s].tensor = upload[s].tensor
      /\ \A m \in Nodes \ {s} : upload'[m] = upload[m] /\ exposed'[m] = exposed[m]
      /\ DOMAIN exposed'[s] = DOMAIN exposed[s] \cup {upload[s].id}
      /\ exposed'[s][upload[s].id] =
            [tensor |-> upload[s].tensor, max |-> upload[s].max, count |-> 0]
      /\ \A i \in DOMAIN exposed[s] \ {upload[s].id} : exposed'[s][i] = exposed[s][i]
      /\ request' = request
  BY InsertIs DEF TInv
<1>2. UNCHANGED <<pc, round, cycle, tensor>>
  BY DEF nodeVars
<1>3. /\ pc[s] = "transfer" /\ upload[s].id = k /\ upload[s].max = 1
      /\ upload[s].tensor = Total(s, SentNodes(s, k)) /\ k \in 0 .. Cycles - 1
      /\ round[s] \in Nat
  <2>1. pc[s] = "transfer" /\ upload[s].id = k /\ upload[s].max = 1
        /\ upload[s].tensor = Total(s, SentNodes(s, k))
    BY <1>1 DEF RingInv, RingNode
  <2>2. k \in 0 .. Cycles - 1
    BY <2>1, TopologyAssumption DEF TInv, NodeTypes, LabelsFit, Cycles
  <2> QED BY <2>1, <2>2 DEF TInv, NodeTypes
<1>4. Sent(s) = k /\ Sent(s)' = k + 1
  BY <1>1, <1>2, <1>3 DEF Sent
<1>5. \A n \in Nodes : Got(n)' = Got(n) /\ (n # s => Sent(n)' = Sent(n))
  BY <1>1, <1>2 DEF Got, Sent
<1>6. /\ \A n \in Nodes : \A j, r : HasGot(n, j, r)' = HasGot(n, j, r)
      /\ \A n \in Nodes, j \in Nat : \A r : HasSent(n, j, r) => HasSent(n, j, r)'
      /\ HasSent(s, k, round[s])' /\ ~HasSent(s, k, round[s])
  <2>1. k \in Nat
    BY <1>3
  <2> QED BY <1>2, <1>3, <1>4, <1>5, <2>1 DEF HasGot, HasSent
<1>7. RingOrder'
  BY <1>6, PreviousIs DEF RingInv, RingOrder
<1>8. \A n \in Nodes : \A X : Total(n, X)' = Total(n, X)
  BY <1>2 DEF Total
<1>9. k \notin DOMAIN exposed[s]
  BY <1>6 DEF RingInv, RingExposed
<1>10. ASSUME NEW n \in Nodes, s = Previous(n) PROVE ~HasGot(n, k, round[s])
  BY <1>3, <1>6, <1>10 DEF RingInv, RingOrder
<1>11. RingExposed'
  <2> SUFFICES ASSUME NEW m \in Nodes, NEW i \in DOMAIN exposed'[m]
               PROVE  /\ i \in 0 .. Cycles - 1
                      /\ exposed'[m][i] =
                            [tensor |-> Total(m, SentNodes(m, i))', max |-> 1, count |-> 0]
                      /\ HasSent(m, i, round[m])'
                      /\ \A n \in Nodes : m = Previous(n) => ~HasGot(n, i, round[m])'
    BY DEF RingExposed
  <2>0. Total(m, SentNodes(m, i))' = Total(m, SentNodes(m, i))
    BY <1>8
  <2>1. CASE m = s /\ i = k
    <3>1. /\ i \in 0 .. Cycles - 1
          /\ exposed'[m][i] = [tensor |-> Total(m, SentNodes(m, i)), max |-> 1, count |-> 0]
      BY <1>1, <1>3, <2>1
    <3>2. HasSent(m, i, round[m])'
      BY <1>2, <1>3, <1>4, <2>1 DEF HasSent
    <3>3. \A n \in Nodes : m = Previous(n) => ~HasGot(n, i, round[m])'
      BY <1>2, <1>5, <1>10, <2>1 DEF HasGot
    <3> QED BY <2>0, <3>1, <3>2, <3>3
  <2>2. CASE ~(m = s /\ i = k)
    <3>1. i \in DOMAIN exposed[m] /\ exposed'[m][i] = exposed[m][i]
      BY <1>1, <1>3, <2>2
    <3>2. /\ i \in 0 .. Cycles - 1
          /\ exposed[m][i] = [tensor |-> Total(m, SentNodes(m, i)), max |-> 1, count |-> 0]
          /\ HasSent(m, i, round[m])
          /\ \A n \in Nodes : m = Previous(n) => ~HasGot(n, i, round[m])
      BY <3>1 DEF RingInv, RingExposed
    <3>3. HasSent(m, i, round[m])'
      <4>1. i \in Nat
        BY <3>2
      <4>2. \A r : HasSent(m, i, r) => HasSent(m, i, r)'
        BY <1>6, <4>1
      <4> QED BY <1>2, <3>2, <4>2 DEF HasSent
    <3>4. \A n \in Nodes : m = Previous(n) => ~HasGot(n, i, round[m])'
      <4>1. \A n \in Nodes : \A r : HasGot(n, i, r)' = HasGot(n, i, r)
        BY <1>6
      <4> QED BY <1>2, <3>2, <4>1 DEF HasGot
    <3> QED BY <2>0, <3>1, <3>2, <3>3, <3>4
  <2> QED BY <2>1, <2>2
<1>12. ASSUME NEW n \in Nodes PROVE RingNode(n)'
  <2>1. upload'[n].phase # "none" => upload[n].phase # "none"
        /\ upload'[n].id = upload[n].id /\ upload'[n].max = upload[n].max
        /\ upload'[n].tensor = upload[n].tensor
    BY <1>1
  <2>2. RingNode(n)
    BY DEF RingInv
  <2>3. \A m \in Nodes : request'[n][m].phase = "reply" =>
            request'[n][m].tensor = Total(n, SentNodes(m, cycle[n]))
    BY <1>1, <2>2 DEF RingNode
  <2> QED BY <1>1, <1>2, <2>1, <2>2, <2>3, RingNodeKept
<1> QED BY <1>3, <1>7, <1>9, <1>11, <1>12 DEF RingInv

(* A download takes the slice of the cycle it is meant for: the two nodes  *)
(* are in the same all-reduce.                                             *)
LEMMA ServeR ==
    ASSUME IInv, TInv, RingInv, NEW c \in Nodes, NEW s \in Nodes, Serve(c, s),
           UNCHANGED nodeVars
    PROVE  RingInv'
<1> DEFINE k == cycle[c]
           i == request[c][s].id
<1>1. /\ request[c][s] \in OpenRequests /\ i \in DOMAIN exposed[s]
      /\ exposed[s][i] \in Entry
      /\ request'[c][s] = [phase |-> "reply", tensor |-> exposed[s][i].tensor]
      /\ \A d, m \in Nodes : (d # c \/ m # s) => request'[d][m] = request[d][m]
      /\ exposed'[s] = Taken(exposed[s], i)
      /\ \A m \in Nodes \ {s} : exposed'[m] = exposed[m]
      /\ upload' = upload
  BY ServeIs DEF TInv
<1>2. UNCHANGED <<pc, round, cycle, tensor>>
  BY DEF nodeVars
<1>3. request[c][s].phase \in Waiting /\ request[c][s].phase \notin {"none", "reply"}
  BY <1>1, PhaseOf DEF Waiting
<1>4. pc[c] = "transfer" /\ s = Previous(c) /\ i = k
  BY <1>3 DEF RingInv, RingNode
<1>5. /\ k \in 0 .. Cycles - 1
      /\ exposed[s][k] = [tensor |-> Total(s, SentNodes(s, k)), max |-> 1, count |-> 0]
      /\ HasSent(s, k, round[s]) /\ ~HasGot(c, k, round[s])
  BY <1>1, <1>4 DEF RingInv, RingExposed
<1>6. round[s] = round[c] /\ round[c] \in Nat
  <2>1. round[s] \in Nat /\ round[c] \in Nat
    BY DEF TInv, NodeTypes
  <2>2. ~(round[s] > round[c])
    BY <1>4, BarrierFollows DEF NoEarlyLeave
  <2>3. ~(round[c] > round[s])
    BY <1>5 DEF HasGot
  <2> QED BY <2>1, <2>2, <2>3
<1>7. request'[c][s].phase = "reply" /\ request'[c][s].tensor = Total(c, SentNodes(s, k))
  BY <1>1, <1>4, <1>5, <1>6 DEF Total
<1>8. Got(c) = k /\ Got(c)' = k + 1
  <2>1. request[c][Previous(c)].phase # "reply" /\ request'[c][Previous(c)].phase = "reply"
    BY <1>3, <1>4, <1>7
  <2>2. Got(c) = k + 0 /\ Got(c)' = k + 1
    BY <1>2, <1>4, <2>1 DEF Got
  <2> QED BY <1>5, <2>2
<1>9. \A n \in Nodes : Sent(n)' = Sent(n) /\ (n # c => Got(n)' = Got(n))
  <2>1. \A n \in Nodes : n # c => request'[n][Previous(n)] = request[n][Previous(n)]
    BY <1>1, PreviousIs
  <2> QED BY <1>1, <1>2, <2>1 DEF Got, Sent
<1>10. ASSUME NEW n \in Nodes, NEW j \in Nat, NEW r
       PROVE  /\ HasSent(n, j, r)' = HasSent(n, j, r)
              /\ HasGot(n, j, r)' => HasGot(n, j, r) \/ (n = c /\ j = k /\ r = round[c])
  BY <1>2, <1>5, <1>8, <1>9 DEF HasGot, HasSent
<1>11. RingOrder'
  <2> SUFFICES ASSUME NEW n \in Nodes, NEW j \in 0 .. Cycles - 1, NEW r \in Nat, HasGot(n, j, r)'
               PROVE  HasSent(Previous(n), j, r)'
    BY DEF RingOrder
  <2>1. HasGot(n, j, r) \/ (n = c /\ j = k /\ r = round[c])
    BY <1>10
  <2>2. HasSent(Previous(n), j, r)
    BY <1>4, <1>5, <1>6, <2>1 DEF RingInv, RingOrder
  <2> QED BY <1>10, <2>2, PreviousIs
<1>12. RingExposed'
  <2>0. /\ DOMAIN exposed'[s] = DOMAIN exposed[s] \ {k}
        /\ \A j \in DOMAIN exposed[s] \ {k} : exposed'[s][j] = exposed[s][j]
    <3>1. exposed[s] \in Tables /\ exposed[s][k].count + 1 = exposed[s][k].max
      BY <1>5 DEF TInv, DataTypes
    <3>2. exposed'[s] = Taken(exposed[s], k) /\ k \in DOMAIN exposed[s]
      BY <1>1, <1>4
    <3> DEFINE t == exposed[s]
               u == exposed'[s]
    <3>3. t \in Tables /\ k \in DOMAIN t /\ t[k].count + 1 = t[k].max /\ u = Taken(t, k)
      BY <3>1, <3>2
    <3> HIDE DEF k, i, t, u
    <3>4. DOMAIN u = DOMAIN t \ {k} /\ \A j \in DOMAIN t \ {k} : u[j] = t[j]
      BY <3>3, TakenIs
    <3> QED BY <3>4 DEF t, u
  <2> SUFFICES ASSUME NEW m \in Nodes, NEW j \in DOMAIN exposed'[m]
               PROVE  /\ j \in 0 .. Cycles - 1
                      /\ exposed'[m][j] =
                            [tensor |-> Total(m, SentNodes(m, j))', max |-> 1, count |-> 0]
                      /\ HasSent(m, j, round[m])'
                      /\ \A n \in Nodes : m = Previous(n) => ~HasGot(n, j, round[m])'
    BY DEF RingExposed
  <2>1. j \in DOMAIN exposed[m] /\ exposed'[m][j] = exposed[m][j] /\ ~(m = s /\ j = k)
    BY <1>1, <2>0
  <2>2. /\ j \in 0 .. Cycles - 1
        /\ exposed[m][j] = [tensor |-> Total(m, SentNodes(m, j)), max |-> 1, count |-> 0]
        /\ HasSent(m, j, round[m])
        /\ \A n \in Nodes : m = Previous(n) => ~HasGot(n, j, round[m])
    BY <2>1 DEF RingInv, RingExposed
  <2>3. Total(m, SentNodes(m, j))' = Total(m, SentNodes(m, j))
    BY <1>2 DEF Total
  <2>4. HasSent(m, j, round[m])'
    <3>1. \A r : HasSent(m, j, r)' = HasSent(m, j, r)
      BY <1>10, <2>2
    <3> QED BY <1>2, <2>2, <3>1 DEF HasSent
  <2>5. \A n \in Nodes : m = Previous(n) => ~HasGot(n, j, round[m])'
    <3>1. \A n \in Nodes : \A r :
             HasGot(n, j, r)' => HasGot(n, j, r) \/ (n = c /\ j = k /\ r = round[c])
      BY <1>10, <2>2
    <3> HIDE DEF k
    <3> QED BY <1>2, <1>4, <2>1, <2>2, <3>1 DEF HasGot
  <2> QED BY <2>1, <2>2, <2>3, <2>4, <2>5
<1>13. ASSUME NEW n \in Nodes PROVE RingNode(n)'
  <2>1. RingNode(n)
    BY DEF RingInv
  <2>2. ASSUME NEW m \in Nodes, request'[n][m].phase # "none"
        PROVE  /\ request[n][m].phase # "none"
               /\ request'[n][m].phase # "reply" =>
                     request[n][m].phase # "reply" /\ request'[n][m].id = request[n][m].id
               /\ request'[n][m].phase = "reply" =>
                     request'[n][m].tensor = Total(n, SentNodes(m, cycle[n]))
    <3>1. CASE n = c /\ m = s
      BY <1>3, <1>7, <3>1
    <3>2. CASE ~(n = c /\ m = s)
      BY <1>1, <2>1, <2>2, <3>2 DEF RingNode
    <3> QED BY <3>1, <3>2
  <2> QED BY <1>1, <1>2, <2>1, <2>2, RingNodeKept
<1> QED BY <1>11, <1>12, <1>13 DEF RingInv

-----------------------------------------------------------------------------
RInv == IInv /\ TInv /\ (strategy = "ring" => RingInv)

LEMMA InitRInv == Init => RInv
<1> SUFFICES ASSUME Init PROVE RInv
  OBVIOUS
<1>1. \A n \in Nodes : pc[n] = "idle" /\ round[n] = 0 /\ exposed[n] = <<>>
      /\ upload[n].phase = "none" /\ \A m \in Nodes : request[n][m].phase = "none"
  BY PhaseOf DEF Init, InitData
<1>2. \A n \in Nodes : Got(n) = 0
  BY <1>1 DEF Got
<1>3. RingOrder
  BY <1>1, <1>2 DEF RingOrder, HasGot
<1>4. RingExposed
  BY <1>1 DEF RingExposed
<1>5. \A n \in Nodes : RingNode(n)
  BY <1>1 DEF RingNode
<1> QED BY <1>3, <1>4, <1>5, InitIInv, InitTInv DEF RInv, RingInv

LEMMA StrategyKept == [Next]_vars => strategy' = strategy
<1> SUFFICES ASSUME [Next]_vars PROVE strategy' = strategy
  OBVIOUS
<1>1. ASSUME NEW n \in Nodes,
             \/ BeginRing(n) \/ FailRing(n) \/ StartCycle(n) \/ EndCycle(n)
             \/ BeginTree(n) \/ EndGather(n) \/ Give(n) \/ EndGive(n) \/ Sync(n) \/ Return(n)
      PROVE  strategy' = strategy
  BY <1>1 DEF BeginRing, FailRing, StartCycle, EndCycle, BeginTree, EndGather, Give, EndGive,
              Sync, Return
<1>2. ASSUME NEW n \in Nodes, NEW m \in Nodes, Gather(n, m) \/ AskParent(n, m) \/ Receive(n, m)
      PROVE  strategy' = strategy
  BY <1>2 DEF Gather, AskParent, Receive
<1> QED BY <1>1, <1>2 DEF Next, vars, nodeVars

LEMMA NextRInv == RInv /\ [Next]_vars => RInv'
<1> SUFFICES ASSUME RInv, [Next]_vars PROVE RInv'
  OBVIOUS
<1>1. IInv /\ TInv /\ IInv' /\ TInv' /\ strategy' = strategy
  BY NextIInv, NextTInv, StrategyKept DEF RInv
<1>2. ASSUME strategy = "ring" PROVE RingInv'
  <2>0. RingInv
    BY <1>2 DEF RInv
  <2>1. ASSUME NEW n \in Nodes, BeginRing(n) \/ FailRing(n) \/ StartCycle(n) \/ EndCycle(n)
        PROVE  RingInv'
    BY <1>1, <2>0, <2>1, BeginRingR, FailRingR, StartCycleR, EndCycleR
  <2>2. ASSUME NEW n \in Nodes, BeginTree(n) \/ EndGather(n) \/ Give(n) \/ EndGive(n)
        PROVE  FALSE
    BY <1>1, <1>2, <2>2, BeginTreeT, EndGatherT, GiveT, EndGiveT DEF BeginTree
  <2>3. ASSUME NEW n \in Nodes, NEW m \in Nodes, Gather(n, m) \/ AskParent(n, m) \/ Receive(n, m)
        PROVE  FALSE
    BY <1>1, <1>2, <2>3, GatherT, AskParentT, ReceiveT
  <2>4. ASSUME NEW n \in Nodes, Sync(n) \/ Return(n) PROVE RingInv'
    BY <1>1, <2>0, <2>4, SyncR, ReturnR
  <2>5. CASE DataStep /\ UNCHANGED <<nodeVars, syncVars>>
    <3>0. UNCHANGED <<pc, round, cycle, tensor>> /\ UNCHANGED nodeVars
      BY <2>5 DEF nodeVars
    <3>1. ASSUME NEW s \in Nodes, Insert(s) PROVE RingInv'
      BY <1>1, <2>0, <3>0, <3>1, InsertR
    <3>2. ASSUME NEW s \in Nodes, NotifyTensor(s) PROVE RingInv'
      <4>1. /\ exposed' = exposed /\ \A n, m \in Nodes : SameRequest(n, m)
            /\ upload[s].phase = "notify" /\ upload'[s].phase = "none"
            /\ \A m \in Nodes \ {s} : upload'[m] = upload[m]
        BY <1>1, <3>2, NotifyIs, PhaseOf DEF TInv
      <4> QED BY <1>1, <2>0, <3>0, <4>1, RingWaits
    <3>3. ASSUME NEW c \in Nodes, NEW s \in Nodes, Serve(c, s) PROVE RingInv'
      BY <1>1, <2>0, <3>0, <3>3, ServeR
    <3>4. ASSUME NEW c \in Nodes, NEW s \in Nodes, Miss(c, s) \/ Await(c, s) PROVE RingInv'
      <4>1. UNCHANGED <<exposed, upload>> /\ \A n, m \in Nodes : SameRequest(n, m)
        BY <1>1, <3>4, MissIs DEF TInv
      <4> QED BY <1>1, <2>0, <3>0, <4>1, RingWaits
    <3> QED BY <2>5, <3>1, <3>2, <3>3, <3>4 DEF DataStep
  <2>6. CASE UNCHANGED <<nodeVars, dataVars>>
    <3>1. UNCHANGED <<pc, round, cycle, tensor, exposed, upload, request>>
      BY <2>6 DEF nodeVars, dataVars
    <3>2. \A n, m \in Nodes : SameRequest(n, m)
      BY <3>1 DEF SameRequest
    <3> QED BY <1>1, <2>0, <3>1, <3>2, RingWaits
  <2> QED BY <2>1, <2>2, <2>3, <2>4, <2>5, <2>6 DEF Next, vars
<1> QED BY <1>1, <1>2 DEF RInv

LEMMA RingInvariant == Spec => []RInv
BY InitRInv, NextRInv, PTL DEF Spec

LEMMA RingComplete == RInv /\ strategy = "ring" => SumIsComplete
BY DEF RInv, RingInv, RingNode, SumIsComplete, Slices, Total

LEMMA RingKeeps == RInv /\ strategy = "ring" => NothingOverwritten
<1> SUFFICES ASSUME RInv, strategy = "ring", NEW s \in Nodes, upload[s].phase = "insert",
                    upload[s].id \in DOMAIN exposed[s]
             PROVE  FALSE
  BY DEF NothingOverwritten
<1> DEFINE k == cycle[s]
<1>1. pc[s] = "transfer" /\ upload[s].id = k
  BY DEF RInv, RingInv, RingNode
<1>2. k \in 0 .. Cycles - 1 /\ HasSent(s, k, round[s])
  BY <1>1 DEF RInv, RingInv, RingExposed
<1>3. Sent(s) = k + 0
  BY <1>1 DEF Sent
<1>4. round[s] \in Nat
  BY DEF RInv, TInv, NodeTypes
<1> QED BY <1>2, <1>3, <1>4 DEF HasSent

(* A ring all-reduce, of any number of nodes: every node comes to the      *)
(* barrier with the sum of the inputs of all nodes in every slice, and     *)
(* never exposes a slice over one that its successor has yet to download.  *)
THEOREM RingAlwaysReduces == Spec => [](strategy = "ring" => SumIsComplete /\ NothingOverwritten)
<1>1. RInv => (strategy = "ring" => SumIsComplete /\ NothingOverwritten)
  BY RingComplete, RingKeeps
<1> QED BY <1>1, RingInvariant, PTL
=============================================================================
