----------------------- MODULE CollectiveTogether_proofs -----------------------
(***************************************************************************)
(* Proofs about peers whose calls go together, on any number of nodes:     *)
(* every call but Finish is a barrier, the nodes agree on who they are,    *)
(* and every peer gets the result that it asked for.                       *)
(***************************************************************************)
EXTENDS Collective_proofs

Coherent == program \in CoherentPrograms

Members(n) == {p \in Participants : NodeOf[p] = n}
Given(p) == program[p][1].config
Kind(p, k) == program[p][k].kind
Done(p) == Len(results[p])

(* Peers that call together. *)
Grouped(p, q) == NodeOf[p] = NodeOf[q] \/ Given(p).nodes > 0

-----------------------------------------------------------------------------
(* What it means for calls to go together.                                 *)
LEMMA ProgramOf ==
    ASSUME Coherent, NEW p \in Peers
    PROVE  /\ program[p] \in Seq(Calls) /\ Len(program[p]) \in Nat
           /\ DOMAIN program[p] = 1 .. Len(program[p])
           /\ p \in Participants <=> Len(program[p]) > 0
<1>1. program[p] \in Seq(Calls)
  BY ProgramsAssumption DEF Coherent, Programs
<1>2. program[p] = <<>> <=> Len(program[p]) = 0
  BY <1>1
<1> QED
  BY <1>1, <1>2 DEF Participants, Calling

LEMMA ParticipantsAre ==
    /\ Participants \subseteq Peers /\ IsFiniteSet(Participants)
    /\ \A n : Members(n) \subseteq Peers /\ IsFiniteSet(Members(n))
<1>1. Participants \in SUBSET Peers /\ \A n : Members(n) \in SUBSET Peers
  BY DEF Participants, Calling, Members
<1> QED
  BY <1>1, PeersFinite

LEMMA CallIs ==
    ASSUME Coherent, NEW p \in Participants, NEW k \in 1 .. Len(program[p])
    PROVE  /\ Kind(p, k) # "reset"
           /\ Kind(p, k) = "register" <=> k = 1
           /\ Kind(p, k) = "register" <=> (k = 1 \/ Kind(p, k - 1) = "finish")
           /\ Kind(p, k) = "register" =>
                 /\ program[p][k].config = Given(p) /\ Given(p).valid
                 /\ Given(p).devices = Cardinality(Members(NodeOf[p]))
                 /\ Given(p).nodes \in {0, Cardinality({NodeOf[q] : q \in Participants})}
           /\ Kind(p, k) = "all_reduce" /\ Given(p).strategy = "ring" =>
                 \/ program[p][k].size < Given(p).devices
                 \/ RingFits(program[p][k].size, Given(p).devices)
           /\ Kind(p, k) \in {"reduce", "broadcast"} => Given(p).nodes = 0
           /\ Kind(p, k) = "reduce" => program[p][k].root \in Members(NodeOf[p])
           /\ Kind(p, k) = "broadcast" => \E q \in Members(NodeOf[p]) : program[q][k].tensor
<1>1. Together(program)
  BY TogetherAssumption DEF Coherent
<1>2. p \in Peers /\ DOMAIN program[p] = 1 .. Len(program[p]) /\ Len(program[p]) \in Nat
  BY ProgramOf, ParticipantsAre
<1>3. \A j \in DOMAIN program[p] : CallFits(program, p, j)
  BY <1>1, <1>2 DEF Together, Participants
<1>4. Kind(p, k) = "register" <=> (k = 1 \/ Kind(p, k - 1) = "finish")
  <2>1. Kind(p, k) = "register" <=> k = 1
    BY <1>2, <1>3 DEF CallFits, Kind
  <2>2. ASSUME k # 1 PROVE Kind(p, k - 1) # "finish"
    <3>1. k - 1 \in DOMAIN program[p] /\ k - 1 # Len(program[p])
      BY <1>2, <2>2
    <3> QED
      BY <1>3, <3>1 DEF CallFits, Kind
  <2> QED
    BY <2>1, <2>2
<1>5. k \in DOMAIN program[p] /\ CallFits(program, p, k)
  BY <1>2, <1>3
<1>6. CallingOn(program, NodeOf[p]) = Members(NodeOf[p])
  BY DEF CallingOn, Participants, Members
<1>7. Kind(p, k) = "broadcast" => \E q \in Members(NodeOf[p]) : program[q][k].tensor
  BY <1>5, <1>6 DEF CallFits, Kind
<1> QED
  BY <1>4, <1>5, <1>6, <1>7 DEF CallFits, Participants, Kind, Given

LEMMA CallKinds ==
    ASSUME Coherent, NEW p \in Participants, NEW k \in 1 .. Len(program[p])
    PROVE  /\ program[p][k] \in Calls
           /\ Kind(p, k) \in Kinds \cup {"register", "finish"}
           /\ Kind(p, k) \in Kinds => program[p][k].size \in Nat
<1>1. program[p] \in Seq(Calls) /\ program[p][k] \in Calls
  BY ProgramOf, ParticipantsAre
<1> QED
  BY <1>1, CallIs DEF Calls, Kind, Kinds

LEMMA CallsAre ==
    ASSUME Coherent, NEW p \in Participants, NEW q \in Participants, Grouped(p, q)
    PROVE  /\ Len(program[p]) = Len(program[q])
           /\ \A k \in 1 .. Len(program[p]) :
                 /\ Kind(p, k) = Kind(q, k)
                 /\ \/ Kind(p, k) # "broadcast" /\ program[p][k] = program[q][k]
                    \/ Kind(p, k) = "register" /\ NodeOf[p] # NodeOf[q]
                    \/ /\ Kind(p, k) = "broadcast"
                       /\ program[p][k].tensor /\ program[q][k].tensor => p = q
<1>1. Together(program)
  BY TogetherAssumption DEF Coherent
<1>2. p \in Peers /\ q \in Peers /\ DOMAIN program[p] = 1 .. Len(program[p])
  BY ProgramOf, ParticipantsAre
<1> QED
  BY <1>1, <1>2 DEF Together, CallsAlike, Participants, Calling, Kind, Given, Grouped

LEMMA FirstIsRegister ==
    ASSUME Coherent, NEW p \in Participants
    PROVE  1 \in 1 .. Len(program[p]) /\ Kind(p, 1) = "register"
<1>1. 1 \in 1 .. Len(program[p])
  BY ProgramOf, ParticipantsAre
<1> QED
  BY <1>1, CallIs

LEMMA GivenAlike ==
    ASSUME Coherent, NEW p \in Participants, NEW q \in Participants
    PROVE  /\ Given(p).nodes = Given(q).nodes
           /\ NodeOf[p] = NodeOf[q] => Given(p) = Given(q)
           /\ Grouped(p, q) <=> Grouped(q, p)
           /\ Given(p) \in Configs
<1>1. Given(p).nodes = Given(q).nodes
  <2>1. Together(program)
    BY TogetherAssumption DEF Coherent
  <2> QED
    BY <2>1 DEF Together, Participants, Given
<1>2. ASSUME NodeOf[p] = NodeOf[q] PROVE Given(p) = Given(q)
  BY <1>2, CallsAre, FirstIsRegister DEF Grouped, Given, Kind
<1>3. Given(p) \in Configs
  BY FirstIsRegister, CallKinds DEF Calls, Given, Kind, Kinds
<1> QED
  BY <1>1, <1>2, <1>3 DEF Grouped

-----------------------------------------------------------------------------
(* The invariant of a node.  The peers of a node come to the same call,    *)
(* where some have been answered only if all have been; only Finish is     *)
(* answered at once.                                                       *)
Sync(p, q) ==
    \/ Done(p) <= Done(q)
    \/ Done(p) <= Done(q) + 1 /\ Kind(p, Done(p)) = "finish"

InSync == \A p, q \in Participants : NodeOf[p] = NodeOf[q] => Sync(p, q)

(* Those are registered that have registered and not finished. *)
Registered(p) == calls[p] > 0 /\ Kind(p, calls[p]) # "finish"

(* Each waits where it belongs. *)
Placed(n) ==
    /\ \A p \in callbacks[n] : Kind(p, calls[p]) = "register"
    /\ \A kind \in Kinds : \A p \in Range(ops[n][kind]) : Kind(p, calls[p]) = kind
    /\ \A p \in task[n].callers : Kind(p, calls[p]) = task[n].kind

ConfigGiven(n) ==
    \A p \in Members(n) :
        /\ config[n] \in {NoConfig, Given(p)}
        /\ peers[n] # {} => config[n] = Given(p)

(* The server of a node uses its client only with a global configuration,  *)
(* and awaits the other nodes for all its peers, or for the last that      *)
(* finishes.                                                               *)
ClientGlobal(n) ==
    client[n] # NoClient \/ task[n].kind # "idle" =>
        Members(n) # {} /\ \A p \in Members(n) : Given(p).nodes > 0

TaskWhole(n) ==
    /\ task[n].kind = "register" => callbacks[n] = Members(n)
    /\ task[n].kind = "all_reduce" => task[n].callers = Members(n)
    /\ task[n].kind = "finish" => \E p \in Members(n) : task[n].callers = {p}

NodeInv(n) ==
    /\ alive[n]
    /\ peers[n] = {p \in Members(n) : Registered(p)}
    /\ Placed(n)
    /\ ConfigGiven(n)
    /\ ClientGlobal(n)
    /\ TaskWhole(n)

LInv == DOMAIN config = Nodes /\ InSync /\ \A n \in Nodes : NodeInv(n)

-----------------------------------------------------------------------------
LEMMA Counts ==
    ASSUME TInv, Coherent, NEW p \in Peers
    PROVE  /\ calls[p] \in Nat /\ Done(p) \in Nat /\ Done(p) \in {calls[p], calls[p] - 1}
           /\ calls[p] <= Len(program[p]) /\ Len(program[p]) \in Nat
           /\ Waiting(p) <=> calls[p] = Done(p) + 1
           /\ ~Waiting(p) <=> calls[p] = Done(p)
           /\ p \notin Participants => calls[p] = 0
<1>1. calls[p] \in Nat /\ Done(p) \in {calls[p], calls[p] - 1} /\ IsSequence(results[p])
  BY DEF TInv, IInv, ClientTypes, Done
<1>2. Done(p) \in Nat
  <2>1. PICK S : results[p] \in Seq(S)
    BY <1>1 DEF IsSequence
  <2> QED
    BY <2>1 DEF Done
<1>3. calls[p] <= Len(program[p]) /\ Len(program[p]) \in Nat
  BY ProgramOf DEF TInv, ProgramTypes
<1>4. p \notin Participants => Len(program[p]) = 0
  BY <1>3, ProgramOf
<1> QED
  BY <1>1, <1>2, <1>3, <1>4 DEF Waiting, Done

LEMMA MemberIs ==
    ASSUME NEW n, NEW p \in Members(n) PROVE p \in Participants /\ p \in Peers /\ NodeOf[p] = n
  BY ParticipantsAre DEF Members

(* The call that a peer makes. *)
LEMMA NextIs ==
    ASSUME TInv, Coherent, NEW p \in Peers, NEW kinds, Makes(p, kinds)
    PROVE  /\ p \in Members(NodeOf[p]) /\ p \in Participants /\ NodeOf[p] \in Nodes
           /\ Done(p) = calls[p] /\ calls[p] \in Nat
           /\ calls[p] + 1 \in 1 .. Len(program[p])
           /\ NextCall(p) = program[p][calls[p] + 1]
           /\ NextCall(p).kind = Kind(p, calls[p] + 1)
           /\ Kind(p, calls[p] + 1) \in kinds
           /\ calls'[p] = calls[p] + 1
           /\ \A q \in Peers \ {p} : calls'[q] = calls[q]
<1>1. /\ ~Waiting(p) /\ calls[p] < Len(program[p]) /\ NextCall(p).kind \in kinds
      /\ calls' = [calls EXCEPT ![p] = @ + 1]
  BY DEF Makes
<1>2. calls \in [Peers -> Nat]
  BY DEF TInv, IInv, ClientTypes
<1>3. p \in Participants
  BY <1>1, <1>2, Counts, ProgramOf
<1>4. NodeOf[p] \in Nodes
  BY PeersAssumption
<1> QED
  BY <1>1, <1>2, <1>3, <1>4, Counts DEF Members, NextCall, Kind

LEMMA SameKind ==
    ASSUME Coherent, NEW p \in Participants, NEW q \in Participants, NodeOf[p] = NodeOf[q],
           NEW k \in 1 .. Len(program[p])
    PROVE  k \in 1 .. Len(program[q]) /\ Kind(q, k) = Kind(p, k)
  BY CallsAre DEF Grouped

(* Where the others of the node are when a peer calls. *)
LEMMA OthersAt ==
    ASSUME TInv, Coherent, InSync, NEW p \in Participants, NEW q \in Participants,
           NodeOf[p] = NodeOf[q], NEW k \in 1 .. Len(program[p]), Done(p) = k - 1,
           Kind(p, k) # "register"
    PROVE  /\ k > 1 /\ Kind(p, k - 1) # "finish" /\ k - 1 \in 1 .. Len(program[p])
           /\ Done(q) = k - 1 \/ (Kind(p, k) = "finish" /\ Done(q) = k)
<1>0. p \in Peers /\ q \in Peers
  BY ParticipantsAre
<1>1. k > 1 /\ Kind(p, k - 1) # "finish" /\ k - 1 \in 1 .. Len(program[p])
  <2>1. Len(program[p]) \in Nat
    BY <1>0, ProgramOf
  <2>2. k # 1 /\ Kind(p, k - 1) # "finish"
    BY CallIs
  <2> QED
    BY <2>1, <2>2
<1>2. Done(p) \in Nat /\ Done(q) \in Nat /\ calls[q] <= Len(program[q]) /\ Done(q) <= calls[q]
  BY <1>0, Counts
<1>3. Done(q) >= k - 1
  <2>1. Sync(p, q)
    BY DEF InSync
  <2> QED
    BY <1>1, <1>2, <2>1 DEF Sync
<1>4. Sync(q, p)
  BY DEF InSync
<1>5. CASE Done(q) <= Done(p)
  BY <1>1, <1>2, <1>3, <1>5
<1>6. CASE Done(q) = Done(p) + 1 /\ Kind(q, Done(q)) = "finish"
  <2>1. Done(q) = k /\ Kind(q, k) = Kind(p, k)
    BY <1>6, SameKind
  <2> QED
    BY <1>1, <1>6, <2>1
<1> QED
  BY <1>2, <1>4, <1>5, <1>6 DEF Sync

LEMMA RegisterAt ==
    ASSUME TInv, Coherent, InSync, NEW p \in Peers, NEW kinds, Makes(p, kinds),
           Kind(p, calls[p] + 1) = "register", NEW q \in Members(NodeOf[p])
    PROVE  Done(q) = calls[p]
<1>0. /\ p \in Participants /\ q \in Participants /\ NodeOf[q] = NodeOf[p]
      /\ p \in Peers /\ q \in Peers
      /\ Done(p) = calls[p] /\ calls[p] + 1 \in 1 .. Len(program[p]) /\ calls[p] \in Nat
      /\ Done(q) \in Nat
  BY NextIs, MemberIs, Counts
<1>1. Done(q) <= calls[p]
  <2>1. Sync(q, p)
    BY <1>0 DEF InSync
  <2>2. ASSUME Done(q) = Done(p) + 1 PROVE Kind(q, Done(q)) = "register"
    BY <1>0, <2>2, SameKind
  <2> QED
    BY <1>0, <2>1, <2>2 DEF Sync
<1>2. Done(q) >= calls[p]
  <2> DEFINE k == calls[p] + 1
  <2>1. k \in 1 .. Len(program[p]) /\ Kind(p, k) = "register"
    BY <1>0
  <2> HIDE DEF k
  <2>2. k = 1
    BY <1>0, <2>1, CallIs
  <2> QED
    BY <1>0, <2>2 DEF k
<1> QED
  BY <1>0, <1>1, <1>2

-----------------------------------------------------------------------------
(* What a step does.                                                       *)
LEMMA DoneStep ==
    ASSUME TInv, NEW to, AnswersTo(to), NEW p \in Peers
    PROVE  Done(p)' = IF p \in to THEN Done(p) + 1 ELSE Done(p)
<1>1. IsSequence(results[p])
  BY DEF TInv, IInv, ClientTypes
<1> QED
  BY <1>1, Appended DEF AnswersTo, Done

LEMMA SameProgram ==
    ASSUME UNCHANGED program
    PROVE  /\ Participants' = Participants /\ Coherent' = Coherent
           /\ \A n : Members(n)' = Members(n)
           /\ \A p : Given(p)' = Given(p)
           /\ \A p, q : Grouped(p, q)' = Grouped(p, q)
           /\ \A p, k : program'[p][k] = program[p][k]
  BY DEF Participants, Calling, Coherent, Members, Given, Grouped

LEMMA SyncStep ==
    ASSUME TInv, InSync, UNCHANGED program, NEW to, AnswersTo(to),
           Coherent,
           \A p \in to : \A q \in Participants : NodeOf[p] = NodeOf[q] =>
              \/ q \in to /\ Done(p) = Done(q)
              \/ Kind(p, Done(p) + 1) = "finish" /\ Done(p) <= Done(q)
    PROVE  InSync'
<1>1. ASSUME NEW p \in Participants, NEW q \in Participants, NodeOf[p] = NodeOf[q]
      PROVE  Sync(p, q)'
  <2>1. p \in Peers /\ q \in Peers /\ Done(p) \in Nat /\ Done(q) \in Nat
    BY ParticipantsAre, Counts
  <2>2. /\ Done(p)' = IF p \in to THEN Done(p) + 1 ELSE Done(p)
        /\ Done(q)' = IF q \in to THEN Done(q) + 1 ELSE Done(q)
    BY <2>1, DoneStep
  <2>3. Kind(p, Done(p))' = Kind(p, Done(p)')
    BY DEF Kind
  <2>4. Sync(p, q)
    BY <1>1 DEF InSync
  <2>5. CASE p \notin to
    BY <2>1, <2>2, <2>3, <2>4, <2>5 DEF Sync
  <2>6. CASE p \in to
    BY <1>1, <2>1, <2>2, <2>3, <2>4, <2>6 DEF Sync
  <2> QED
    BY <2>5, <2>6
<1> QED
  BY <1>1, SameProgram DEF InSync

-----------------------------------------------------------------------------
(* Who waits on a node. *)
LEMMA HeldIs ==
    ASSUME TInv, Coherent, NEW n \in Nodes, alive[n], NEW x \in Places, NEW p \in HeldAt(n)[x]
    PROVE  /\ p \in Members(n) /\ p \in Participants /\ p \in Peers /\ NodeOf[p] = n
           /\ calls[p] = Done(p) + 1 /\ Done(p) \in Nat /\ calls[p] \in 1 .. Len(program[p])
<1>1. HeldAt(n) \in [Places -> SUBSET Peers] /\ Parted(WaitingAt(n), HeldAt(n))
  BY HeldAtType DEF TInv, IInv
<1>2. p \in Peers /\ NodeOf[p] = n /\ Waiting(p)
  BY <1>1 DEF Parted, WaitingAt
<1>3. /\ calls[p] = Done(p) + 1 /\ Done(p) \in Nat /\ calls[p] <= Len(program[p])
      /\ Len(program[p]) \in Nat /\ p \in Participants
  BY <1>2, Counts
<1> QED
  BY <1>2, <1>3 DEF Members

(* Those that wait on a node, for others than those that finish, wait for  *)
(* the same call.                                                          *)
LEMMA EqualDone ==
    ASSUME TInv, Coherent, InSync, NEW n, NEW p \in Members(n), NEW q \in Members(n),
           calls[p] = Done(p) + 1, Kind(p, calls[p]) # "finish",
           calls[q] = Done(q) + 1, Kind(q, calls[q]) # "finish"
    PROVE  Done(p) = Done(q)
<1>1. ASSUME NEW x \in Members(n), NEW y \in Members(n), calls[y] = Done(y) + 1,
             Kind(y, calls[y]) # "finish"
      PROVE  Done(x) <= Done(y)
  <2>1. /\ x \in Participants /\ y \in Participants /\ NodeOf[x] = NodeOf[y]
        /\ x \in Peers /\ y \in Peers
    BY <1>1, MemberIs
  <2>2. /\ Done(x) \in Nat /\ Done(y) \in Nat /\ Done(x) <= calls[x] /\ calls[x] \in Nat
        /\ calls[x] <= Len(program[x]) /\ Len(program[x]) \in Nat
    BY <2>1, Counts
  <2>3. Sync(x, y)
    BY <2>1 DEF InSync
  <2>4. ASSUME Done(x) = Done(y) + 1 PROVE Kind(y, Done(x)) = Kind(x, Done(x))
    <3>1. Done(x) \in 1 .. Len(program[x])
      BY <2>2, <2>4
    <3> QED
      BY <2>1, <3>1, SameKind
  <2> QED
    BY <1>1, <2>2, <2>3, <2>4 DEF Sync
<1>2. Done(p) \in Nat /\ Done(q) \in Nat
  BY MemberIs, Counts
<1> QED
  BY <1>1, <1>2

-----------------------------------------------------------------------------
(* A call of an operation comes when all peers of the node are registered, *)
(* and goes with those that are there.                                     *)
LEMMA AllRegistered ==
    ASSUME TInv, Coherent, LInv, NEW p \in Peers, Handle(p, Kinds)
    PROVE  /\ peers[NodeOf[p]] = Members(NodeOf[p])
           /\ config[NodeOf[p]] = Given(p)
           /\ \A q \in Members(NodeOf[p]) : Done(q) = calls[p]
<1> DEFINE n == NodeOf[p]
           k == calls[p] + 1
<1>1. /\ p \in Members(n) /\ p \in Participants /\ n \in Nodes
      /\ Done(p) = k - 1 /\ calls[p] \in Nat /\ calls[p] = k - 1 /\ k \in 1 .. Len(program[p])
      /\ Kind(p, k) \in Kinds
  BY NextIs DEF Handle
<1>2. Kind(p, k) # "register" /\ Kind(p, k) # "finish"
  BY <1>1 DEF Kinds
<1>3. InSync /\ NodeInv(n)
  BY <1>1 DEF LInv
<1> HIDE DEF k
<1>4. ASSUME NEW q \in Members(n) PROVE Done(q) = k - 1 /\ Registered(q)
  <2>1. q \in Participants /\ q \in Peers /\ NodeOf[q] = NodeOf[p]
    BY <1>4, MemberIs
  <2>2. /\ k > 1 /\ Kind(p, k - 1) # "finish" /\ k - 1 \in 1 .. Len(program[p])
        /\ Done(q) = k - 1
    BY <1>1, <1>2, <1>3, <2>1, OthersAt
  <2>3. Kind(q, k) = Kind(p, k) /\ Kind(q, k - 1) = Kind(p, k - 1)
    BY <1>1, <2>1, <2>2, SameKind
  <2>4. calls[q] \in {k - 1, k} /\ calls[q] > 0
    BY <1>1, <2>1, <2>2, Counts
  <2> QED
    BY <1>2, <2>2, <2>3, <2>4 DEF Registered
<1>5. peers[n] = Members(n)
  BY <1>3, <1>4 DEF NodeInv
<1>6. config[n] = Given(p)
  BY <1>1, <1>3, <1>5 DEF NodeInv, ConfigGiven
<1> QED
  BY <1>1, <1>4, <1>5, <1>6

LEMMA CallersAt ==
    ASSUME TInv, Coherent, LInv, NEW p \in Peers, Handle(p, Kinds),
           NEW q \in Range(ops[NodeOf[p]][NextCall(p).kind])
    PROVE  /\ q \in Members(NodeOf[p]) /\ q # p /\ calls[q] = calls[p] + 1
           /\ CallOf(q) = program[q][calls[p] + 1]
<1> DEFINE n == NodeOf[p]
           kind == NextCall(p).kind
<1>1. n \in Nodes /\ kind \in Kinds
  BY PeersAssumption DEF Handle, Makes
<1>2. alive[n]
  BY <1>1 DEF LInv, NodeInv
<1>3. q \in HeldAt(n)[kind] /\ kind \in Places
  BY <1>1, HeldAtIs, PlacesAre
<1> HIDE DEF kind
<1>4. q \in Members(n) /\ calls[q] = Done(q) + 1
  BY <1>1, <1>2, <1>3, HeldIs
<1>5. Done(q) = calls[p]
  BY <1>4, AllRegistered
<1>6. q # p
  BY <1>1, NotACaller DEF kind, TInv
<1> QED
  BY <1>4, <1>5, <1>6 DEF CallOf

LEMMA CallAccepted ==
    ASSUME TInv, Coherent, LInv, NEW p \in Peers, Handle(p, Kinds)
    PROVE  Accepted(NodeOf[p], p) /\ Mismatch(NodeOf[p], p) = "none"
<1> DEFINE n == NodeOf[p]
           k == calls[p] + 1
           kind == NextCall(p).kind
           call == NextCall(p)
<1>1. /\ p \in Members(n) /\ p \in Participants /\ n \in Nodes
      /\ k \in 1 .. Len(program[p]) /\ call = program[p][k] /\ kind = Kind(p, k)
      /\ kind \in Kinds
  BY NextIs DEF Handle
<1>2. Accepted(n, p)
  <2>1. peers[n] = Members(n)
    BY AllRegistered
  <2>2. kind = "reduce" => call.root \in Members(n)
    <3> HIDE DEF k, kind, call
    <3> QED
      BY <1>1, CallIs
  <2> QED
    BY <1>1, <2>1, <2>2 DEF Accepted
<1>3. ASSUME NEW q \in Range(ops[n][kind])
      PROVE  \/ CallOf(q) = call
             \/ kind = "broadcast" /\ ~(call.tensor /\ CallOf(q).tensor)
  <2>1. q \in Members(n) /\ q # p /\ CallOf(q) = program[q][k]
    BY <1>3, CallersAt
  <2>2. q \in Participants /\ NodeOf[q] = NodeOf[p] /\ Grouped(p, q)
    BY <2>1, MemberIs DEF Grouped
  <2> HIDE DEF k, kind, call
  <2>3. \/ Kind(p, k) # "broadcast" /\ program[p][k] = program[q][k]
        \/ Kind(p, k) = "register" /\ NodeOf[p] # NodeOf[q]
        \/ /\ Kind(p, k) = "broadcast"
           /\ program[p][k].tensor /\ program[q][k].tensor => p = q
    BY <1>1, <2>2, CallsAre
  <2> QED
    BY <1>1, <2>1, <2>2, <2>3
<1>4. ASSUME kind = "broadcast" PROVE Mismatch(n, p) = "none"
  <2>1. ASSUME NEW q \in Range(ops[n][kind]), call.tensor, CallOf(q).tensor PROVE FALSE
    <3>1. q \in Members(n) /\ q # p /\ CallOf(q) = program[q][k]
      BY <2>1, CallersAt
    <3>2. q \in Participants /\ NodeOf[q] = NodeOf[p] /\ Grouped(p, q)
      BY <3>1, MemberIs DEF Grouped
    <3>3. program[q][k].tensor /\ program[p][k].tensor
      BY <1>1, <2>1, <3>1
    <3> HIDE DEF k, kind, call
    <3> QED
      BY <1>1, <1>4, <3>1, <3>2, <3>3, CallsAre
  <2> QED
    BY <1>4, <2>1 DEF Mismatch, Callers
<1>5. ASSUME kind # "broadcast" PROVE Mismatch(n, p) = "none"
  <2>1. First(n, p, kind) = call
    <3>1. CASE ops[n][kind] = <<>>
      BY <3>1 DEF First
    <3>2. CASE ops[n][kind] # <<>>
      <4>1. ops[n][kind] \in Seq(Peers)
        BY <1>1 DEF TInv, IInv, ServerTypes
      <4>2. Head(ops[n][kind]) \in Range(ops[n][kind])
        BY <3>2, <4>1 DEF Range
      <4> QED
        BY <1>3, <1>5, <3>2, <4>2 DEF First
    <3> QED
      BY <3>1, <3>2
  <2> QED
    BY <1>5, <2>1 DEF Mismatch
<1> QED
  BY <1>2, <1>4, <1>5

(* As many callers as there are peers are all peers. *)
LEMMA WholeCallers ==
    ASSUME TInv, Coherent, LInv, NEW p \in Peers, Handle(p, Kinds), AllCalled(p)
    PROVE  /\ Range(AllCallers(p)) = Members(NodeOf[p])
           /\ AllCallers(p) \in Seq(Peers) /\ Len(AllCallers(p)) > 0
           /\ Len(AllCallers(p)) = Cardinality(Members(NodeOf[p]))
           /\ \A q \in Members(NodeOf[p]) : calls'[q] = calls[p] + 1 /\ Done(q) = calls[p]
<1> DEFINE n == NodeOf[p]
           kind == NextCall(p).kind
           s == ops[n][kind]
           all == AllCallers(p)
<1>1. /\ n \in Nodes /\ kind \in Kinds /\ p \in Members(n) /\ calls'[p] = calls[p] + 1
      /\ \A q \in Peers \ {p} : calls'[q] = calls[q]
  BY NextIs DEF Handle
<1>2. s \in Seq(Peers) /\ IsInjective(s)
  <2> HIDE DEF kind, n
  <2>1. s \in Seq(Peers)
    BY <1>1 DEF TInv, IInv, ServerTypes
  <2>2. CallersOf(n, kind)
    BY <1>1 DEF TInv, MoreServerTypes
  <2> QED
    BY <2>1, <2>2 DEF CallersOf
<1>3. p \notin Range(s)
  BY <1>1, NotACaller DEF TInv
<1>4. Range(s) \subseteq Members(n)
  BY CallersAt
<1>5. Len(s) + 1 = Cardinality(Members(n))
  BY AllRegistered DEF AllCalled
<1>6. all = Append(s, p)
  BY DEF AllCallers
<1> HIDE DEF s, all
<1>7. all \in Seq(Peers) /\ IsInjective(all) /\ Len(all) = Len(s) + 1 /\ Len(s) \in Nat
  BY <1>2, <1>3, <1>6, InjectiveAppend
<1>8. Range(all) = Range(s) \cup {p}
  BY <1>2, <1>6, RangeOfAppend
<1>9. Range(all) = Members(n)
  <2>1. Range(all) \in SUBSET Members(n)
    BY <1>1, <1>4, <1>8
  <2>2. IsFiniteSet(Members(n)) /\ Cardinality(Range(all)) = Cardinality(Members(n))
    BY <1>5, <1>7, ParticipantsAre, SizeOfRange
  <2> QED
    BY <2>1, <2>2, FS_Subset
<1>10. ASSUME NEW q \in Members(n) PROVE calls'[q] = calls[p] + 1 /\ Done(q) = calls[p]
  <2>1. Done(q) = calls[p] /\ q \in Peers
    BY <1>10, AllRegistered, MemberIs
  <2>2. CASE q = p
    BY <1>1, <2>1, <2>2
  <2>3. CASE q # p
    <3>1. q \in Range(s)
      BY <1>8, <1>9, <1>10, <2>3
    <3>2. calls[q] = calls[p] + 1
      BY <3>1, CallersAt DEF s
    <3> QED
      BY <1>1, <2>1, <2>3, <3>2
  <2> QED
    BY <2>2, <2>3
<1> QED
  BY <1>5, <1>7, <1>9, <1>10 DEF all

(* The tensors of a ring can be cut. *)
LEMMA RingCuts ==
    ASSUME TInv, Coherent, LInv, NEW p \in Peers, Joins(p, {"all_reduce"}), AllCalled(p)
    PROVE  ~RingPanics(p)
<1> DEFINE n == NodeOf[p]
           k == calls[p] + 1
           all == AllCallers(p)
           given == Given(p)
<1>0. Handle(p, Kinds) /\ Handle(p, {"all_reduce"})
  BY DEF Joins, Handle, Makes, Kinds
<1>1. /\ p \in Members(n) /\ p \in Participants /\ n \in Nodes
      /\ k \in 1 .. Len(program[p]) /\ Kind(p, k) = "all_reduce"
  BY <1>0, NextIs DEF Handle
<1>2. /\ all \in Seq(Peers) /\ Len(all) > 0 /\ Len(all) = Cardinality(Members(n))
      /\ Range(all) = Members(n)
      /\ \A q \in Members(n) : calls'[q] = k
  BY <1>0, WholeCallers
<1>3. config[n] = given
  BY <1>0, AllRegistered
<1>4. Len(all) = given.devices
  <2>1. 1 \in 1 .. Len(program[p]) /\ Kind(p, 1) = "register"
    BY <1>1, FirstIsRegister
  <2>2. given.devices = Cardinality(Members(NodeOf[p]))
    BY <1>1, <2>1, CallIs
  <2> QED
    BY <1>2, <2>2
<1>5. /\ program[p][k].size \in Nat
      /\ given.strategy = "ring" =>
            program[p][k].size < given.devices \/ CanSlice(program[p][k].size, given.devices)
  <2> HIDE DEF k
  <2>1. /\ program[p][k].size \in Nat
        /\ given.strategy = "ring" =>
              program[p][k].size < given.devices \/ RingFits(program[p][k].size, given.devices)
    BY <1>1, CallIs, CallKinds DEF Kinds
  <2>2. given.devices \in Nat /\ given.devices > 0
    <3> HIDE DEF given
    <3> QED
      BY <1>2, <1>4
  <2> HIDE DEF given
  <2> QED
    BY <2>1, <2>2, SlicesFit
<1>6. Len(Tensors(all)) = Len(all) /\ Tensors(all) \in Seq({TensorOf(q) : q \in Peers})
  <2> HIDE DEF all
  <2>1. DOMAIN all = 1 .. Len(all) /\ Len(all) \in Nat /\ \A i \in 1 .. Len(all) : all[i] \in Peers
    BY <1>2
  <2>2. Tensors(all) \in [1 .. Len(all) -> {TensorOf(q) : q \in Peers}]
    BY <2>1 DEF Tensors
  <2> QED
    BY <2>1, <2>2
<1>7. Len(Head(Tensors(all))) = program[p][k].size
  <2> DEFINE q == all[1]
  <2>1. 1 \in DOMAIN all /\ q \in Members(n)
    BY <1>2 DEF Range
  <2>2. Head(Tensors(all)) = TensorOf(q)
    BY <1>6, <1>2, <2>1 DEF Tensors
  <2>3. q \in Participants /\ q \in Peers /\ NodeOf[q] = NodeOf[p] /\ Grouped(p, q) /\ calls'[q] = k
    BY <1>2, <2>1, MemberIs DEF Grouped
  <2>4. program[p][k] = program[q][k]
    <3> HIDE DEF q, k
    <3> QED
      BY <1>1, <2>3, CallsAre
  <2>5. TensorOf(q) = Whole(<<q, k>>, program[p][k].size)
    BY <2>3, <2>4 DEF TensorOf
  <2>6. DOMAIN TensorOf(q) = 1 .. program[p][k].size
    BY <2>5 DEF Whole
  <2>7. TensorOf(q) \in Seq({SetToBag({<<q, k>>})})
    <3> DEFINE m == program[p][k].size
    <3>1. m \in Nat /\ TensorOf(q) = [i \in 1 .. m |-> SetToBag({<<q, k>>})]
      BY <1>5, <2>5 DEF Whole
    <3> HIDE DEF m
    <3>2. TensorOf(q) \in [1 .. m -> {SetToBag({<<q, k>>})}]
      BY <3>1
    <3> QED
      BY <3>1, <3>2
  <2>8. Len(TensorOf(q)) = program[p][k].size
    <3> HIDE DEF q, k
    <3> QED
      BY <1>5, <2>6, <2>7
  <2> QED
    BY <2>2, <2>8
<1> HIDE DEF n, k, all, given
<1> QED
  BY <1>3, <1>4, <1>5, <1>6, <1>7 DEF RingPanics, CanCut, n, all

(* An operation that all have called is executed: all are answered. *)
Executed(p) ==
    /\ Handle(p, Kinds) /\ AllCalled(p)
    /\ AnswersTo(Members(NodeOf[p]))
    /\ ops' = [ops EXCEPT ![NodeOf[p]][NextCall(p).kind] = <<>>]
    /\ UNCHANGED <<alive, config, peers, callbacks, task, client, globalVars, orchestratorVars>>

LEMMA AliveStays ==
    ASSUME TInv, NEW n \in Nodes, alive[n], alive' = [alive EXCEPT ![n] = TRUE]
    PROVE  UNCHANGED alive
  BY DEF TInv, IInv, ServerTypes

LEMMA Executes ==
    ASSUME TInv, Coherent, LInv, NEW p \in Peers,
           \/ LocalAllReduce(p) \/ GlobalAllReduceFails(p)
           \/ LocalReduceReturns(p) \/ LocalBroadcastReturns(p)
    PROVE  Executed(p)
<1> DEFINE n == NodeOf[p]
           kind == NextCall(p).kind
<1>1. Handle(p, Kinds) /\ AllCalled(p)
  BY DEF LocalAllReduce, GlobalAllReduceFails, LocalReduceReturns, LocalBroadcastReturns,
     Joins, Handle, Makes, Kinds
<1>2. /\ Range(AllCallers(p)) = Members(n) /\ n \in Nodes /\ alive[n] /\ p \in Members(n)
      /\ p \in Participants
  BY <1>1, WholeCallers, NextIs DEF Handle
<1>3. ASSUME kind \in {"reduce", "broadcast"} PROVE client[n] = NoClient
  <2> DEFINE k == calls[p] + 1
  <2>1. k \in 1 .. Len(program[p]) /\ kind = Kind(p, k)
    BY <1>1, NextIs DEF Handle
  <2> HIDE DEF k, kind
  <2>2. Given(p).nodes = 0
    BY <1>2, <1>3, <2>1, CallIs
  <2>3. client[n] # NoClient => Given(p).nodes > 0
    BY <1>2 DEF LInv, NodeInv, ClientGlobal
  <2> QED
    BY <2>2, <2>3
<1>4. ASSUME kind = "reduce" PROVE NextCall(p).root \in Range(AllCallers(p))
  <2> DEFINE k == calls[p] + 1
             call == NextCall(p)
  <2>1. k \in 1 .. Len(program[p]) /\ kind = Kind(p, k) /\ call = program[p][k]
    BY <1>1, NextIs DEF Handle
  <2> HIDE DEF k, kind, call
  <2>2. call.root \in Members(NodeOf[p])
    BY <1>2, <1>4, <2>1, CallIs
  <2> QED
    BY <1>2, <2>2 DEF call
<1>5. CASE LocalAllReduce(p)
  <2>1. ~RingPanics(p)
    BY <1>1, <1>5, RingCuts DEF LocalAllReduce
  <2>2. AnswersTo(Range(AllCallers(p))) /\ alive' = [alive EXCEPT ![n] = TRUE]
    BY <1>5, <2>1 DEF LocalAllReduce, Execute, Answer, AnswersTo
  <2> QED
    BY <1>1, <1>2, <1>5, <2>2, AliveStays DEF LocalAllReduce, Execute, Executed
<1>6. CASE GlobalAllReduceFails(p)
  <2>1. AnswersTo(Range(AllCallers(p))) /\ alive' = [alive EXCEPT ![n] = TRUE]
    BY <1>6 DEF GlobalAllReduceFails, Execute, Answer, AnswersTo
  <2> QED
    BY <1>1, <1>2, <1>6, <2>1, AliveStays DEF GlobalAllReduceFails, Execute, Executed
<1>7. CASE LocalReduceReturns(p)
  <2>1. kind = "reduce"
    BY <1>7 DEF LocalReduceReturns, Joins, Handle, Makes
  <2>2. client[n] = NoClient /\ NextCall(p).root \in Range(AllCallers(p))
    BY <1>3, <1>4, <2>1
  <2>3. AnswersTo(Range(AllCallers(p))) /\ alive' = [alive EXCEPT ![n] = TRUE]
    BY <1>7, <2>2 DEF LocalReduceReturns, Execute, Answer, AnswersTo
  <2> QED
    BY <1>1, <1>2, <1>7, <2>3, AliveStays DEF LocalReduceReturns, Execute, Executed
<1>8. CASE LocalBroadcastReturns(p)
  <2>1. kind = "broadcast"
    BY <1>8 DEF LocalBroadcastReturns, Joins, Handle, Makes
  <2>2. client[n] = NoClient
    BY <1>3, <2>1
  <2>3. AnswersTo(Range(AllCallers(p))) /\ alive' = [alive EXCEPT ![n] = TRUE]
    BY <1>8, <2>2 DEF LocalBroadcastReturns, Execute, Answer, AnswersTo
  <2> QED
    BY <1>1, <1>2, <1>8, <2>3, AliveStays DEF LocalBroadcastReturns, Execute, Executed
<1> QED
  BY <1>5, <1>6, <1>7, <1>8

(* No call is refused. *)
LEMMA NoneRefused ==
    ASSUME TInv, Coherent, LInv, NEW p \in Peers, PeerStep(p)
    PROVE  \/ RegisterPeer(p) \/ OpWaits(p) \/ GlobalAllReduceStarts(p) \/ FinishPeer(p)
           \/ LocalAllReduce(p) \/ GlobalAllReduceFails(p)
           \/ LocalReduceReturns(p) \/ LocalBroadcastReturns(p)
<1> DEFINE n == NodeOf[p]
           k == calls[p] + 1
           call == NextCall(p)
<1>1. ASSUME NEW kinds, Makes(p, kinds)
      PROVE  /\ p \in Members(n) /\ p \in Participants /\ n \in Nodes
             /\ k \in 1 .. Len(program[p]) /\ k - 1 = calls[p] /\ calls[p] \in Nat
             /\ call = program[p][k] /\ Kind(p, k) \in kinds /\ Kind(p, k) # "reset"
  <2>1. /\ p \in Members(n) /\ p \in Participants /\ n \in Nodes
        /\ k \in 1 .. Len(program[p]) /\ k - 1 = calls[p] /\ calls[p] \in Nat
        /\ call = program[p][k] /\ Kind(p, k) \in kinds
    BY <1>1, NextIs
  <2> HIDE DEF k, call
  <2> QED
    BY <2>1, CallIs
<1>2. ASSUME Makes(p, {"register"})
      PROVE  /\ call.config = Given(p) /\ call.config.valid
             /\ p \notin peers[n] /\ ConfigOf(n, call.config) = call.config
  <2>1. /\ p \in Members(n) /\ p \in Participants /\ n \in Nodes
        /\ k \in 1 .. Len(program[p]) /\ k - 1 = calls[p] /\ calls[p] \in Nat
        /\ call = program[p][k] /\ Kind(p, k) = "register"
    BY <1>1, <1>2
  <2> HIDE DEF k, call
  <2>2. call.config = Given(p) /\ call.config.valid /\ (k = 1 \/ Kind(p, k - 1) = "finish")
    BY <2>1, CallIs
  <2>3. NodeInv(n)
    BY <2>1 DEF LInv
  <2>4. p \notin peers[n]
    BY <2>1, <2>2, <2>3 DEF NodeInv, Registered
  <2>5. config[n] \in {NoConfig, Given(p)}
    BY <2>1, <2>3 DEF NodeInv, ConfigGiven
  <2> QED
    BY <2>2, <2>4, <2>5 DEF ConfigOf
<1>3. ASSUME Makes(p, {"finish"}) PROVE p \in peers[n]
  <2>1. /\ p \in Members(n) /\ p \in Participants /\ n \in Nodes
        /\ k \in 1 .. Len(program[p]) /\ k - 1 = calls[p] /\ calls[p] \in Nat
        /\ Kind(p, k) = "finish"
    BY <1>1, <1>3
  <2> HIDE DEF k
  <2>2. k # 1 /\ Kind(p, k - 1) # "finish"
    BY <2>1, CallIs
  <2>3. Registered(p)
    BY <2>1, <2>2 DEF Registered
  <2> QED
    BY <2>1, <2>3 DEF LInv, NodeInv
<1>4. ~InvalidConfig(p) /\ ~RegisterRefused(p)
  BY <1>2 DEF InvalidConfig, RegisterRefused, Handle
<1>5. ~OpRefused(p) /\ ~OpMismatch(p)
  BY CallAccepted DEF OpRefused, OpMismatch
<1>6. ~FinishRefused(p)
  BY <1>3 DEF FinishRefused, Handle
<1>7. ~ResetServer(p)
  BY <1>1 DEF ResetServer, Handle
<1> QED
  BY <1>4, <1>5, <1>6, <1>7 DEF PeerStep

(* What a peer finds when it registers. *)
LEMMA RegisterFinds ==
    ASSUME TInv, Coherent, LInv, NEW p \in Peers, RegisterPeer(p)
    PROVE  /\ NextCall(p).config = Given(p)
           /\ Kind(p, calls[p] + 1) = "register"
           /\ \A q \in Members(NodeOf[p]) : Done(q) = calls[p]
           /\ \A q \in peers[NodeOf[p]] : q \in callbacks[NodeOf[p]]
<1> DEFINE n == NodeOf[p]
           k == calls[p] + 1
<1>1. /\ p \in Members(n) /\ p \in Participants /\ n \in Nodes
      /\ k \in 1 .. Len(program[p]) /\ k - 1 = calls[p] /\ calls[p] \in Nat /\ Done(p) = calls[p]
      /\ NextCall(p) = program[p][k] /\ Kind(p, k) = "register"
  BY NextIs DEF RegisterPeer, Handle
<1>2. NextCall(p).config = Given(p) /\ (k = 1 \/ Kind(p, k - 1) = "finish")
  <2> HIDE DEF k, n
  <2>1. /\ program[p][k].config = Given(p)
        /\ k = 1 \/ Kind(p, k - 1) = "finish"
    BY <1>1, CallIs
  <2> QED
    BY <1>1, <2>1
<1>3. \A q \in Members(n) : Done(q) = calls[p]
  BY <1>1, RegisterAt DEF RegisterPeer, Handle, LInv
<1>4. ASSUME NEW q \in peers[n] PROVE q \in callbacks[n]
  <2>0. NodeInv(n) /\ alive[n]
    BY <1>1 DEF LInv, NodeInv
  <2>1. /\ q \in Members(n) /\ Registered(q)
        /\ q \in Participants /\ q \in Peers /\ NodeOf[q] = n
    BY <1>4, <2>0, MemberIs DEF NodeInv
  <2>2. calls[q] \in {calls[p], calls[p] + 1} /\ calls[q] > 0
    BY <1>1, <1>3, <2>1, Counts DEF Registered
  <2>3. ASSUME calls[q] = calls[p] PROVE FALSE
    <3>2. k - 1 \in 1 .. Len(program[p]) /\ Kind(p, k - 1) = "finish" /\ calls[q] = k - 1
      BY <1>1, <1>2, <2>2, <2>3
    <3> HIDE DEF k
    <3>3. Kind(q, k - 1) = "finish"
      BY <1>1, <2>1, <3>2, SameKind
    <3> QED
      BY <2>1, <3>2, <3>3 DEF Registered
  <2>4. calls[q] = k /\ Waiting(q)
    BY <1>1, <1>3, <2>1, <2>2, <2>3, Counts
  <2>5. Kind(q, calls[q]) = "register"
    BY <1>1, <2>1, <2>4, SameKind
  <2>6. PICK x \in Places : q \in HeldAt(n)[x]
    BY <2>0, <1>1, <2>1, <2>4 DEF TInv, IInv, Parted, WaitingAt
  <2>7. x # "task"
    BY <2>6, HeldAtIs DEF RegisterPeer, Handle, Idle
  <2>8. ASSUME x \in Kinds PROVE FALSE
    <3>2. q \in Range(ops[n][x])
      BY <2>6, <2>8, HeldAtIs
    <3>3. Kind(q, calls[q]) = x
      BY <2>0, <2>8, <3>2 DEF NodeInv, Placed
    <3> QED
      BY <2>5, <2>8, <3>3 DEF Kinds
  <2> QED
    BY <2>6, <2>7, <2>8, PlacesAre, HeldAtIs
<1> QED
  BY <1>1, <1>2, <1>3, <1>4

-----------------------------------------------------------------------------
(* A step of one node and its peers leaves the others alone. *)
SameAt(m) ==
    /\ alive'[m] = alive[m] /\ config'[m] = config[m] /\ peers'[m] = peers[m]
    /\ callbacks'[m] = callbacks[m] /\ ops'[m] = ops[m] /\ task'[m] = task[m]
    /\ client'[m] # NoClient => client[m] # NoClient

LEMMA SameNode ==
    ASSUME TInv, Coherent, NEW m \in Nodes, NodeInv(m), UNCHANGED program, SameAt(m),
           \A p \in Members(m) : calls'[p] = calls[p]
    PROVE  NodeInv(m)'
<1>1. /\ Participants' = Participants /\ Members(m)' = Members(m)
      /\ \A p : Given(p)' = Given(p)
      /\ \A p, k : program'[p][k] = program[p][k]
  BY SameProgram
<1>2. alive[m] /\ Placed(m) /\ ConfigGiven(m) /\ ClientGlobal(m) /\ TaskWhole(m)
      /\ peers[m] = {p \in Members(m) : Registered(p)}
  BY DEF NodeInv
<1>3. \A x \in Places : \A p \in HeldAt(m)[x] : p \in Members(m)
  BY <1>2, HeldIs
<1>4. /\ callbacks[m] \subseteq Members(m) /\ task[m].callers \subseteq Members(m)
      /\ \A kind \in Kinds : Range(ops[m][kind]) \subseteq Members(m)
  BY <1>3, PlacesAre, HeldAtIs
<1>5. \A p \in Members(m) : Kind(p, calls[p])' = Kind(p, calls[p])
  BY <1>1 DEF Kind
<1>6. Placed(m)'
  BY <1>2, <1>4, <1>5 DEF Placed, SameAt
<1>7. peers'[m] = {p \in Members(m)' : Registered(p)'}
  BY <1>1, <1>2, <1>5 DEF Registered, SameAt
<1>8. ConfigGiven(m)'
  BY <1>1, <1>2 DEF ConfigGiven, SameAt
<1>9. ClientGlobal(m)'
  BY <1>1, <1>2 DEF ClientGlobal, SameAt
<1>10. TaskWhole(m)'
  BY <1>1, <1>2 DEF TaskWhole, SameAt
<1> QED
  BY <1>2, <1>6, <1>7, <1>8, <1>9, <1>10 DEF NodeInv, SameAt

LEMMA NodeAlone ==
    ASSUME TInv, Coherent, LInv, UNCHANGED program, NEW n \in Nodes,
           DOMAIN config' = Nodes, InSync', NodeInv(n)', \A m \in Nodes \ {n} : SameAt(m),
           \A p \in Peers : NodeOf[p] # n => calls'[p] = calls[p]
    PROVE  LInv'
<1>1. ASSUME NEW m \in Nodes \ {n} PROVE NodeInv(m)'
  <2>1. NodeInv(m)
    BY DEF LInv
  <2>2. \A p \in Members(m) : calls'[p] = calls[p]
    BY MemberIs
  <2> QED
    BY <2>1, <2>2, SameNode
<1> QED
  BY <1>1 DEF LInv

(* What a handler does on its node. *)
LEMMA HandlerFinds ==
    ASSUME TInv, Coherent, LInv, NEW p \in Peers, NEW kinds, Handle(p, kinds)
    PROVE  /\ NodeOf[p] \in Nodes /\ NodeInv(NodeOf[p]) /\ p \in Members(NodeOf[p])
           /\ p \in Participants
           /\ UNCHANGED program
           /\ \A q \in Peers : NodeOf[q] # NodeOf[p] => calls'[q] = calls[q]
           /\ calls'[p] = calls[p] + 1 /\ calls[p] \in Nat /\ Kind(p, calls[p] + 1) \in kinds
           /\ Kind(p, calls[p] + 1) = NextCall(p).kind
           /\ \A q \in Peers \ {p} : calls'[q] = calls[q]
           /\ task[NodeOf[p]] = Idle
           /\ \A x \in Places : \A q \in HeldAt(NodeOf[p])[x] :
                 q \in Peers /\ q # p /\ calls'[q] = calls[q] /\ q \in Members(NodeOf[p])
<1> DEFINE n == NodeOf[p]
<1>1. Makes(p, kinds) /\ task[n] = Idle
  BY DEF Handle
<1>2. /\ p \in Members(n) /\ n \in Nodes /\ p \in Participants
      /\ calls'[p] = calls[p] + 1 /\ calls[p] \in Nat
      /\ Kind(p, calls[p] + 1) \in kinds
      /\ Kind(p, calls[p] + 1) = NextCall(p).kind
      /\ \A q \in Peers \ {p} : calls'[q] = calls[q]
  BY <1>1, NextIs
<1>3. NodeInv(n) /\ alive[n]
  BY <1>2 DEF LInv, NodeInv
<1>4. Handles(n, p)
  BY HandlesCall DEF TInv
<1>5. ASSUME NEW x \in Places, NEW q \in HeldAt(n)[x]
      PROVE  q \in Peers /\ q # p /\ q \in Members(n)
  <2>1. q \in Peers /\ q \in Members(n)
    BY <1>2, <1>3, <1>5, HeldIs
  <2>2. q # p
    BY <1>4, <1>5 DEF Handles, Parted
  <2> QED
    BY <2>1, <2>2
<1> QED
  BY <1>1, <1>2, <1>3, <1>5 DEF Makes

LEMMA PeersStep ==
    ASSUME TInv, Coherent, LInv, NEW p \in Peers, NEW kinds, Handle(p, kinds),
           peers'[NodeOf[p]] = IF Kind(p, calls[p] + 1) = "finish" THEN peers[NodeOf[p]] \ {p}
                               ELSE peers[NodeOf[p]] \cup {p}
    PROVE  peers'[NodeOf[p]] = {q \in Members(NodeOf[p])' : Registered(q)'}
<1> DEFINE n == NodeOf[p]
<1>1. /\ p \in Members(n) /\ p \in Peers /\ calls'[p] = calls[p] + 1 /\ calls[p] \in Nat
      /\ UNCHANGED program /\ \A q \in Peers \ {p} : calls'[q] = calls[q]
      /\ NodeInv(n)
  BY HandlerFinds
<1>2. Members(n)' = Members(n) /\ Members(n) \subseteq Peers
  BY <1>1, SameProgram, ParticipantsAre
<1>3. \A q \in Members(n) \ {p} : Registered(q)' <=> Registered(q)
  BY <1>1, <1>2 DEF Registered, Kind
<1>4. Registered(p)' <=> Kind(p, calls[p] + 1) # "finish"
  BY <1>1 DEF Registered, Kind
<1>5. peers[n] = {q \in Members(n) : Registered(q)}
  BY <1>1 DEF NodeInv
<1> HIDE DEF n
<1>6. \A q : q \in peers'[n] <=> q \in Members(n)' /\ Registered(q)'
  BY <1>1, <1>2, <1>3, <1>4, <1>5 DEF n
<1> QED
  BY <1>6 DEF n

LEMMA PlacedStep ==
    ASSUME TInv, Coherent, LInv, NEW p \in Peers, NEW kinds, Handle(p, kinds),
           \A q \in callbacks'[NodeOf[p]] :
              \/ q \in callbacks[NodeOf[p]]
              \/ q = p /\ Kind(p, calls[p] + 1) = "register",
           \A kind \in Kinds : \A q \in Range(ops'[NodeOf[p]][kind]) :
              \/ q \in Range(ops[NodeOf[p]][kind])
              \/ q = p /\ Kind(p, calls[p] + 1) = kind,
           \A q \in task'[NodeOf[p]].callers :
              Kind(q, calls'[q]) = task'[NodeOf[p]].kind
    PROVE  Placed(NodeOf[p])'
<1> DEFINE n == NodeOf[p]
<1>1. /\ calls'[p] = calls[p] + 1 /\ UNCHANGED program /\ NodeInv(n) /\ Placed(n)
      /\ \A x \in Places : \A q \in HeldAt(n)[x] : calls'[q] = calls[q]
  BY HandlerFinds DEF NodeInv
<1>2. /\ \A q \in callbacks[n] : calls'[q] = calls[q]
      /\ \A kind \in Kinds : \A q \in Range(ops[n][kind]) : calls'[q] = calls[q]
  BY <1>1, PlacesAre, HeldAtIs
<1>3. \A q : Kind(q, calls[q])' = Kind(q, calls'[q])
  BY <1>1 DEF Kind
<1> HIDE DEF n
<1>4. \A q \in callbacks'[n] : Kind(q, calls[q])' = "register"
  BY <1>1, <1>2, <1>3 DEF n, Placed
<1>5. \A kind \in Kinds : \A q \in Range(ops'[n][kind]) : Kind(q, calls[q])' = kind
  BY <1>1, <1>2, <1>3 DEF n, Placed
<1>6. \A q \in task'[n].callers : Kind(q, calls[q])' = task'[n].kind
  BY <1>3 DEF n
<1> QED
  BY <1>4, <1>5, <1>6 DEF n, Placed

(* All peers of a node are answered, or nobody. *)
LEMMA SyncWhole ==
    ASSUME TInv, Coherent, InSync, UNCHANGED program, NEW n, NEW d, AnswersTo(Members(n)),
           \A p \in Members(n) : Done(p) = d
    PROVE  InSync'
<1>1. \A p \in Members(n) : \A q \in Participants : NodeOf[p] = NodeOf[q] =>
         q \in Members(n) /\ Done(p) = Done(q)
  BY DEF Members
<1> QED
  BY <1>1, SyncStep

LEMMA SyncNobody ==
    ASSUME TInv, Coherent, InSync, UNCHANGED <<program, results>>
    PROVE  InSync'
<1>1. AnswersTo({})
  BY NobodyAnswered DEF TInv
<1> QED
  BY <1>1, SyncStep

(* Only one place of an operation is emptied, or gets one more.            *)
LEMMA OneOperation ==
    ASSUME TInv, NEW n \in Nodes, NEW kind \in Kinds, NEW s \in Seq(Peers),
           ops' = [ops EXCEPT ![n][kind] = s]
    PROVE  /\ \A m \in Nodes \ {n} : ops'[m] = ops[m]
           /\ ops'[n][kind] = s /\ \A k \in Kinds \ {kind} : ops'[n][k] = ops[n][k]
  BY OpsChanged DEF TInv, IInv

(* The caller of an operation, that changes no more than this and the task. *)
LEMMA OperationKeeps ==
    ASSUME TInv, Coherent, LInv, NEW p \in Peers, Handle(p, Kinds),
           InSync', UNCHANGED <<alive, config, peers, callbacks, client>>,
           NEW kind, kind = NextCall(p).kind, NEW s \in Seq(Peers),
           ops' = [ops EXCEPT ![NodeOf[p]][kind] = s],
           Range(s) \subseteq Range(ops[NodeOf[p]][kind]) \cup {p},
           \A m \in Nodes \ {NodeOf[p]} : task'[m] = task[m],
           \A q \in task'[NodeOf[p]].callers : Kind(q, calls'[q]) = task'[NodeOf[p]].kind,
           ClientGlobal(NodeOf[p])', TaskWhole(NodeOf[p])'
    PROVE  LInv'
<1> DEFINE n == NodeOf[p]
<1>1. /\ n \in Nodes /\ NodeInv(n) /\ p \in Members(n)
      /\ UNCHANGED program
      /\ \A q \in Peers : NodeOf[q] # n => calls'[q] = calls[q]
      /\ Kind(p, calls[p] + 1) \in Kinds /\ Kind(p, calls[p] + 1) = kind
  BY HandlerFinds
<1>2. /\ \A m \in Nodes \ {n} : ops'[m] = ops[m]
      /\ ops'[n][kind] = s /\ \A k \in Kinds \ {kind} : ops'[n][k] = ops[n][k]
  BY <1>1, OneOperation
<1>3. Placed(n)'
  <2>1. \A q \in callbacks'[n] : q \in callbacks[n] \/ (q = p /\ Kind(p, calls[p] + 1) = "register")
    OBVIOUS
  <2>2. ASSUME NEW k \in Kinds, NEW q \in Range(ops'[n][k])
        PROVE  q \in Range(ops[n][k]) \/ (q = p /\ Kind(p, calls[p] + 1) = k)
    BY <1>1, <1>2, <2>2
  <2> HIDE DEF n
  <2> QED
    BY <2>1, <2>2, PlacedStep DEF n
<1>4. peers'[n] = {q \in Members(n)' : Registered(q)'}
  <2>1. Kind(p, calls[p] + 1) # "finish"
    BY <1>1 DEF Kinds
  <2>2. p \in peers[n]
    BY <1>1, AllRegistered
  <2> QED
    BY <2>1, <2>2, PeersStep
<1>5. ConfigGiven(n)'
  <2>1. ConfigGiven(n) /\ Members(n)' = Members(n) /\ \A q : Given(q)' = Given(q)
    BY <1>1, SameProgram DEF NodeInv
  <2> QED
    BY <2>1 DEF ConfigGiven
<1>6. NodeInv(n)'
  BY <1>1, <1>3, <1>4, <1>5 DEF NodeInv
<1>7. \A m \in Nodes \ {n} : SameAt(m)
  BY <1>2 DEF SameAt
<1>8. DOMAIN config' = Nodes
  BY DEF LInv
<1> HIDE DEF n
<1> QED
  BY <1>1, <1>6, <1>7, <1>8, NodeAlone DEF n

LEMMA ExecutedKeeps ==
    ASSUME TInv, Coherent, LInv, NEW p \in Peers, Executed(p) PROVE LInv'
<1> SUFFICES ASSUME NEW kind, kind = NextCall(p).kind PROVE LInv'
  OBVIOUS
<1> DEFINE n == NodeOf[p]
<1>1. /\ n \in Nodes /\ NodeInv(n) /\ UNCHANGED program /\ task[n] = Idle
      /\ \A q \in Members(n) : Done(q) = calls[p]
  BY HandlerFinds, AllRegistered DEF Executed
<1>2. InSync'
  BY <1>1, SyncWhole DEF LInv, Executed
<1>3. /\ ops' = [ops EXCEPT ![n][kind] = <<>>] /\ Handle(p, Kinds)
      /\ UNCHANGED <<alive, config, peers, callbacks, client, task>>
  BY DEF Executed
<1>4. ClientGlobal(n)' /\ TaskWhole(n)'
  <2>1. /\ Members(n)' = Members(n) /\ \A q : Given(q)' = Given(q)
        /\ ClientGlobal(n) /\ TaskWhole(n)
    BY <1>1, SameProgram DEF NodeInv
  <2> QED
    BY <1>3, <2>1 DEF ClientGlobal, TaskWhole
<1>5. \A q \in task'[n].callers : FALSE
  BY <1>1, <1>3 DEF Idle
<1>6. <<>> \in Seq(Peers) /\ Range(<<>>) \subseteq Range(ops[n][kind]) \cup {p}
  BY RangeOfEmpty
<1> QED
  BY <1>2, <1>3, <1>4, <1>5, <1>6, OperationKeeps

LEMMA OpWaitsKeeps ==
    ASSUME TInv, Coherent, LInv, NEW p \in Peers, OpWaits(p) PROVE LInv'
<1> SUFFICES ASSUME NEW kind, kind = NextCall(p).kind PROVE LInv'
  OBVIOUS
<1> DEFINE n == NodeOf[p]
           s == Append(ops[n][kind], p)
<1>0. /\ Handle(p, Kinds) /\ ops' = [ops EXCEPT ![n][kind] = s]
      /\ UNCHANGED <<results, alive, config, peers, callbacks, client, task>>
  BY DEF OpWaits, Joins
<1>1. n \in Nodes /\ NodeInv(n) /\ UNCHANGED program /\ task[n] = Idle /\ kind \in Kinds
  BY <1>0, HandlerFinds
<1>2. InSync'
  BY <1>0, <1>1, SyncNobody DEF LInv
<1>3. ClientGlobal(n)' /\ TaskWhole(n)'
  <2>1. /\ Members(n)' = Members(n) /\ \A q : Given(q)' = Given(q)
        /\ ClientGlobal(n) /\ TaskWhole(n)
    BY <1>1, SameProgram DEF NodeInv
  <2> QED
    BY <1>0, <2>1 DEF ClientGlobal, TaskWhole
<1>4. \A q \in task'[n].callers : FALSE
  BY <1>0, <1>1 DEF Idle
<1>5. s \in Seq(Peers) /\ Range(s) \subseteq Range(ops[n][kind]) \cup {p}
  <2>1. ops[n][kind] \in Seq(Peers)
    BY <1>1 DEF TInv, IInv, ServerTypes
  <2> QED
    BY <2>1, RangeOfAppend
<1> HIDE DEF s
<1> QED
  BY <1>0, <1>2, <1>3, <1>4, <1>5, OperationKeeps

LEMMA StartsKeeps ==
    ASSUME TInv, Coherent, LInv, NEW p \in Peers, GlobalAllReduceStarts(p) PROVE LInv'
<1> SUFFICES ASSUME NEW kind, kind = NextCall(p).kind PROVE LInv'
  OBVIOUS
<1> DEFINE n == NodeOf[p]
           t == [kind |-> "all_reduce", callers |-> Range(AllCallers(p))]
<1>0. /\ Handle(p, Kinds) /\ AllCalled(p) /\ kind = "all_reduce" /\ Handle(p, {"all_reduce"})
      /\ ops' = [ops EXCEPT ![n][kind] = <<>>]
      /\ task' = [task EXCEPT ![n] = t]
      /\ UNCHANGED <<results, alive, config, peers, callbacks, client>>
      /\ client[n] # NoClient
  BY DEF GlobalAllReduceStarts, Joins, Handle, Makes, Kinds
<1>1. /\ n \in Nodes /\ NodeInv(n) /\ UNCHANGED program /\ kind \in Kinds
      /\ Kind(p, calls[p] + 1) = kind /\ p \in Members(n)
  BY <1>0, HandlerFinds
<1>2. InSync'
  BY <1>0, <1>1, SyncNobody DEF LInv
<1>3. /\ task'[n].kind = "all_reduce" /\ task'[n].callers = Members(n)
      /\ \A q \in Members(n) : calls'[q] = calls[p] + 1
      /\ \A m \in Nodes \ {n} : task'[m] = task[m]
  <2>1. /\ Range(AllCallers(p)) = Members(n)
        /\ \A q \in Members(n) : calls'[q] = calls[p] + 1
    BY <1>0, WholeCallers
  <2>2. t.kind = "all_reduce" /\ t.callers = Members(n)
    BY <2>1
  <2> HIDE DEF t
  <2>3. task'[n] = t /\ \A m \in Nodes \ {n} : task'[m] = task[m]
    BY <1>0, <1>1, TaskChanges DEF TInv
  <2> QED
    BY <2>1, <2>2, <2>3
<1> HIDE DEF t
<1>4. ClientGlobal(n)' /\ TaskWhole(n)'
  <2>1. /\ Members(n)' = Members(n) /\ \A q : Given(q)' = Given(q)
        /\ ClientGlobal(n)
    BY <1>1, SameProgram DEF NodeInv
  <2> QED
    BY <1>0, <1>3, <2>1 DEF ClientGlobal, TaskWhole
<1>5. \A q \in task'[n].callers : Kind(q, calls'[q]) = task'[n].kind
  <2>1. ASSUME NEW q \in Members(n) PROVE Kind(q, calls[p] + 1) = "all_reduce"
    <3>1. q \in Participants /\ p \in Participants /\ NodeOf[q] = NodeOf[p]
      BY <1>1, <2>1, MemberIs
    <3>2. calls[p] + 1 \in 1 .. Len(program[p])
      BY <1>0, NextIs DEF Handle
    <3> QED
      BY <1>0, <1>1, <3>1, <3>2, SameKind
  <2> QED
    BY <1>3, <2>1
<1>6. <<>> \in Seq(Peers) /\ Range(<<>>) \subseteq Range(ops[n][kind]) \cup {p}
  BY RangeOfEmpty
<1> QED
  BY <1>0, <1>2, <1>3, <1>4, <1>5, <1>6, OperationKeeps

(* The last peer to register finds all others waiting.                     *)
LEMMA LastRegisters ==
    ASSUME TInv, Coherent, LInv, NEW p \in Peers, RegisterPeer(p), Complete(NodeOf[p], p)
    PROVE  callbacks[NodeOf[p]] \cup {p} = Members(NodeOf[p])
<1> DEFINE n == NodeOf[p]
<1>1. /\ n \in Nodes /\ NodeInv(n) /\ p \in Members(n) /\ p \in Participants
      /\ \A x \in Places : \A q \in HeldAt(n)[x] : q \in Members(n)
  BY HandlerFinds DEF RegisterPeer
<1>2. NextCall(p).config = Given(p) /\ \A q \in peers[n] : q \in callbacks[n]
  BY RegisterFinds
<1>3. Given(p).devices = Cardinality(Members(n))
  BY <1>1, FirstIsRegister, CallIs
<1>4. config'[n].devices = Given(p).devices
  BY <1>1, <1>2 DEF RegisterPeer, LInv
<1>5. peers[n] \cup {p} \in SUBSET Members(n)
  BY <1>1 DEF NodeInv
<1>6. Cardinality(peers[n] \cup {p}) = Cardinality(Members(n)) /\ IsFiniteSet(Members(n))
  BY <1>3, <1>4, ParticipantsAre DEF Complete
<1>7. peers[n] \cup {p} = Members(n)
  <2> HIDE DEF n
  <2> QED
    BY <1>5, <1>6, FS_Subset
<1>8. callbacks[n] \subseteq Members(n)
  BY <1>1, HeldAtIs, PlacesAre
<1> QED
  BY <1>1, <1>2, <1>7, <1>8

LEMMA RegisterKeeps ==
    ASSUME TInv, Coherent, LInv, NEW p \in Peers, RegisterPeer(p) PROVE LInv'
<1> DEFINE n == NodeOf[p]
           all == callbacks[n] \cup {p}
           t == [kind |-> "register", callers |-> {}]
<1>1. /\ n \in Nodes /\ NodeInv(n) /\ p \in Members(n) /\ p \in Participants
      /\ UNCHANGED program
      /\ \A q \in Peers : NodeOf[q] # n => calls'[q] = calls[q]
      /\ task[n] = Idle
      /\ calls'[p] = calls[p] + 1
      /\ \A x \in Places : \A q \in HeldAt(n)[x] : q \in Members(n)
  BY HandlerFinds DEF RegisterPeer
<1>2. /\ NextCall(p).config = Given(p) /\ Kind(p, calls[p] + 1) = "register"
      /\ \A q \in Members(n) : Done(q) = calls[p]
  BY RegisterFinds
<1>3. /\ Handle(p, {"register"}) /\ UNCHANGED <<ops, alive>>
      /\ config' = [config EXCEPT ![n] = Given(p)]
      /\ peers' = [peers EXCEPT ![n] = @ \cup {p}]
      /\ client' = IF Given(p).nodes > 0 /\ client[n] = NoClient
                   THEN [client EXCEPT ![n] = [kind |-> "node", state |-> NoState]] ELSE client
  BY <1>2 DEF RegisterPeer
<1>4. \/ /\ callbacks' = [callbacks EXCEPT ![n] = all] /\ UNCHANGED <<results, task>>
      \/ /\ callbacks' = [callbacks EXCEPT ![n] = {}] /\ UNCHANGED task
         /\ AnswersTo(all) /\ Complete(n, p)
      \/ /\ callbacks' = [callbacks EXCEPT ![n] = all] /\ UNCHANGED results
         /\ task' = [task EXCEPT ![n] = t] /\ Complete(n, p) /\ Given(p).nodes > 0
  BY <1>2 DEF RegisterPeer, Answer, AnswersTo
<1>5. Complete(n, p) => all = Members(n)
  BY LastRegisters
<1>6. /\ DOMAIN config = Nodes /\ callbacks \in [Nodes -> SUBSET Peers]
      /\ peers \in [Nodes -> SUBSET Peers] /\ DOMAIN client = Nodes
      /\ task \in [Nodes -> [kind : TaskKinds, callers : SUBSET Peers]]
  BY DEF LInv, TInv, IInv, ServerTypes, MoreServerTypes
<1>7. /\ Members(n)' = Members(n) /\ \A q : Given(q)' = Given(q)
      /\ ClientGlobal(n) /\ TaskWhole(n) /\ ConfigGiven(n)
  BY <1>1, SameProgram DEF NodeInv
<1>8. InSync'
  <2>1. CASE UNCHANGED results
    BY <1>1, <2>1, SyncNobody DEF LInv
  <2>2. CASE AnswersTo(Members(n))
    BY <1>1, <1>2, <2>2, SyncWhole DEF LInv
  <2> QED
    BY <1>4, <1>5, <2>1, <2>2
<1> HIDE DEF all
<1>9. /\ callbacks'[n] \in {all, {}}
      /\ task'[n] \in {Idle, t}
      /\ task'[n] = t => Given(p).nodes > 0 /\ callbacks'[n] = Members(n)
      /\ \A m \in Nodes \ {n} : callbacks'[m] = callbacks[m] /\ task'[m] = task[m]
  BY <1>1, <1>4, <1>5, <1>6 DEF Idle
<1>10. task'[n].callers = {} /\ task'[n].kind \in {"idle", "register"}
       /\ (task'[n].kind = "register" => task'[n] = t)
  BY <1>9 DEF Idle
<1>11. Placed(n)'
  <2>1. \A q \in callbacks'[n] : q \in callbacks[n] \/ (q = p /\ Kind(p, calls[p] + 1) = "register")
    BY <1>2, <1>9 DEF all
  <2>2. \A kind \in Kinds : \A q \in Range(ops'[n][kind]) : q \in Range(ops[n][kind])
    BY <1>3
  <2>3. \A q \in task'[n].callers : FALSE
    BY <1>10
  <2> HIDE DEF n
  <2> QED
    BY <1>3, <2>1, <2>2, <2>3, PlacedStep DEF n
<1>12. peers'[n] = {q \in Members(n)' : Registered(q)'}
  <2>1. peers'[n] = peers[n] \cup {p} /\ Kind(p, calls[p] + 1) # "finish"
    BY <1>1, <1>2, <1>3, <1>6
  <2> QED
    BY <1>3, <2>1, PeersStep
<1>13. ConfigGiven(n)'
  <2>1. config'[n] = Given(p)
    BY <1>1, <1>3, <1>6
  <2>2. \A q \in Members(n) : Given(q) = Given(p)
    BY <1>1, MemberIs, GivenAlike
  <2> QED
    BY <1>7, <2>1, <2>2 DEF ConfigGiven
<1>14. ClientGlobal(n)'
  <2>1. client'[n] # NoClient => client[n] # NoClient \/ Given(p).nodes > 0
    BY <1>3
  <2>2. \A q \in Members(n) : Given(q) = Given(p)
    BY <1>1, MemberIs, GivenAlike
  <2>3. task'[n].kind # "idle" => Given(p).nodes > 0
    BY <1>9, <1>10 DEF Idle
  <2> QED
    BY <1>1, <1>7, <2>1, <2>2, <2>3 DEF ClientGlobal
<1>15. TaskWhole(n)'
  BY <1>7, <1>9, <1>10 DEF TaskWhole
<1>16. NodeInv(n)'
  BY <1>1, <1>3, <1>11, <1>12, <1>13, <1>14, <1>15 DEF NodeInv
<1>17. \A m \in Nodes \ {n} : SameAt(m)
  BY <1>3, <1>6, <1>9 DEF SameAt
<1>18. DOMAIN config' = Nodes
  BY <1>3, <1>6
<1> HIDE DEF n
<1> QED
  BY <1>1, <1>8, <1>16, <1>17, <1>18, NodeAlone

LEMMA FinishKeeps ==
    ASSUME TInv, Coherent, LInv, NEW p \in Peers, FinishPeer(p) PROVE LInv'
<1> DEFINE n == NodeOf[p]
           t == [kind |-> "finish", callers |-> {p}]
<1>1. /\ n \in Nodes /\ NodeInv(n) /\ p \in Members(n) /\ p \in Participants
      /\ UNCHANGED program
      /\ \A q \in Peers : NodeOf[q] # n => calls'[q] = calls[q]
      /\ task[n] = Idle
      /\ calls'[p] = calls[p] + 1 /\ Kind(p, calls[p] + 1) = "finish"
  BY HandlerFinds DEF FinishPeer
<1>2. /\ Handle(p, {"finish"}) /\ UNCHANGED <<ops, alive, config, callbacks, client>>
      /\ peers' = [peers EXCEPT ![n] = @ \ {p}]
      /\ \/ AnswersTo({p}) /\ UNCHANGED task
         \/ task' = [task EXCEPT ![n] = t] /\ UNCHANGED results /\ client[n] # NoClient
  BY DEF FinishPeer, Answer, AnswersTo
<1>3. InSync'
  <2>1. CASE UNCHANGED results
    BY <1>1, <2>1, SyncNobody DEF LInv
  <2>2. CASE AnswersTo({p})
    <3> DEFINE k == calls[p] + 1
    <3>1. Done(p) = k - 1 /\ k \in 1 .. Len(program[p]) /\ Kind(p, k) = "finish" /\ k \in Nat
      BY <1>1, <1>2, NextIs DEF Handle
    <3> HIDE DEF k
    <3>2. ASSUME NEW q \in Participants, NodeOf[p] = NodeOf[q]
          PROVE  Kind(p, Done(p) + 1) = "finish" /\ Done(p) <= Done(q)
      <4>1. Done(q) = k - 1 \/ Done(q) = k
        BY <1>1, <3>1, <3>2, OthersAt DEF LInv
      <4> QED
        BY <3>1, <4>1
    <3> QED
      BY <1>1, <2>2, <3>2, SyncStep DEF LInv
  <2> QED
    BY <1>2, <2>1, <2>2
<1>4. /\ task'[n] \in {Idle, t} /\ (task'[n] = t => client[n] # NoClient)
      /\ \A m \in Nodes \ {n} : task'[m] = task[m]
  <2>1. task \in [Nodes -> [kind : TaskKinds, callers : SUBSET Peers]]
    BY DEF TInv, IInv, ServerTypes
  <2> QED
    BY <1>1, <1>2, <2>1 DEF Idle
<1>5. /\ \/ task'[n].kind = "idle" /\ task'[n].callers = {}
         \/ task'[n].kind = "finish" /\ task'[n].callers = {p} /\ client[n] # NoClient
  BY <1>4 DEF Idle
<1> HIDE DEF t
<1>6. /\ Members(n)' = Members(n) /\ \A q : Given(q)' = Given(q)
      /\ ClientGlobal(n) /\ ConfigGiven(n) /\ peers \in [Nodes -> SUBSET Peers]
  BY <1>1, SameProgram DEF NodeInv, TInv, MoreServerTypes
<1>7. peers'[n] = peers[n] \ {p} /\ \A m \in Nodes \ {n} : peers'[m] = peers[m]
  BY <1>1, <1>2, <1>6
<1>8. Placed(n)'
  <2>1. \A q \in task'[n].callers : Kind(q, calls'[q]) = task'[n].kind
    BY <1>1, <1>5
  <2> HIDE DEF n
  <2> QED
    BY <1>2, <2>1, PlacedStep DEF n
<1>9. peers'[n] = {q \in Members(n)' : Registered(q)'}
  BY <1>1, <1>2, <1>7, PeersStep
<1>10. ConfigGiven(n)'
  BY <1>2, <1>6, <1>7 DEF ConfigGiven
<1>11. ClientGlobal(n)' /\ TaskWhole(n)'
  BY <1>1, <1>2, <1>5, <1>6 DEF ClientGlobal, TaskWhole
<1>12. NodeInv(n)'
  BY <1>1, <1>2, <1>8, <1>9, <1>10, <1>11 DEF NodeInv
<1>13. \A m \in Nodes \ {n} : SameAt(m)
  BY <1>2, <1>4, <1>7 DEF SameAt
<1>14. DOMAIN config' = Nodes
  BY <1>2 DEF LInv
<1> HIDE DEF n
<1> QED
  BY <1>1, <1>3, <1>12, <1>13, <1>14, NodeAlone

-----------------------------------------------------------------------------
(* A server has what it awaited.                                           *)
LEMMA AwaitedKeeps ==
    ASSUME TInv, Coherent, LInv, NEW n \in Nodes, task' = [task EXCEPT ![n] = Idle],
           UNCHANGED <<program, calls, ops, alive, config, peers>>, InSync',
           \A m \in Nodes : client'[m] # NoClient => client[m] # NoClient,
           callbacks' \in {callbacks, [callbacks EXCEPT ![n] = {}]}
    PROVE  LInv'
<1>1. /\ NodeInv(n) /\ DOMAIN config = Nodes /\ callbacks \in [Nodes -> SUBSET Peers]
      /\ task'[n] = Idle /\ \A m \in Nodes \ {n} : task'[m] = task[m]
  BY TaskChanges DEF LInv, TInv, IInv, ServerTypes
<1>2. /\ Members(n)' = Members(n) /\ \A q : Given(q)' = Given(q)
      /\ \A p, k : program'[p][k] = program[p][k]
  BY SameProgram
<1>3. callbacks'[n] \subseteq callbacks[n] /\ \A m \in Nodes \ {n} : callbacks'[m] = callbacks[m]
  BY <1>1
<1>4. task'[n].kind = "idle" /\ task'[n].callers = {}
  BY <1>1 DEF Idle
<1>5. Placed(n)'
  BY <1>1, <1>2, <1>3, <1>4 DEF NodeInv, Placed, Kind
<1>6. peers'[n] = {q \in Members(n)' : Registered(q)'}
  BY <1>1, <1>2 DEF NodeInv, Registered, Kind
<1>7. ConfigGiven(n)' /\ ClientGlobal(n)' /\ TaskWhole(n)'
  BY <1>1, <1>2, <1>4 DEF NodeInv, ConfigGiven, ClientGlobal, TaskWhole
<1>8. NodeInv(n)'
  BY <1>1, <1>5, <1>6, <1>7 DEF NodeInv
<1>9. \A m \in Nodes \ {n} : SameAt(m)
  BY <1>1, <1>3 DEF SameAt
<1> QED
  BY <1>1, <1>8, <1>9, NodeAlone

(* All peers of a node wait for the same call. *)
LEMMA WholeWaits ==
    ASSUME TInv, Coherent, LInv, NEW n \in Nodes, NEW x \in Places, HeldAt(n)[x] = Members(n),
           \A p \in Members(n) : Kind(p, calls[p]) # "finish", NEW q \in Members(n)
    PROVE  \A p \in Members(n) : Done(p) = Done(q) /\ calls[p] = Done(q) + 1
<1>1. \A p \in Members(n) : calls[p] = Done(p) + 1
  BY HeldIs DEF LInv, NodeInv
<1>2. \A p \in Members(n) : Done(p) = Done(q)
  BY <1>1, EqualDone DEF LInv
<1> QED
  BY <1>1, <1>2

LEMMA WholeAnswered ==
    ASSUME TInv, Coherent, LInv, NEW n \in Nodes, NEW x \in Places, HeldAt(n)[x] = Members(n),
           \A p \in Members(n) : Kind(p, calls[p]) # "finish",
           AnswersTo(Members(n)), UNCHANGED program
    PROVE  InSync'
<1>1. CASE Members(n) = {}
  BY <1>1, SyncStep DEF LInv
<1>2. ASSUME NEW q \in Members(n) PROVE InSync'
  BY <1>2, WholeWaits, SyncWhole DEF LInv
<1> QED
  BY <1>1, <1>2

LEMMA NodeStepKeepsL ==
    ASSUME TInv, Coherent, LInv, NEW n \in Nodes, NodeStep(n), UNCHANGED program PROVE LInv'
<1>0. NodeInv(n) /\ alive[n] /\ DOMAIN client = Nodes
  BY DEF LInv, NodeInv, TInv, MoreServerTypes
<1>1. CASE GlobalRegisterReturns(n)
  <2>1. /\ task[n].kind = "register" /\ task' = [task EXCEPT ![n] = Idle]
        /\ UNCHANGED <<program, calls, ops, alive, config, peers>>
        /\ callbacks' = [callbacks EXCEPT ![n] = {}]
        /\ AnswersTo(callbacks[n])
    BY <1>1 DEF GlobalRegisterReturns, Answer, AnswersTo
  <2>2. callbacks[n] = Members(n) /\ \A p \in Members(n) : Kind(p, calls[p]) # "finish"
    BY <1>0, <2>1 DEF NodeInv, TaskWhole, Placed
  <2>3. HeldAt(n)["register"] = Members(n) /\ "register" \in Places
    BY <2>2, HeldAtIs, PlacesAre
  <2>4. InSync'
    BY <2>1, <2>2, <2>3, WholeAnswered
  <2>5. \A m \in Nodes : client'[m] # NoClient => client[m] # NoClient
    <3>1. CASE UNCHANGED client
      BY <3>1
    <3>2. CASE client' = [client EXCEPT ![n].state = reply[n]]
      <4>1. [NoClient EXCEPT !.state = reply[n]] = NoClient
        BY DEF NoClient
      <4> QED
        BY <1>0, <3>2, <4>1
    <3> QED
      BY <1>1, <3>1, <3>2 DEF GlobalRegisterReturns
  <2> QED
    BY <2>1, <2>4, <2>5, AwaitedKeeps
<1>2. CASE GlobalAllReduceReturns(n)
  <2>1. /\ task[n].kind = "all_reduce" /\ task' = [task EXCEPT ![n] = Idle]
        /\ UNCHANGED <<program, calls, ops, alive, config, peers, callbacks, client>>
        /\ AnswersTo(task[n].callers)
    BY <1>2 DEF GlobalAllReduceReturns, Answer, AnswersTo
  <2>2. task[n].callers = Members(n) /\ \A p \in Members(n) : Kind(p, calls[p]) # "finish"
    BY <1>0, <2>1 DEF NodeInv, TaskWhole, Placed
  <2>3. HeldAt(n)["task"] = Members(n) /\ "task" \in Places
    BY <2>2, HeldAtIs, PlacesAre
  <2>4. InSync'
    BY <2>1, <2>2, <2>3, WholeAnswered
  <2> QED
    BY <2>1, <2>4, AwaitedKeeps
<1>3. CASE GlobalFinishReturns(n)
  <2>1. /\ task[n].kind = "finish" /\ task' = [task EXCEPT ![n] = Idle]
        /\ UNCHANGED <<program, calls, ops, alive, config, peers, callbacks>>
        /\ client' = [client EXCEPT ![n] = NoClient]
        /\ AnswersTo(task[n].callers)
    BY <1>3 DEF GlobalFinishReturns, Answer, AnswersTo
  <2>2. PICK p \in Members(n) : task[n].callers = {p} /\ Kind(p, calls[p]) = "finish"
    BY <1>0, <2>1 DEF NodeInv, TaskWhole, Placed
  <2>3. p \in HeldAt(n)["task"] /\ "task" \in Places
    BY <2>2, HeldAtIs, PlacesAre
  <2> DEFINE k == calls[p]
  <2>4. /\ p \in Participants /\ p \in Peers /\ k = Done(p) + 1 /\ Done(p) \in Nat
        /\ k \in 1 .. Len(program[p]) /\ NodeOf[p] = n /\ Done(p) = k - 1 /\ k \in Nat
        /\ Kind(p, k) = "finish"
    BY <1>0, <2>2, <2>3, HeldIs
  <2> HIDE DEF k
  <2>5. ASSUME NEW q \in Participants, NodeOf[p] = NodeOf[q]
        PROVE  Kind(p, Done(p) + 1) = "finish" /\ Done(p) <= Done(q)
    <3>1. Done(q) = k - 1 \/ Done(q) = k
      BY <2>4, <2>5, OthersAt DEF LInv
    <3> QED
      BY <2>4, <3>1
  <2>6. InSync'
    <3>1. \A y \in {p} : \A q \in Participants : NodeOf[y] = NodeOf[q] =>
             Kind(y, Done(y) + 1) = "finish" /\ Done(y) <= Done(q)
      BY <2>5
    <3>2. AnswersTo({p})
      BY <2>1, <2>2
    <3> QED
      BY <2>1, <3>1, <3>2, SyncStep DEF LInv
  <2>7. \A m \in Nodes : client'[m] # NoClient => client[m] # NoClient
    BY <1>0, <2>1
  <2> QED
    BY <2>1, <2>6, <2>7, AwaitedKeeps
<1>4. CASE UNCHANGED <<clientVars, serverVars>>
  <2>1. \A m \in Nodes \ {n} : SameAt(m)
    BY <1>4 DEF SameAt, serverVars
  <2>2. SameAt(n)
    BY <1>4 DEF SameAt, serverVars
  <2>3. InSync'
    BY <1>4, SyncNobody DEF clientVars, LInv
  <2>4. UNCHANGED calls /\ DOMAIN config' = Nodes
    BY <1>4 DEF clientVars, serverVars, LInv
  <2>5. NodeInv(n)'
    BY <1>0, <2>2, <2>4, SameNode
  <2> QED
    BY <2>1, <2>3, <2>4, <2>5, NodeAlone
<1> QED
  BY <1>1, <1>2, <1>3, <1>4 DEF NodeStep, GlobalAllReduceMeets

LEMMA UnchangedKeeps ==
    ASSUME TInv, Coherent, LInv, UNCHANGED <<clientVars, serverVars>> PROVE LInv'
<1>1. \A m \in Nodes : SameAt(m)
  BY DEF SameAt, serverVars
<1>2. InSync'
  BY SyncNobody DEF clientVars, LInv
<1>3. UNCHANGED <<calls, program>> /\ DOMAIN config' = Nodes
  BY DEF clientVars, serverVars, LInv
<1>4. \A m \in Nodes : NodeInv(m)'
  BY <1>1, <1>3, SameNode DEF LInv
<1> QED
  BY <1>2, <1>3, <1>4 DEF LInv

LEMMA LocalStart == ASSUME Init, Coherent PROVE LInv
<1>1. InSync
  <2>1. \A p \in Participants : Done(p) = 0
    BY ParticipantsAre DEF Init, Done
  <2> QED
    BY <2>1 DEF InSync, Sync
<1>2. ASSUME NEW n \in Nodes PROVE NodeInv(n)
  <2>1. /\ alive[n] /\ peers[n] = {} /\ callbacks[n] = {} /\ ops[n] = NoOps
        /\ task[n] = Idle /\ client[n] = NoClient /\ config[n] = NoConfig
    BY DEF Init
  <2>2. \A p \in Peers : ~Registered(p)
    BY DEF Init, Registered
  <2>3. peers[n] = {p \in Members(n) : Registered(p)}
    BY <2>1, <2>2, ParticipantsAre
  <2>4. \A kind \in Kinds : Range(ops[n][kind]) = {}
    BY <2>1, RangeOfEmpty DEF NoOps
  <2>5. Placed(n)
    BY <2>1, <2>4 DEF Placed, Idle
  <2> QED
    BY <2>1, <2>3, <2>5 DEF NodeInv, ConfigGiven, ClientGlobal, TaskWhole, Idle
<1>3. DOMAIN config = Nodes
  BY DEF Init
<1> QED
  BY <1>1, <1>2, <1>3 DEF LInv

LEMMA LocalStep == ASSUME TInv, Coherent, LInv, [Next]_vars PROVE LInv'
<1>0. UNCHANGED program
  BY ProgramStep
<1>1. ASSUME NEW p \in Peers, PeerStep(p) PROVE LInv'
  BY <1>1, NoneRefused, RegisterKeeps, OpWaitsKeeps, StartsKeeps, FinishKeeps, Executes,
     ExecutedKeeps
<1>2. ASSUME NEW n \in Nodes, NodeStep(n) PROVE LInv'
  BY <1>0, <1>2, NodeStepKeepsL
<1>3. CASE UNCHANGED vars
  BY <1>3, UnchangedKeeps DEF vars
<1> QED
  BY <1>1, <1>2, <1>3 DEF Next

LEMMA LocalInductive == Spec => [](TInv /\ (Coherent => LInv))
<1>1. Init => TInv /\ (Coherent => LInv)
  BY TypesStart, LocalStart
<1>2. TInv /\ (Coherent => LInv) /\ [Next]_vars => TInv' /\ (Coherent => LInv)'
  <2>1. ASSUME TInv, [Next]_vars PROVE Coherent' <=> Coherent
    BY <2>1, ProgramStep DEF Coherent
  <2> QED
    BY <2>1, TypesStay, LocalStep
<1> QED
  BY <1>1, <1>2, PTL DEF Spec

-----------------------------------------------------------------------------
(* The invariant of the nodes, if the calls of all peers go together.      *)
Connected == Coherent /\ \A p \in Participants : Given(p).nodes > 0

Homes == {NodeOf[q] : q \in Participants}

(* A node has left as many all-reduces as its peers. *)
Reduced(p, d) == Cardinality({k \in 1 .. d : Kind(p, k) = "all_reduce"})
Rounds ==
    /\ DOMAIN round = Nodes
    /\ \A n \in Nodes : \A p \in Members(n) : round[n] = Reduced(p, Done(p))

(* A peer gets no answer before all have called, except to Finish. *)
Across ==
    \A p, q \in Participants :
        \/ Done(p) <= calls[q]
        \/ Done(p) <= calls[q] + 1 /\ Kind(p, Done(p)) = "finish"

(* A node knows the topology as long as one of its peers takes part. *)
Told(n) == client[n] # NoClient /\ client[n].state # NoState
Active(p) == Done(p) > 0 /\ Kind(p, Done(p)) # "finish"
ToldActive == \A n \in Nodes : Told(n) <=> \E p \in Members(n) : Active(p)

(* What a server awaits from the orchestrator. *)
Replied(n) == task[n].kind = "register" /\ reply[n] # NoReply
Requested(n) ==
    IF task[n].kind = "register"
    THEN request[n] = RegisterRequest(Cardinality(Homes), Cardinality(Members(n)))
    ELSE request[n] = FinishRequest
AwaitedAt(n) ==
    /\ task[n].kind = "register" =>
          /\ client[n] # NoClient
          /\ request[n] # NoRequest \/ Pending(n) \/ reply[n] # NoReply
    /\ task[n].kind = "finish" =>
          /\ \A p \in Members(n) : ~Registered(p)
          /\ request[n] # NoRequest \/ reply[n] # NoReply
    /\ request[n] # NoRequest => Requested(n)
    /\ Replied(n) => reply[n].kind = "topology"
Awaited == \A n \in Nodes : AwaitedAt(n)

(* All nodes are told of the topology at once: who registers at a call is  *)
(* answered there if all are.                                              *)
Formed(n, k) == \A p \in Members(n) : Done(p) >= k \/ (Replied(n) /\ calls[p] = k)
FormedAlike ==
    \A m, n \in Homes : \A p \in Participants : \A k \in 1 .. Len(program[p]) :
        Kind(p, k) = "register" /\ Formed(m, k) => Formed(n, k)

(* Who is registered with the orchestrator, and as what. *)
Inside(n) ==
    \/ task[n].kind = "register" /\ request[n] = NoRequest
    \/ Told(n) /\ (task[n].kind = "finish" => request[n] # NoRequest)
InsideRegistered == DOMAIN registered = {n \in Nodes : Inside(n)}

Ids ==
    /\ DOMAIN addresses = {registered[n] : n \in DOMAIN registered}
    /\ \A n \in DOMAIN registered : addresses[registered[n]] = n
    /\ \A r \in requests : /\ r.node \in DOMAIN registered
                           /\ r = [node |-> r.node, id |-> registered[r.node]]

(* While nodes register, none is left of those that have registered before. *)
PendingAlike == requests # {} => \A m \in DOMAIN registered : Pending(m)

PeersOf(nodes) == {p \in Participants : NodeOf[p] \in nodes}
Counted ==
    /\ numNodes \in {None, Cardinality(Homes)}
    /\ (\A m \in DOMAIN registered : Pending(m)) =>
          /\ DOMAIN addresses = 0 .. Cardinality(DOMAIN registered) - 1
          /\ numPeers = Cardinality(PeersOf(DOMAIN registered))

(* The topologies that are on their way, or known. *)
HasTopology(n) == Told(n) \/ Replied(n)
TopologyOf(n) == IF Told(n) THEN client[n].state ELSE reply[n]
RightTopology(n, t) ==
    /\ t.kind = "topology"
    /\ t.id \in DOMAIN t.nodes /\ t.nodes[t.id] = n
    /\ DOMAIN t.nodes = 0 .. Cardinality(Homes) - 1
    /\ Range(t.nodes) = Homes
    /\ t.devices = Cardinality(Participants)
Topologies ==
    \A n \in Nodes : HasTopology(n) =>
        /\ RightTopology(n, TopologyOf(n))
        /\ \A m \in Nodes : HasTopology(m) => TopologyOf(m).nodes = TopologyOf(n).nodes

GInv ==
    /\ Rounds
    /\ Across
    /\ ToldActive
    /\ Awaited
    /\ FormedAlike
    /\ InsideRegistered
    /\ Ids
    /\ PendingAlike
    /\ Counted
    /\ Topologies

(* All of it. *)
AllInv == TInv /\ LInv /\ Connected /\ GInv

-----------------------------------------------------------------------------
LEMMA AllGrouped ==
    ASSUME Connected, NEW p \in Participants, NEW q \in Participants
    PROVE  /\ Coherent /\ Grouped(p, q) /\ Len(program[p]) = Len(program[q])
           /\ \A k \in 1 .. Len(program[p]) :
                 /\ Kind(p, k) = Kind(q, k)
                 /\ Kind(p, k) \in {"register", "all_reduce", "finish"}
<1>1. Coherent /\ Grouped(p, q) /\ Given(p).nodes > 0
  BY DEF Connected, Grouped
<1>2. Len(program[p]) = Len(program[q]) /\ \A k \in 1 .. Len(program[p]) : Kind(p, k) = Kind(q, k)
  BY <1>1, CallsAre
<1>3. ASSUME NEW k \in 1 .. Len(program[p])
      PROVE  Kind(p, k) \in {"register", "all_reduce", "finish"}
  <2>1. Kind(p, k) \in Kinds \cup {"register", "finish"}
    BY <1>1, CallKinds
  <2>2. ASSUME Kind(p, k) \in {"reduce", "broadcast"} PROVE FALSE
    <3>1. Given(p).nodes = 0
      BY <1>1, <2>2, CallIs
    <3> QED
      BY <1>1, <3>1
  <2> QED
    BY <2>1, <2>2 DEF Kinds
<1> QED
  BY <1>1, <1>2, <1>3

LEMMA HomesAre ==
    /\ Homes \subseteq Nodes /\ IsFiniteSet(Homes) /\ Cardinality(Homes) \in Nat
    /\ \A n : n \in Homes <=> Members(n) # {}
    /\ \A p \in Participants : NodeOf[p] \in Homes
<1>1. Homes \subseteq Nodes /\ \A p \in Participants : NodeOf[p] \in Homes
  BY ParticipantsAre, PeersAssumption DEF Homes
<1>2. \A n : n \in Homes <=> Members(n) # {}
  BY DEF Homes, Members
<1>3. IsFiniteSet(Homes)
  <2>1. [p \in Participants |-> NodeOf[p]] \in Surjection(Participants, Homes)
    BY DEF Surjection, Homes
  <2>2. IsFiniteSet(Participants)
    BY ParticipantsAre
  <2> QED
    BY <2>1, <2>2, FS_Surjection
<1> QED
  BY <1>1, <1>2, <1>3, FS_CardinalityType

LEMMA NodesGiven ==
    ASSUME Connected, NEW p \in Participants
    PROVE  Given(p).nodes = Cardinality(Homes) /\ Cardinality(Homes) > 0
<1>1. Coherent /\ Given(p).nodes > 0
  BY DEF Connected
<1>2. Given(p).nodes \in {0, Cardinality({NodeOf[q] : q \in Participants})}
  BY <1>1, FirstIsRegister, CallIs
<1> QED
  BY <1>1, <1>2, HomesAre DEF Homes

LEMMA SameHomes ==
    ASSUME UNCHANGED program
    PROVE  /\ Homes' = Homes /\ Connected' = Connected
           /\ \A p, k : Kind(p, k)' = Kind(p, k)
           /\ \A p, d : Reduced(p, d)' = Reduced(p, d)
  BY SameProgram DEF Homes, Connected, Kind, Reduced

(* Nobody is left of a session when its node registers. *)
LEMMA NotTold ==
    ASSUME AllInv, NEW p \in Peers, RegisterPeer(p)
    PROVE  ~Told(NodeOf[p]) /\ \A q \in Members(NodeOf[p]) : ~Active(q)
<1> DEFINE n == NodeOf[p]
           k == calls[p] + 1
<1>0. TInv /\ LInv /\ Coherent /\ ToldActive
  BY DEF AllInv, Connected, GInv
<1>1. /\ n \in Nodes /\ p \in Participants /\ k \in 1 .. Len(program[p]) /\ k - 1 = calls[p]
      /\ calls[p] \in Nat
  BY <1>0, NextIs DEF RegisterPeer, Handle
<1>2. Kind(p, k) = "register" /\ \A q \in Members(n) : Done(q) = k - 1
  BY <1>0, <1>1, RegisterFinds
<1> HIDE DEF k
<1>3. k = 1 \/ (Kind(p, k - 1) = "finish" /\ k - 1 \in 1 .. Len(program[p]))
  <2>1. k = 1 \/ Kind(p, k - 1) = "finish"
    BY <1>0, <1>1, <1>2, CallIs
  <2> QED
    BY <1>1, <2>1
<1>4. ASSUME NEW q \in Members(n) PROVE ~Active(q)
  <2>1. q \in Participants /\ NodeOf[q] = NodeOf[p] /\ Done(q) = k - 1
    BY <1>2, <1>4, MemberIs
  <2>2. k - 1 \in 1 .. Len(program[p]) => Kind(q, k - 1) = Kind(p, k - 1)
    BY <1>0, <1>1, <2>1, SameKind
  <2> QED
    BY <1>3, <2>1, <2>2 DEF Active
<1> QED
  BY <1>0, <1>1, <1>4 DEF ToldActive

(* Who calls an operation has the topology. *)
LEMMA OpTold ==
    ASSUME AllInv, NEW p \in Peers, Handle(p, Kinds)
    PROVE  Told(NodeOf[p])
<1> DEFINE k == calls[p] + 1
<1>0. TInv /\ LInv /\ Coherent /\ ToldActive
  BY DEF AllInv, Connected, GInv
<1>1. /\ p \in Members(NodeOf[p]) /\ p \in Participants /\ NodeOf[p] \in Nodes
      /\ k \in 1 .. Len(program[p]) /\ Done(p) = k - 1 /\ Kind(p, k) \in Kinds
  BY <1>0, NextIs DEF Handle
<1> HIDE DEF k
<1>2. Kind(p, k) # "register"
  BY <1>1 DEF Kinds
<1>3. k > 1 /\ Kind(p, k - 1) # "finish"
  BY <1>0, <1>1, <1>2, OthersAt DEF LInv
<1>4. Active(p)
  BY <1>1, <1>3 DEF Active
<1> QED
  BY <1>0, <1>1, <1>4 DEF ToldActive

(* What the steps of a peer change for the other nodes.                    *)
Calls1(p) ==
    /\ p \in Peers /\ p \in Participants /\ p \in Members(NodeOf[p]) /\ NodeOf[p] \in Homes
    /\ NodeOf[p] \in Nodes
    /\ Done(p) = calls[p] /\ calls[p] \in Nat /\ calls[p] + 1 \in 1 .. Len(program[p])
    /\ calls'[p] = calls[p] + 1
    /\ \A q \in Peers \ {p} : calls'[q] = calls[q]
    /\ task[NodeOf[p]] = Idle
    /\ request[NodeOf[p]] = NoRequest /\ reply[NodeOf[p]] = NoReply /\ ~Pending(NodeOf[p])
    /\ \A m \in Nodes \ {NodeOf[p]} :
          task'[m] = task[m] /\ client'[m] = client[m] /\ request'[m] = request[m]
    /\ UNCHANGED <<program, round, registered, addresses, numNodes, numPeers, requests, reply>>

Registers(p) ==
    /\ Kind(p, calls[p] + 1) = "register" /\ UNCHANGED results
    /\ ~Told(NodeOf[p]) /\ ~Told(NodeOf[p])'
    /\ \A q \in Members(NodeOf[p]) : ~Active(q)
    /\ \/ task'[NodeOf[p]] = Idle /\ request'[NodeOf[p]] = NoRequest
       \/ /\ task'[NodeOf[p]].kind = "register" /\ client'[NodeOf[p]] # NoClient
          /\ request'[NodeOf[p]] = RegisterRequest(Cardinality(Homes), Cardinality(Members(NodeOf[p])))

Reduces(p) ==
    /\ Kind(p, calls[p] + 1) = "all_reduce" /\ UNCHANGED <<results, client, request>>
    /\ task'[NodeOf[p]].kind \in {"idle", "all_reduce"}

Leaves(p) ==
    /\ Kind(p, calls[p] + 1) = "finish" /\ UNCHANGED client
    /\ \/ /\ AnswersTo({p}) /\ task'[NodeOf[p]] = Idle /\ UNCHANGED request
          /\ \E q \in Members(NodeOf[p]) \ {p} : Active(q)
       \/ /\ UNCHANGED results /\ task'[NodeOf[p]].kind = "finish"
          /\ request'[NodeOf[p]] = FinishRequest
          /\ \A q \in Members(NodeOf[p]) \ {p} : ~Registered(q)

(* A step of the server of one node leaves those of the others alone. *)
LEMMA ServerFrame ==
    ASSUME TInv, NEW n \in Nodes,
           UNCHANGED task \/ \E t : task' = [task EXCEPT ![n] = t],
           UNCHANGED request \/ \E r : request' = [request EXCEPT ![n] = r],
           UNCHANGED client \/ \E c : client' = [client EXCEPT ![n] = c]
    PROVE  \A m \in Nodes \ {n} :
              task'[m] = task[m] /\ client'[m] = client[m] /\ request'[m] = request[m]
<1>1. \A m \in Nodes \ {n} : task'[m] = task[m]
  BY DEF TInv, IInv, ServerTypes
<1>2. \A m \in Nodes \ {n} : client'[m] = client[m]
  BY DEF TInv, MoreServerTypes
<1>3. \A m \in Nodes \ {n} : request'[m] = request[m]
  BY DEF TInv, OrchestratorTypes
<1> QED
  BY <1>1, <1>2, <1>3

LEMMA HandlerCalls ==
    ASSUME AllInv, NEW p \in Peers, NEW kinds, Handle(p, kinds),
           UNCHANGED <<round, registered, addresses, numNodes, numPeers, requests, reply>>,
           \A m \in Nodes \ {NodeOf[p]} :
              task'[m] = task[m] /\ client'[m] = client[m] /\ request'[m] = request[m]
    PROVE  Calls1(p)
<1> DEFINE n == NodeOf[p]
<1>0. TInv /\ LInv /\ Coherent /\ IInv
  BY DEF AllInv, Connected, TInv
<1>1. /\ n \in Nodes /\ p \in Members(n) /\ p \in Participants /\ UNCHANGED program
      /\ task[n] = Idle /\ Kind(p, calls[p] + 1) \in kinds
      /\ calls'[p] = calls[p] + 1 /\ \A q \in Peers \ {p} : calls'[q] = calls[q]
  BY <1>0, HandlerFinds
<1>2. Done(p) = calls[p] /\ calls[p] \in Nat /\ calls[p] + 1 \in 1 .. Len(program[p])
  BY <1>0, NextIs DEF Handle
<1>3. request[n] = NoRequest /\ reply[n] = NoReply /\ ~Pending(n)
  BY <1>0, <1>1, IdleAwaitsNothing DEF Idle
<1>4. n \in Homes
  BY <1>1, HomesAre
<1> QED
  BY <1>1, <1>2, <1>3, <1>4 DEF Calls1

LEMMA RegisterEffect ==
    ASSUME AllInv, NEW p \in Peers, RegisterPeer(p) PROVE Calls1(p) /\ Registers(p)
<1> DEFINE n == NodeOf[p]
           t == [kind |-> "register", callers |-> {}]
           r == RegisterRequest(Cardinality(Homes), Cardinality(Members(n)))
           c == [kind |-> "node", state |-> NoState]
<1>0. TInv /\ LInv /\ Coherent /\ Connected /\ IInv
  BY DEF AllInv, Connected, TInv
<1>1. /\ n \in Nodes /\ p \in Members(n) /\ p \in Participants /\ task[n] = Idle /\ NodeInv(n)
      /\ Handle(p, {"register"}) /\ Makes(p, {"register"})
  BY <1>0, HandlerFinds DEF RegisterPeer, Handle
<1>2. /\ NextCall(p).config = Given(p) /\ Kind(p, calls[p] + 1) = "register"
      /\ Given(p).nodes = Cardinality(Homes) /\ Cardinality(Homes) > 0
  BY <1>0, <1>1, RegisterFinds, NodesGiven
<1>3. \/ UNCHANGED <<results, task, request>>
      \/ /\ Complete(n, p) /\ UNCHANGED results
         /\ Send(n, RegisterRequest(Cardinality(Homes), Cardinality(peers'[n])))
         /\ task' = [task EXCEPT ![n] = t]
  BY <1>2 DEF RegisterPeer
<1>4. Complete(n, p) => peers'[n] = Members(n)
  <2>1. HAVE Complete(n, p)
  <2>2. callbacks[n] \cup {p} = Members(n)
    BY <1>0, <2>1, LastRegisters
  <2>3. peers \in [Nodes -> SUBSET Peers] /\ peers' = [peers EXCEPT ![n] = @ \cup {p}]
    BY <1>0 DEF RegisterPeer, TInv, MoreServerTypes
  <2>4. peers[n] \cup {p} = Members(n)
    <3>1. Given(p).devices = Cardinality(Members(n))
      BY <1>0, <1>1, FirstIsRegister, CallIs
    <3>2. config'[n].devices = Given(p).devices
      BY <1>0, <1>1, <1>2 DEF RegisterPeer, LInv
    <3>3. peers[n] \cup {p} \in SUBSET Members(n)
      BY <1>1 DEF NodeInv
    <3>4. Cardinality(peers[n] \cup {p}) = Cardinality(Members(n)) /\ IsFiniteSet(Members(n))
      BY <2>1, <3>1, <3>2, ParticipantsAre DEF Complete
    <3> HIDE DEF n
    <3> QED
      BY <3>3, <3>4, FS_Subset
  <2> QED
    BY <1>1, <2>3, <2>4
<1>5. /\ UNCHANGED results
      /\ \/ UNCHANGED <<task, request>>
         \/ Send(n, r) /\ task' = [task EXCEPT ![n] = t]
  BY <1>3, <1>4
<1>6. UNCHANGED client \/ client' = [client EXCEPT ![n] = c]
  BY DEF RegisterPeer
<1>7. UNCHANGED <<round, registered, addresses, numNodes, numPeers, requests, reply>>
  BY DEF RegisterPeer, globalVars
<1> HIDE DEF r, c, t
<1>20. \A m \in Nodes \ {n} :
          task'[m] = task[m] /\ client'[m] = client[m] /\ request'[m] = request[m]
  <2>1. UNCHANGED task \/ \E x : task' = [task EXCEPT ![n] = x]
    BY <1>5
  <2>2. UNCHANGED request \/ \E x : request' = [request EXCEPT ![n] = x]
    BY <1>5 DEF Send
  <2>3. UNCHANGED client \/ \E x : client' = [client EXCEPT ![n] = x]
    BY <1>6
  <2> HIDE DEF n
  <2> QED
    BY <1>0, <1>1, <2>1, <2>2, <2>3, ServerFrame
<1>8. Calls1(p)
  BY <1>1, <1>7, <1>20, HandlerCalls
<1>9. \/ task'[n] = Idle /\ request'[n] = NoRequest
      \/ task'[n].kind = "register" /\ request'[n] = r
  <2>1. request[n] = NoRequest /\ DOMAIN request = Nodes
    BY <1>0, <1>8 DEF Calls1, TInv, OrchestratorTypes
  <2>2. CASE UNCHANGED <<task, request>>
    BY <1>1, <2>1, <2>2
  <2>3. CASE Send(n, r) /\ task' = [task EXCEPT ![n] = t]
    <3>1. task'[n] = t /\ request'[n] = r
      BY <1>0, <1>1, <2>1, <2>3, TaskChanges DEF Send
    <3> QED
      BY <3>1 DEF t
  <2> QED
    BY <1>5, <2>2, <2>3
<1>10. ~Told(n) /\ ~Told(n)' /\ \A q \in Members(n) : ~Active(q)
  <2>1. ~Told(n) /\ \A q \in Members(n) : ~Active(q)
    BY NotTold
  <2>2. c.state = NoState
    BY DEF c
  <2>3. client'[n] = client[n] \/ client'[n] = c
    BY <1>0, <1>1, <1>6 DEF TInv, MoreServerTypes
  <2> QED
    BY <2>1, <2>2, <2>3 DEF Told
<1>12. UNCHANGED results
  BY <1>5
<1>13. client'[n] # NoClient
  <2>1. NextCall(p).config.nodes > 0
    BY <1>2, HomesAre
  <2>2. c # NoClient
    BY DEF c, NoClient
  <2>3. client' = IF client[n] = NoClient THEN [client EXCEPT ![n] = c] ELSE client
    BY <2>1 DEF RegisterPeer, c
  <2>4. DOMAIN client = Nodes
    BY <1>0 DEF TInv, MoreServerTypes
  <2> QED
    BY <1>1, <2>2, <2>3, <2>4
<1> QED
  BY <1>2, <1>8, <1>9, <1>10, <1>12, <1>13 DEF Registers, r

LEMMA OpEffect ==
    ASSUME AllInv, NEW p \in Peers, OpWaits(p) \/ GlobalAllReduceStarts(p)
    PROVE  Calls1(p) /\ Reduces(p)
<1> DEFINE n == NodeOf[p]
           t == [kind |-> "all_reduce", callers |-> Range(AllCallers(p))]
<1>0. TInv /\ LInv /\ Coherent /\ Connected /\ IInv
  BY DEF AllInv, Connected, TInv
<1>1. Handle(p, Kinds)
  BY DEF OpWaits, GlobalAllReduceStarts, Joins, Handle, Makes, Kinds
<1>2. /\ UNCHANGED <<results, client, request>>
      /\ UNCHANGED task \/ task' = [task EXCEPT ![n] = t]
      /\ UNCHANGED <<round, registered, addresses, numNodes, numPeers, requests, reply>>
  <2>1. CASE OpWaits(p)
    BY <2>1 DEF OpWaits, globalVars, orchestratorVars
  <2>2. CASE GlobalAllReduceStarts(p)
    BY <2>2 DEF GlobalAllReduceStarts, orchestratorVars, Global!Enter
  <2> QED
    BY <2>1, <2>2
<1> HIDE DEF t
<1>6. \A m \in Nodes \ {n} : task'[m] = task[m]
  <2>1. UNCHANGED task \/ \E x : task' = [task EXCEPT ![n] = x]
    BY <1>2
  <2>2. n \in Nodes
    BY PeersAssumption
  <2> HIDE DEF n
  <2> QED
    BY <1>0, <1>2, <2>1, <2>2, ServerFrame
<1>3. Calls1(p)
  BY <1>1, <1>2, <1>6, HandlerCalls
<1>4. Kind(p, calls[p] + 1) = "all_reduce"
  <2>1. Kind(p, calls[p] + 1) \in Kinds
    BY <1>0, <1>1, HandlerFinds
  <2>2. Kind(p, calls[p] + 1) \in {"register", "all_reduce", "finish"}
    BY <1>0, <1>3, AllGrouped DEF Calls1
  <2> QED
    BY <2>1, <2>2 DEF Kinds
<1>5. task'[n].kind \in {"idle", "all_reduce"}
  <2>1. t.kind = "all_reduce" /\ Idle.kind = "idle"
    BY DEF t, Idle
  <2> QED
    BY <1>0, <1>2, <1>3, <2>1, TaskChanges DEF Calls1
<1> QED
  BY <1>2, <1>3, <1>4, <1>5 DEF Reduces

LEMMA FinishEffect ==
    ASSUME AllInv, NEW p \in Peers, FinishPeer(p) PROVE Calls1(p) /\ Leaves(p)
<1> DEFINE n == NodeOf[p]
           k == calls[p] + 1
           t == [kind |-> "finish", callers |-> {p}]
<1>0. TInv /\ LInv /\ Coherent /\ Connected /\ IInv /\ ToldActive
  BY DEF AllInv, Connected, TInv, GInv
<1>1. /\ Handle(p, {"finish"}) /\ UNCHANGED client
      /\ UNCHANGED <<round, registered, addresses, numNodes, numPeers, requests, reply>>
      /\ \/ UNCHANGED <<task, request>> /\ AnswersTo({p}) /\ (peers[n] # {p} \/ client[n] = NoClient)
         \/ /\ UNCHANGED results /\ Send(n, FinishRequest) /\ task' = [task EXCEPT ![n] = t]
            /\ peers[n] = {p}
      /\ p \in peers[n]
  BY DEF FinishPeer, Answer, AnswersTo, globalVars
<1>2. Calls1(p) /\ Kind(p, k) = "finish" /\ NodeInv(n)
  <2> HIDE DEF t
  <2>1. \A m \in Nodes \ {n} :
          task'[m] = task[m] /\ client'[m] = client[m] /\ request'[m] = request[m]
    <3>1. UNCHANGED task \/ \E x : task' = [task EXCEPT ![n] = x]
      BY <1>1
    <3>2. UNCHANGED request \/ \E x : request' = [request EXCEPT ![n] = x]
      BY <1>1 DEF Send
    <3>3. n \in Nodes
      BY PeersAssumption
    <3> HIDE DEF n
    <3> QED
      BY <1>0, <1>1, <3>1, <3>2, <3>3, ServerFrame
  <2>2. Calls1(p)
    BY <1>1, <2>1, HandlerCalls
  <2> QED
    BY <1>0, <1>1, <2>2, HandlerFinds
<1>3. /\ p \in Participants /\ p \in Peers /\ n \in Nodes /\ p \in Members(n) /\ task[n] = Idle
      /\ k \in 1 .. Len(program[p]) /\ Done(p) = k - 1 /\ k \in Nat /\ calls[p] = k - 1
      /\ request[n] = NoRequest
  BY <1>2 DEF Calls1
<1> HIDE DEF k
<1>4. k > 1 /\ Kind(p, k - 1) # "finish" /\ k - 1 \in 1 .. Len(program[p])
  BY <1>0, <1>2, <1>3, OthersAt DEF LInv
<1>5. Active(p) /\ Told(n)
  <2>1. Active(p)
    BY <1>3, <1>4 DEF Active
  <2> QED
    BY <1>0, <1>3, <2>1 DEF ToldActive
<1>6. CASE UNCHANGED <<task, request>> /\ AnswersTo({p}) /\ (peers[n] # {p} \/ client[n] = NoClient)
  <2>1. PICK q \in peers[n] : q # p
    BY <1>1, <1>5, <1>6 DEF Told
  <2>2. /\ q \in Members(n) /\ Registered(q) /\ q \in Participants /\ q \in Peers
        /\ NodeOf[q] = NodeOf[p]
    BY <1>2, MemberIs DEF NodeInv
  <2>3. /\ Len(program[q]) = Len(program[p]) /\ Kind(q, k) = Kind(p, k)
        /\ Kind(q, k - 1) = Kind(p, k - 1)
    BY <1>0, <1>3, <1>4, <2>2, CallsAre DEF Grouped
  <2>4. Done(q) # k
    <3>1. SUFFICES ASSUME Done(q) = k PROVE FALSE
      OBVIOUS
    <3>2. calls[q] = k + 1 /\ k + 1 \in 1 .. Len(program[q])
      <4>1. calls[q] \in {k, k + 1} /\ calls[q] <= Len(program[q]) /\ Len(program[q]) \in Nat
        BY <1>0, <1>3, <2>2, <3>1, Counts
      <4>2. calls[q] # k
        BY <1>2, <2>2, <2>3 DEF Registered
      <4> QED
        BY <1>3, <4>1, <4>2
    <3> DEFINE j == k + 1
    <3>3. j \in 1 .. Len(program[q]) /\ Kind(q, j - 1) = "finish" /\ j # 1
      BY <1>2, <1>3, <2>3, <3>2
    <3> HIDE DEF j
    <3> QED
      BY <1>0, <2>2, <3>3, CallIs
  <2>5. Done(q) = k - 1
    BY <1>0, <1>2, <1>3, <2>2, <2>4, OthersAt DEF LInv
  <2>6. Active(q)
    BY <1>4, <2>3, <2>5 DEF Active
  <2> QED
    BY <1>1, <1>2, <1>3, <1>6, <2>1, <2>2, <2>6 DEF Leaves, k
<1>7. CASE /\ UNCHANGED results /\ Send(n, FinishRequest) /\ task' = [task EXCEPT ![n] = t]
           /\ peers[n] = {p}
  <2>1. t.kind = "finish"
    OBVIOUS
  <2> HIDE DEF t
  <2>2. task'[n] = t
    BY <1>0, <1>3, <1>7, TaskChanges
  <2>3. request'[n] = FinishRequest
    BY <1>0, <1>3, <1>7 DEF Send, TInv, OrchestratorTypes
  <2>4. \A q \in Members(n) \ {p} : ~Registered(q)
    BY <1>2, <1>7 DEF NodeInv
  <2> QED
    BY <1>1, <1>2, <1>7, <2>1, <2>2, <2>3, <2>4 DEF Leaves, k
<1> QED
  BY <1>1, <1>6, <1>7

LEMMA PeerEffect ==
    ASSUME AllInv, NEW p \in Peers, PeerStep(p)
    PROVE  Calls1(p) /\ (Registers(p) \/ Reduces(p) \/ Leaves(p))
<1>0. TInv /\ LInv /\ Coherent
  BY DEF AllInv, Connected
<1>1. ~LocalAllReduce(p) /\ ~GlobalAllReduceFails(p)
  <2>1. ASSUME LocalAllReduce(p) PROVE FALSE
    <3>1. Handle(p, Kinds) /\ ~RingPanics(p)
      BY <1>0, <2>1, RingCuts DEF LocalAllReduce, Joins, Handle, Makes, Kinds
    <3> QED
      BY <2>1, <3>1, OpTold DEF LocalAllReduce, Told
  <2>2. ASSUME GlobalAllReduceFails(p) PROVE FALSE
    <3>1. Handle(p, Kinds)
      BY <2>2 DEF GlobalAllReduceFails, Joins, Handle, Makes, Kinds
    <3> QED
      BY <2>2, <3>1, OpTold DEF GlobalAllReduceFails, Told
  <2> QED
    BY <2>1, <2>2
<1>2. ~LocalReduceReturns(p) /\ ~LocalBroadcastReturns(p)
  <2>1. ASSUME NEW kind \in {"reduce", "broadcast"}, Handle(p, {kind}) PROVE FALSE
    <3>1. /\ p \in Participants /\ calls[p] + 1 \in 1 .. Len(program[p])
          /\ Kind(p, calls[p] + 1) = kind
      BY <1>0, <2>1, NextIs DEF Handle
    <3>2. Kind(p, calls[p] + 1) \in {"register", "all_reduce", "finish"}
      BY <3>1, AllGrouped DEF AllInv
    <3> QED
      BY <3>1, <3>2
  <2> QED
    BY <2>1 DEF LocalReduceReturns, LocalBroadcastReturns, Joins
<1> QED
  BY <1>0, <1>1, <1>2, NoneRefused, RegisterEffect, OpEffect, FinishEffect

-----------------------------------------------------------------------------
(* Where the peers are while their server awaits something.                *)
LEMMA Registering ==
    ASSUME AllInv, NEW n \in Nodes, task[n].kind = "register"
    PROVE  /\ Members(n) # {} /\ n \in Homes /\ ~Told(n) /\ callbacks[n] = Members(n)
           /\ \A p \in Members(n) :
                 /\ p \in Participants /\ p \in Peers /\ NodeOf[p] = n /\ ~Active(p)
                 /\ calls[p] = Done(p) + 1 /\ Done(p) \in Nat /\ calls[p] \in 1 .. Len(program[p])
                 /\ Kind(p, calls[p]) = "register"
<1>0. TInv /\ LInv /\ Coherent /\ NodeInv(n) /\ alive[n] /\ ToldActive
  BY DEF AllInv, Connected, LInv, NodeInv, GInv
<1>1. Members(n) # {} /\ callbacks[n] = Members(n)
  BY <1>0 DEF NodeInv, ClientGlobal, TaskWhole
<1>2. HeldAt(n)["register"] = Members(n) /\ "register" \in Places
  BY <1>1, HeldAtIs, PlacesAre
<1>3. ASSUME NEW p \in Members(n)
      PROVE  /\ p \in Participants /\ p \in Peers /\ NodeOf[p] = n /\ ~Active(p)
             /\ calls[p] = Done(p) + 1 /\ Done(p) \in Nat /\ calls[p] \in 1 .. Len(program[p])
             /\ Kind(p, calls[p]) = "register"
  <2>1. /\ p \in Participants /\ p \in Peers /\ NodeOf[p] = n
        /\ calls[p] = Done(p) + 1 /\ Done(p) \in Nat /\ calls[p] \in 1 .. Len(program[p])
    BY <1>0, <1>2, HeldIs
  <2>2. Kind(p, calls[p]) = "register"
    BY <1>0, <1>1 DEF NodeInv, Placed
  <2>3. calls[p] = 1 \/ Kind(p, calls[p] - 1) = "finish"
    BY <1>0, <2>1, <2>2, CallIs
  <2>4. ~Active(p)
    BY <2>1, <2>3 DEF Active
  <2> QED
    BY <2>1, <2>2, <2>4
<1>4. ~Told(n)
  BY <1>0, <1>3 DEF ToldActive
<1> QED
  BY <1>1, <1>3, <1>4, HomesAre

LEMMA Reducing ==
    ASSUME AllInv, NEW n \in Nodes, task[n].kind = "all_reduce"
    PROVE  /\ Members(n) # {} /\ n \in Homes /\ task[n].callers = Members(n)
           /\ \A p \in Members(n) :
                 /\ p \in Participants /\ p \in Peers /\ NodeOf[p] = n /\ Active(p)
                 /\ calls[p] = Done(p) + 1 /\ Done(p) \in Nat /\ calls[p] \in 1 .. Len(program[p])
                 /\ Kind(p, calls[p]) = "all_reduce"
<1>0. TInv /\ LInv /\ Coherent /\ NodeInv(n) /\ alive[n]
  BY DEF AllInv, Connected, LInv, NodeInv
<1>1. Members(n) # {} /\ task[n].callers = Members(n)
  BY <1>0 DEF NodeInv, ClientGlobal, TaskWhole
<1>2. HeldAt(n)["task"] = Members(n) /\ "task" \in Places
  BY <1>1, HeldAtIs, PlacesAre
<1>3. ASSUME NEW p \in Members(n)
      PROVE  /\ p \in Participants /\ p \in Peers /\ NodeOf[p] = n /\ Active(p)
             /\ calls[p] = Done(p) + 1 /\ Done(p) \in Nat /\ calls[p] \in 1 .. Len(program[p])
             /\ Kind(p, calls[p]) = "all_reduce"
  <2>1. /\ p \in Participants /\ p \in Peers /\ NodeOf[p] = n
        /\ calls[p] = Done(p) + 1 /\ Done(p) \in Nat /\ calls[p] \in 1 .. Len(program[p])
    BY <1>0, <1>2, HeldIs
  <2>2. Kind(p, calls[p]) = "all_reduce"
    BY <1>0, <1>1 DEF NodeInv, Placed
  <2>3. calls[p] # 1 /\ Kind(p, calls[p] - 1) # "finish"
    BY <1>0, <2>1, <2>2, CallIs
  <2>4. Active(p)
    BY <2>1, <2>3 DEF Active
  <2> QED
    BY <2>1, <2>2, <2>4
<1> QED
  BY <1>1, <1>3, HomesAre

(* The last peer of a node that finishes: the others have. *)
Finishes(n, p) ==
    /\ p \in Members(n) /\ p \in Participants /\ p \in Peers /\ NodeOf[p] = n
    /\ task[n].callers = {p} /\ Active(p)
    /\ calls[p] = Done(p) + 1 /\ Done(p) \in Nat /\ calls[p] \in 1 .. Len(program[p])
    /\ Kind(p, calls[p]) = "finish"

LEMMA Finishing ==
    ASSUME AllInv, NEW n \in Nodes, task[n].kind = "finish"
    PROVE  /\ \E p \in Members(n) : Finishes(n, p) /\ \A q \in Members(n) \ {p} : ~Active(q)
           /\ Told(n)
<1>0. /\ TInv /\ LInv /\ Coherent /\ NodeInv(n) /\ alive[n] /\ ToldActive /\ AwaitedAt(n)
      /\ InSync /\ IInv
  BY DEF AllInv, Connected, LInv, NodeInv, GInv, Awaited, TInv
<1>1. PICK p \in Members(n) : task[n].callers = {p}
  BY <1>0 DEF NodeInv, TaskWhole
<1>2. HeldAt(n)["task"] = {p} /\ "task" \in Places
  BY <1>1, HeldAtIs, PlacesAre
<1> DEFINE k == calls[p]
<1>3. /\ p \in Participants /\ p \in Peers /\ NodeOf[p] = n
      /\ k = Done(p) + 1 /\ Done(p) = k - 1 /\ Done(p) \in Nat /\ k \in 1 .. Len(program[p])
      /\ k \in Nat
  BY <1>0, <1>2, HeldIs
<1>4. Kind(p, k) = "finish"
  BY <1>0, <1>1 DEF NodeInv, Placed
<1>5. k # 1 /\ Kind(p, k - 1) # "finish"
  BY <1>0, <1>3, <1>4, CallIs
<1>6. Active(p)
  BY <1>3, <1>5 DEF Active
<1>7. Finishes(n, p)
  BY <1>1, <1>3, <1>4, <1>6 DEF Finishes
<1> HIDE DEF k
<1>8. ASSUME NEW q \in Members(n), q # p PROVE ~Active(q)
  <2>1. q \in Participants /\ q \in Peers /\ NodeOf[q] = NodeOf[p] /\ Kind(q, k) = "finish"
        /\ Kind(q, k - 1) = Kind(p, k - 1)
    <3>1. q \in Participants /\ q \in Peers /\ NodeOf[q] = NodeOf[p]
      BY <1>3, <1>8, MemberIs
    <3>2. k - 1 \in 1 .. Len(program[p])
      BY <1>3, <1>5, OthersAt, <1>0, <1>4
    <3> QED
      BY <1>0, <1>3, <1>4, <3>1, <3>2, SameKind
  <2>2. Done(q) = k - 1 \/ Done(q) = k
    <3>1. NodeOf[p] = NodeOf[q] /\ Kind(p, k) # "register" /\ q \in Participants
      BY <1>4, <2>1
    <3>2. TInv /\ Coherent /\ InSync /\ p \in Participants /\ k \in 1 .. Len(program[p]) /\ Done(p) = k - 1
      BY <1>0, <1>3
    <3> QED
      BY ONLY <3>1, <3>2, OthersAt
  <2>3. ASSUME Done(q) = k - 1 PROVE FALSE
    <3>1. ~Registered(q) /\ calls[q] \in {k - 1, k}
      BY <1>0, <1>3, <2>1, <2>3, <1>8, Counts DEF AwaitedAt
    <3>2. calls[q] = k
      BY <1>3, <1>5, <2>1, <3>1 DEF Registered
    <3>3. Waiting(q) /\ q \in WaitingAt(n)
      BY <1>0, <1>3, <2>1, <2>3, <3>2, Counts DEF WaitingAt
    <3>4. PICK x \in Places : q \in HeldAt(n)[x]
      BY <1>0, <2>1, <3>3 DEF IInv, Parted
    <3>5. x # "task"
      BY <1>2, <1>8, <3>4
    <3>6. Kind(q, calls[q]) \in {"register"} \cup Kinds
      <4>1. CASE x = "register"
        BY <1>0, <3>4, <4>1, HeldAtIs, PlacesAre DEF NodeInv, Placed
      <4>2. CASE x \in Kinds
        <5>1. q \in Range(ops[n][x])
          BY <3>4, <4>2, HeldAtIs DEF Callers
        <5> QED
          BY <1>0, <4>2, <5>1 DEF NodeInv, Placed
      <4> QED
        BY <3>4, <3>5, <4>1, <4>2 DEF Places
    <3> QED
      BY <2>1, <3>2, <3>6 DEF Kinds
  <2> QED
    BY <2>1, <2>2, <2>3 DEF Active
<1>9. Told(n)
  BY <1>0, <1>1, <1>6 DEF ToldActive
<1> QED
  BY <1>1, <1>7, <1>8, <1>9

(* Those who register somewhere register for the same call. *)
LEMMA SameCall ==
    ASSUME AllInv, NEW p \in Participants, NEW q \in Participants,
           calls[p] = Done(p) + 1, Kind(p, calls[p]) = "register",
           calls[q] = Done(q) + 1, Kind(q, calls[q]) = "register"
    PROVE  calls[p] = calls[q]
<1>1. calls[p] \in 1 .. Len(program[p]) /\ calls[q] \in 1 .. Len(program[q])
  BY ParticipantsAre, Counts DEF AllInv, Connected
<1> QED
  BY <1>1, CallIs DEF AllInv, Connected

(* The all-reduces among the first calls. *)
LEMMA ReducedIs ==
    ASSUME NEW p, NEW d \in Nat
    PROVE  /\ Reduced(p, d) \in Nat
           /\ Reduced(p, d + 1) = IF Kind(p, d + 1) = "all_reduce" THEN Reduced(p, d) + 1
                                  ELSE Reduced(p, d)
<1> DEFINE S(e) == {k \in 1 .. e : Kind(p, k) = "all_reduce"}
<1>1. \A e \in Nat : IsFiniteSet(S(e))
  <2>1. SUFFICES ASSUME NEW e \in Nat PROVE IsFiniteSet(S(e))
    OBVIOUS
  <2>2. IsFiniteSet(1 .. e) /\ S(e) \in SUBSET (1 .. e)
    BY FS_Interval
  <2> HIDE DEF S
  <2> QED
    BY <2>2, FS_Subset
<1>2. S(d + 1) = IF Kind(p, d + 1) = "all_reduce" THEN S(d) \cup {d + 1} ELSE S(d)
  OBVIOUS
<1>3. d + 1 \notin S(d)
  OBVIOUS
<1>4. \A e : Reduced(p, e) = Cardinality(S(e))
  BY DEF Reduced
<1> HIDE DEF S
<1>5. Cardinality(S(d)) \in Nat /\ Cardinality(S(d) \cup {d + 1}) = Cardinality(S(d)) + 1
  BY <1>1, <1>3, FS_CardinalityType, FS_AddElement
<1> QED
  BY <1>2, <1>4, <1>5

LEMMA ReducedMore ==
    ASSUME NEW p, NEW d \in Nat, NEW e \in Nat, d <= e
    PROVE  /\ Reduced(p, d) <= Reduced(p, e)
           /\ d < e /\ Kind(p, d + 1) = "all_reduce" => Reduced(p, d) < Reduced(p, e)
<1> DEFINE S(c) == {k \in 1 .. c : Kind(p, k) = "all_reduce"}
<1>1. \A c \in Nat : Reduced(p, c) = Cardinality(S(c)) /\ IsFiniteSet(S(c))
  <2>1. SUFFICES ASSUME NEW c \in Nat PROVE IsFiniteSet(S(c))
    BY DEF Reduced
  <2>2. IsFiniteSet(1 .. c) /\ S(c) \in SUBSET (1 .. c)
    BY FS_Interval
  <2> HIDE DEF S
  <2> QED
    BY <2>2, FS_Subset
<1>2. \A c \in Nat : c <= e => S(c) \in SUBSET S(e)
  OBVIOUS
<1> HIDE DEF S
<1>3. \A c \in Nat : c <= e => Reduced(p, c) <= Reduced(p, e)
  BY <1>1, <1>2, FS_Subset
<1>4. ASSUME d < e, Kind(p, d + 1) = "all_reduce" PROVE Reduced(p, d) < Reduced(p, e)
  <2>1. Reduced(p, d + 1) = Reduced(p, d) + 1 /\ Reduced(p, d) \in Nat /\ Reduced(p, e) \in Nat
    BY <1>4, ReducedIs
  <2>2. Reduced(p, d + 1) <= Reduced(p, e)
    BY <1>3, <1>4
  <2> QED
    BY <2>1, <2>2
<1> QED
  BY <1>3, <1>4

LEMMA ReducedAlike ==
    ASSUME Connected, NEW p \in Participants, NEW q \in Participants, NEW d \in Nat,
           d <= Len(program[p]), Len(program[p]) \in Nat
    PROVE  Reduced(p, d) = Reduced(q, d)
<1>1. \A k \in 1 .. d : Kind(p, k) = Kind(q, k)
  BY AllGrouped
<1> QED
  BY <1>1 DEF Reduced

-----------------------------------------------------------------------------
(* What a server does that gets what it awaits.                            *)
Returns1(n) ==
    /\ n \in Homes /\ task'[n] = Idle
    /\ \A m \in Nodes \ {n} : task'[m] = task[m] /\ client'[m] = client[m] /\ reply'[m] = reply[m]
    /\ request[n] = NoRequest
    /\ UNCHANGED <<program, calls, registered, addresses, numNodes, numPeers, requests, request>>

RegisterReturns(n) ==
    /\ Replied(n) /\ reply'[n] = NoReply
    /\ client'[n] # NoClient /\ client'[n].state = reply[n] /\ reply[n] # NoState
    /\ AnswersTo(Members(n)) /\ UNCHANGED round

FinishReturns(n) ==
    /\ task[n].kind = "finish" /\ reply'[n] = NoReply /\ client'[n] = NoClient
    /\ AnswersTo(task[n].callers) /\ UNCHANGED round

ReduceReturns(n) ==
    /\ task[n].kind = "all_reduce" /\ UNCHANGED <<client, reply>>
    /\ AnswersTo(Members(n))
    /\ \A m \in Nodes : (phase[m] = "barrier" /\ round[m] = round[n]) \/ round[m] = round[n] + 1
    /\ round' = [round EXCEPT ![n] = @ + 1]

LEMMA ReturnEffect ==
    ASSUME AllInv, NEW n \in Nodes,
           GlobalRegisterReturns(n) \/ GlobalFinishReturns(n) \/ GlobalAllReduceReturns(n)
    PROVE  Returns1(n) /\ (RegisterReturns(n) \/ FinishReturns(n) \/ ReduceReturns(n))
<1>0. /\ TInv /\ IInv /\ OneRequest /\ AwaitedAt(n) /\ DOMAIN client = Nodes /\ DOMAIN reply = Nodes
      /\ NodeInv(n)
  BY DEF AllInv, TInv, GInv, Awaited, MoreServerTypes, OrchestratorTypes, LInv
<1>1. /\ task[n].kind # "idle" /\ task' = [task EXCEPT ![n] = Idle]
      /\ UNCHANGED <<program, calls, registered, addresses, numNodes, numPeers, requests, request>>
  BY DEF GlobalRegisterReturns, GlobalFinishReturns, GlobalAllReduceReturns, orchestratorVars
<1>2. task'[n] = Idle /\ \A m \in Nodes \ {n} : task'[m] = task[m]
  BY <1>0, <1>1, TaskChanges
<1>3. n \in Homes
  BY <1>0, <1>1, HomesAre DEF NodeInv, ClientGlobal
<1>4. CASE GlobalRegisterReturns(n)
  <2>1. /\ Replied(n) /\ reply[n] # NoReply /\ reply[n].kind = "topology"
        /\ callbacks[n] = Members(n) /\ request[n] = NoRequest /\ client[n] # NoClient
    BY <1>0, <1>4 DEF GlobalRegisterReturns, Replied, AwaitedAt, NodeInv, TaskWhole, OneRequest
  <2>2. /\ client' = [client EXCEPT ![n].state = reply[n]]
        /\ AnswersTo(callbacks[n]) /\ reply' = [reply EXCEPT ![n] = NoReply] /\ UNCHANGED round
    BY <1>4, <2>1 DEF GlobalRegisterReturns, Answer, AnswersTo, globalVars
  <2>3. reply[n] # NoState
    BY <2>1 DEF NoState
  <2>4. PICK s : client[n] = [kind |-> "node", state |-> s]
    BY <1>0, <2>1 DEF TInv, MoreServerTypes
  <2>5. client'[n] = [kind |-> "node", state |-> reply[n]]
    BY <1>0, <2>2, <2>4
  <2>6. client'[n] # NoClient /\ client'[n].state = reply[n]
    BY <2>5 DEF NoClient
  <2>7. reply'[n] = NoReply
    BY <1>0, <2>2
  <2>8. \A m \in Nodes \ {n} : client'[m] = client[m] /\ reply'[m] = reply[m]
    BY <1>0, <2>2
  <2> QED
    BY <1>1, <1>2, <1>3, <2>1, <2>2, <2>3, <2>6, <2>7, <2>8 DEF Returns1, RegisterReturns
<1>5. CASE GlobalFinishReturns(n)
  <2>1. /\ task[n].kind = "finish" /\ reply[n] # NoReply
        /\ client' = [client EXCEPT ![n] = NoClient]
        /\ AnswersTo(task[n].callers) /\ reply' = [reply EXCEPT ![n] = NoReply] /\ UNCHANGED round
    BY <1>5 DEF GlobalFinishReturns, Answer, AnswersTo, globalVars
  <2>2. /\ request[n] = NoRequest /\ client'[n] = NoClient /\ reply'[n] = NoReply
        /\ \A m \in Nodes \ {n} : client'[m] = client[m] /\ reply'[m] = reply[m]
    BY <1>0, <2>1 DEF OneRequest
  <2> QED
    BY <1>1, <1>2, <1>3, <2>1, <2>2 DEF Returns1, FinishReturns
<1>6. CASE GlobalAllReduceReturns(n)
  <2>1. /\ task[n].kind = "all_reduce" /\ UNCHANGED <<client, reply>>
        /\ AnswersTo(task[n].callers)
    BY <1>6 DEF GlobalAllReduceReturns, Answer, AnswersTo, orchestratorVars
  <2>2. task[n].callers = Members(n)
    BY <2>1, Reducing
  <2>3. /\ \A m \in Nodes : \/ phase[m] = "barrier" /\ round[m] = round[n]
                            \/ round[m] = round[n] + 1
        /\ round' = [round EXCEPT ![n] = @ + 1]
    BY <1>6 DEF GlobalAllReduceReturns, Global!Leave
  <2>4. request[n] = NoRequest
    BY <1>0, <2>1 DEF OneRequest
  <2> QED
    BY <1>1, <1>2, <1>3, <2>1, <2>2, <2>3, <2>4 DEF Returns1, ReduceReturns
<1> QED
  BY <1>4, <1>5, <1>6

-----------------------------------------------------------------------------
(* Across and Rounds: what the peers know of each other.                   *)
LEMMA Counted1 ==
    ASSUME AllInv, NEW p \in Participants
    PROVE  /\ p \in Peers /\ NodeOf[p] \in Nodes /\ NodeOf[p] \in Homes /\ p \in Members(NodeOf[p])
           /\ calls[p] \in Nat /\ Done(p) \in Nat /\ Done(p) \in {calls[p], calls[p] - 1}
           /\ calls[p] <= Len(program[p]) /\ Len(program[p]) \in Nat
<1>1. p \in Peers
  BY ParticipantsAre
<1> QED
  BY <1>1, Counts, HomesAre, PeersAssumption DEF AllInv, Connected, Members

LEMMA AcrossStep ==
    ASSUME AllInv, UNCHANGED program, NEW to, AnswersTo(to),
           \A q \in Participants : calls'[q] \in {calls[q], calls[q] + 1},
           \A p \in to : p \in Participants =>
              \A q \in Participants :
                 \/ Done(p) + 1 <= calls'[q]
                 \/ Done(p) <= calls'[q] /\ Kind(p, Done(p) + 1) = "finish"
    PROVE  Across'
<1>1. ASSUME NEW p \in Participants, NEW q \in Participants
      PROVE  \/ Done(p)' <= calls'[q]
             \/ Done(p)' <= calls'[q] + 1 /\ Kind(p, Done(p))' = "finish"
  <2>1. p \in Peers /\ Done(p) \in Nat /\ calls[q] \in Nat /\ calls'[q] \in {calls[q], calls[q] + 1}
    BY Counted1
  <2>2. Done(p)' = IF p \in to THEN Done(p) + 1 ELSE Done(p)
    BY <2>1, DoneStep DEF AllInv
  <2>3. Kind(p, Done(p))' = Kind(p, Done(p)')
    BY DEF Kind
  <2>4. Done(p) <= calls[q] \/ (Done(p) <= calls[q] + 1 /\ Kind(p, Done(p)) = "finish")
    BY DEF AllInv, GInv, Across
  <2>5. CASE p \notin to
    BY <2>1, <2>2, <2>3, <2>4, <2>5
  <2>6. CASE p \in to
    BY <2>1, <2>2, <2>3, <2>6
  <2> QED
    BY <2>5, <2>6
<1> QED
  BY <1>1, SameProgram DEF Across

(* Who finishes is not ahead of anybody. *)
LEMMA FinishBehind ==
    ASSUME AllInv, NEW p \in Participants, NEW q \in Participants, NEW k \in 1 .. Len(program[p]),
           Done(p) = k - 1, Kind(p, k) = "finish"
    PROVE  Done(p) <= calls[q]
<1>1. k # 1 /\ Kind(p, k - 1) # "finish"
  BY CallIs DEF AllInv, Connected
<1> QED
  BY <1>1 DEF AllInv, GInv, Across

LEMMA PeerAcross ==
    ASSUME AllInv, NEW p \in Peers, Calls1(p), Registers(p) \/ Reduces(p) \/ Leaves(p)
    PROVE  Across'
<1>1. UNCHANGED program /\ p \in Participants /\ Done(p) = calls[p] /\ calls[p] \in Nat
  BY DEF Calls1
<1>2. \A q \in Participants : calls'[q] \in {calls[q], calls[q] + 1}
  BY Counted1 DEF Calls1
<1>3. CASE UNCHANGED results
  <2>1. AnswersTo({})
    BY <1>3, NobodyAnswered DEF AllInv, TInv
  <2> QED
    BY <1>1, <1>2, <2>1, AcrossStep
<1>4. CASE AnswersTo({p}) /\ Leaves(p)
  <2> DEFINE k == calls[p] + 1
  <2>1. k \in 1 .. Len(program[p]) /\ Done(p) = k - 1 /\ Kind(p, k) = "finish" /\ k = Done(p) + 1
    BY <1>1, <1>4 DEF Calls1, Leaves
  <2> HIDE DEF k
  <2>2. ASSUME NEW q \in Participants
        PROVE  Done(p) <= calls'[q] /\ Kind(p, Done(p) + 1) = "finish"
    <3>1. Done(p) <= calls[q]
      BY <1>1, <2>1, FinishBehind
    <3>2. calls[q] \in Nat /\ calls'[q] \in {calls[q], calls[q] + 1} /\ Done(p) \in Nat
      BY <1>1, <1>2, Counted1
    <3>3. Done(p) <= calls'[q]
      BY <3>1, <3>2
    <3>4. Kind(p, Done(p) + 1) = "finish"
      BY <2>1
    <3> QED
      BY <3>3, <3>4
  <2> QED
    BY <1>1, <1>2, <1>4, <2>2, AcrossStep
<1> QED
  BY <1>3, <1>4 DEF Registers, Reduces, Leaves

(* Who leaves an all-reduce: the others have come to it. *)
LEMMA ReduceMeets ==
    ASSUME AllInv, NEW n \in Nodes, ReduceReturns(n), NEW p \in Members(n), NEW q \in Participants
    PROVE  Done(p) + 1 <= calls[q]
<1> DEFINE m == NodeOf[q]
           d == Done(p)
<1>0. TInv /\ Connected /\ Coherent /\ Rounds /\ Phases
  BY DEF AllInv, Connected, GInv, TInv
<1>1. /\ q \in Members(m) /\ m \in Nodes /\ p \in Participants
      /\ d \in Nat /\ d + 1 \in 1 .. Len(program[p]) /\ Kind(p, d + 1) = "all_reduce"
  BY Counted1, Reducing DEF ReduceReturns
<1>2. /\ Len(program[p]) = Len(program[q]) /\ Len(program[p]) \in Nat
      /\ \A k \in 1 .. Len(program[p]) : Kind(p, k) = Kind(q, k)
  BY <1>0, <1>1, AllGrouped, Counted1
<1>3. round[n] = Reduced(q, d) /\ round[m] = Reduced(q, Done(q))
  <2>1. round[n] = Reduced(p, d) /\ round[m] = Reduced(q, Done(q))
    BY <1>0, <1>1 DEF Rounds
  <2>2. Reduced(p, d) = Reduced(q, d)
    <3> HIDE DEF d
    <3> QED
      BY <1>0, <1>1, <1>2, ReducedAlike
  <2> QED
    BY <2>1, <2>2
<1>4. Done(q) \in Nat /\ calls[q] \in Nat /\ Done(q) <= calls[q] /\ calls[q] <= Len(program[q])
  BY Counted1
<1>5. Kind(q, d + 1) = "all_reduce"
  BY <1>1, <1>2
<1> HIDE DEF d
<1>6. Reduced(q, d) \in Nat /\ Reduced(q, Done(q)) \in Nat
  BY <1>1, <1>4, ReducedIs
<1>7. CASE round[m] = round[n] + 1
  <2>1. ASSUME Done(q) <= d PROVE FALSE
    <3>1. Reduced(q, Done(q)) <= Reduced(q, d)
      BY <1>1, <1>4, <2>1, ReducedMore
    <3> QED
      BY <1>3, <1>6, <1>7, <3>1
  <2> QED
    BY <1>1, <1>4, <2>1 DEF d
<1>8. CASE phase[m] = "barrier" /\ round[m] = round[n]
  <2>1. task[m].kind = "all_reduce"
    BY <1>0, <1>1, <1>8 DEF Phases
  <2>2. calls[q] = Done(q) + 1 /\ Kind(q, Done(q) + 1) = "all_reduce"
    BY <1>1, <2>1, Reducing
  <2>3. ASSUME Done(q) < d PROVE FALSE
    <3>1. Reduced(q, Done(q)) < Reduced(q, d)
      BY <1>1, <1>4, <2>2, <2>3, ReducedMore
    <3> QED
      BY <1>3, <1>6, <1>8, <3>1
  <2> QED
    BY <1>1, <1>4, <2>2, <2>3 DEF d
<1> QED
  BY <1>1, <1>7, <1>8 DEF ReduceReturns

(* Who is told of the topology: the others have registered. *)
LEMMA RegisterMeets ==
    ASSUME AllInv, NEW n \in Nodes, Replied(n), NEW p \in Members(n), NEW q \in Participants
    PROVE  Done(p) + 1 <= calls[q]
<1> DEFINE m == NodeOf[q]
           k == calls[p]
<1>1. task[n].kind = "register" /\ FormedAlike
  BY DEF Replied, AllInv, GInv
<1>2. /\ n \in Homes /\ p \in Participants /\ k = Done(p) + 1 /\ k \in 1 .. Len(program[p])
      /\ Kind(p, k) = "register"
      /\ \A x \in Members(n) : x \in Participants /\ calls[x] = Done(x) + 1 /\ Kind(x, calls[x]) = "register"
  BY <1>1, Registering
<1>3. \A x \in Members(n) : calls[x] = k
  BY <1>2, SameCall
<1>4. Formed(n, k)
  BY <1>3 DEF Formed
<1>5. m \in Homes /\ q \in Members(m)
  BY Counted1
<1>6. Formed(m, k)
  BY <1>1, <1>2, <1>4, <1>5 DEF FormedAlike
<1>7. Done(q) >= k \/ calls[q] = k
  BY <1>5, <1>6 DEF Formed
<1>8. Done(q) \in Nat /\ calls[q] \in Nat /\ Done(q) <= calls[q] /\ k \in Nat
  BY <1>2, Counted1
<1> HIDE DEF k
<1> QED
  BY <1>2, <1>7, <1>8

LEMMA ReturnAcross ==
    ASSUME AllInv, NEW n \in Nodes, Returns1(n),
           RegisterReturns(n) \/ FinishReturns(n) \/ ReduceReturns(n)
    PROVE  Across'
<1>1. UNCHANGED <<program, calls>>
  BY DEF Returns1
<1>2. CASE RegisterReturns(n)
  <2>1. \A p \in Members(n) : \A q \in Participants : Done(p) + 1 <= calls'[q]
    BY <1>1, <1>2, RegisterMeets DEF RegisterReturns
  <2> QED
    BY <1>1, <1>2, <2>1, AcrossStep DEF RegisterReturns
<1>3. CASE ReduceReturns(n)
  <2>1. \A p \in Members(n) : \A q \in Participants : Done(p) + 1 <= calls'[q]
    BY <1>1, <1>3, ReduceMeets
  <2> QED
    BY <1>1, <1>3, <2>1, AcrossStep DEF ReduceReturns
<1>4. CASE FinishReturns(n)
  <2>1. PICK p \in Members(n) : Finishes(n, p)
    BY <1>4, Finishing DEF FinishReturns
  <2>2. AnswersTo({p}) /\ p \in Participants /\ Done(p) + 1 = calls[p] /\ Kind(p, Done(p) + 1) = "finish"
    BY <1>4, <2>1 DEF FinishReturns, Finishes
  <2> DEFINE k == calls[p]
  <2>3. k \in 1 .. Len(program[p]) /\ Done(p) = k - 1 /\ Kind(p, k) = "finish"
    BY <2>1 DEF Finishes
  <2> HIDE DEF k
  <2>4. \A q \in Participants : Done(p) <= calls'[q]
    BY <1>1, <2>2, <2>3, FinishBehind
  <2>5. \A x \in {p} : x \in Participants => \A q \in Participants :
           Done(x) <= calls'[q] /\ Kind(x, Done(x) + 1) = "finish"
    BY <2>2, <2>4
  <2> QED
    BY <1>1, <2>2, <2>5, AcrossStep
<1> QED
  BY <1>2, <1>3, <1>4

LEMMA RoundsStep ==
    ASSUME AllInv, UNCHANGED program, NEW to, AnswersTo(to), DOMAIN round' = Nodes,
           \A n \in Nodes : \A p \in Members(n) :
              round'[n] = IF p \in to /\ Kind(p, Done(p) + 1) = "all_reduce" THEN round[n] + 1
                          ELSE round[n]
    PROVE  Rounds'
<1>1. ASSUME NEW n \in Nodes, NEW p \in Members(n) PROVE round'[n] = Reduced(p, Done(p)')
  <2>1. p \in Peers /\ Done(p) \in Nat
    BY MemberIs, Counted1
  <2>2. Done(p)' = IF p \in to THEN Done(p) + 1 ELSE Done(p)
    BY <2>1, DoneStep DEF AllInv
  <2>3. round[n] = Reduced(p, Done(p))
    BY DEF AllInv, GInv, Rounds
  <2>4. Reduced(p, Done(p) + 1) = IF Kind(p, Done(p) + 1) = "all_reduce" THEN Reduced(p, Done(p)) + 1
                                  ELSE Reduced(p, Done(p))
    BY <2>1, ReducedIs
  <2> QED
    BY <2>2, <2>3, <2>4
<1>2. \A p : Reduced(p, Done(p))' = Reduced(p, Done(p)')
  BY DEF Reduced, Kind
<1> QED
  BY <1>1, <1>2, SameProgram DEF Rounds

(* Both of them after a step of a peer, and of a server.                   *)
Known == Rounds /\ Across

LEMMA PeerKnows ==
    ASSUME AllInv, NEW p \in Peers, Calls1(p), Registers(p) \/ Reduces(p) \/ Leaves(p)
    PROVE  Known'
<1>1. /\ UNCHANGED <<program, round>> /\ p \in Participants /\ Done(p) = calls[p]
      /\ calls[p] \in Nat /\ calls'[p] = calls[p] + 1 /\ \A q \in Peers \ {p} : calls'[q] = calls[q]
  BY DEF Calls1
<1>2. DOMAIN round = Nodes
  BY DEF AllInv, GInv, Rounds
<1>3. Across'
  BY PeerAcross
<1>5. CASE UNCHANGED results
  <2>1. AnswersTo({})
    BY <1>5, NobodyAnswered DEF AllInv, TInv
  <2> QED
    BY <1>1, <1>2, <1>3, <2>1, RoundsStep DEF Known
<1>6. CASE AnswersTo({p}) /\ Leaves(p)
  <2>1. Kind(p, Done(p) + 1) # "all_reduce"
    BY <1>1, <1>6 DEF Leaves
  <2> QED
    BY <1>1, <1>2, <1>3, <1>6, <2>1, RoundsStep DEF Known
<1> QED
  BY <1>5, <1>6 DEF Registers, Reduces, Leaves

LEMMA ReturnKnows ==
    ASSUME AllInv, NEW n \in Nodes, Returns1(n),
           RegisterReturns(n) \/ FinishReturns(n) \/ ReduceReturns(n)
    PROVE  Known'
<1>1. UNCHANGED <<program, calls>>
  BY DEF Returns1
<1>2. DOMAIN round = Nodes
  BY DEF AllInv, GInv, Rounds
<1>3. Across'
  BY ReturnAcross
<1>5. CASE RegisterReturns(n)
  <2>1. \A p \in Members(n) : Kind(p, Done(p) + 1) # "all_reduce"
    BY <1>5, Registering DEF RegisterReturns, Replied
  <2> QED
    BY <1>1, <1>2, <1>3, <1>5, <2>1, RoundsStep DEF Known, RegisterReturns
<1>6. CASE ReduceReturns(n)
  <2>1. \A p \in Members(n) : Kind(p, Done(p) + 1) = "all_reduce"
    BY <1>6, Reducing DEF ReduceReturns
  <2>2. \A m \in Nodes : \A p \in Members(m) : p \in Members(n) <=> m = n
    BY DEF Members
  <2>3. /\ DOMAIN round' = Nodes
        /\ \A m \in Nodes : round'[m] = IF m = n THEN round[m] + 1 ELSE round[m]
    BY <1>2, <1>6 DEF ReduceReturns
  <2> QED
    BY <1>1, <1>3, <1>6, <2>1, <2>2, <2>3, RoundsStep DEF Known, ReduceReturns
<1>7. CASE FinishReturns(n)
  <2>1. PICK p \in Members(n) : Finishes(n, p)
    BY <1>7, Finishing DEF FinishReturns
  <2>2. AnswersTo({p}) /\ Kind(p, Done(p) + 1) # "all_reduce"
    BY <1>7, <2>1 DEF FinishReturns, Finishes
  <2>3. UNCHANGED round
    BY <1>7 DEF FinishReturns
  <2> QED
    BY <1>1, <1>2, <1>3, <2>2, <2>3, RoundsStep DEF Known
<1> QED
  BY <1>5, <1>6, <1>7

-----------------------------------------------------------------------------
(* ToldActive.                                                             *)
LEMMA ActiveStep ==
    ASSUME AllInv, UNCHANGED program, NEW to, AnswersTo(to), NEW p \in Participants
    PROVE  /\ p \notin to => (Active(p)' <=> Active(p))
           /\ p \in to => (Active(p)' <=> Kind(p, Done(p) + 1) # "finish")
<1>1. p \in Peers /\ Done(p) \in Nat
  BY Counted1
<1>2. Done(p)' = IF p \in to THEN Done(p) + 1 ELSE Done(p)
  BY <1>1, DoneStep DEF AllInv
<1>3. Active(p)' <=> Done(p)' > 0 /\ Kind(p, Done(p)') # "finish"
  BY DEF Active, Kind
<1> QED
  BY <1>1, <1>2, <1>3 DEF Active

(* The peers of the other nodes are not answered.                          *)
LEMMA ToldStep ==
    ASSUME AllInv, UNCHANGED program, NEW n \in Nodes, NEW to, to \subseteq Members(n), AnswersTo(to),
           \A m \in Nodes \ {n} : client'[m] = client[m],
           Told(n)' <=> \E p \in Members(n) : Active(p)'
    PROVE  ToldActive'
<1>1. ASSUME NEW m \in Nodes \ {n} PROVE Told(m)' <=> \E p \in Members(m) : Active(p)'
  <2>1. Told(m)' <=> Told(m)
    BY DEF Told
  <2>2. ASSUME NEW p \in Members(m) PROVE Active(p)' <=> Active(p)
    <3>1. p \in Participants /\ p \notin to
      BY <1>1, <2>2, MemberIs
    <3> QED
      BY <3>1, ActiveStep
  <2>3. Told(m) <=> \E p \in Members(m) : Active(p)
    BY DEF AllInv, GInv, ToldActive
  <2> QED
    BY <2>1, <2>2, <2>3
<1> QED
  BY <1>1, SameProgram DEF ToldActive

LEMMA PeerTold ==
    ASSUME AllInv, NEW p \in Peers, Calls1(p), Registers(p) \/ Reduces(p) \/ Leaves(p)
    PROVE  ToldActive'
<1> DEFINE n == NodeOf[p]
<1>1. /\ UNCHANGED program /\ n \in Nodes /\ p \in Members(n) /\ Done(p) = calls[p]
      /\ p \in Participants /\ \A m \in Nodes \ {n} : client'[m] = client[m]
  BY DEF Calls1
<1>2. Told(n) <=> \E q \in Members(n) : Active(q)
  BY <1>1 DEF AllInv, GInv, ToldActive
<1>3. Told(n)' <=> Told(n)
  BY DEF Registers, Reduces, Leaves, Told
<1>4. CASE UNCHANGED results
  <2>1. AnswersTo({})
    BY <1>4, NobodyAnswered DEF AllInv, TInv
  <2>2. \A q \in Members(n) : Active(q)' <=> Active(q)
    BY <1>1, <2>1, MemberIs, ActiveStep
  <2> HIDE DEF n
  <2> QED
    BY <1>1, <1>2, <1>3, <2>1, <2>2, ToldStep
<1>5. CASE AnswersTo({p}) /\ Leaves(p) /\ ~UNCHANGED results
  <2>1. PICK q \in Members(n) \ {p} : Active(q)
    BY <1>5 DEF Leaves
  <2>2. Active(q)' /\ Told(n)
    BY <1>1, <1>2, <1>5, <2>1, MemberIs, ActiveStep
  <2> HIDE DEF n
  <2> QED
    BY <1>1, <1>3, <1>5, <2>1, <2>2, ToldStep
<1> QED
  BY <1>4, <1>5 DEF Registers, Reduces, Leaves

LEMMA ReturnTold ==
    ASSUME AllInv, NEW n \in Nodes, Returns1(n),
           RegisterReturns(n) \/ FinishReturns(n) \/ ReduceReturns(n)
    PROVE  ToldActive'
<1>1. UNCHANGED program /\ \A m \in Nodes \ {n} : client'[m] = client[m]
  BY DEF Returns1
<1>2. CASE RegisterReturns(n)
  <2>1. /\ AnswersTo(Members(n)) /\ Members(n) # {}
        /\ \A p \in Members(n) : p \in Participants /\ Kind(p, Done(p) + 1) # "finish"
    BY <1>2, Registering DEF RegisterReturns, Replied
  <2>2. \A p \in Members(n) : Active(p)'
    BY <1>1, <2>1, ActiveStep
  <2>3. Told(n)'
    BY <1>2 DEF RegisterReturns, Told, NoState
  <2> QED
    BY <1>1, <2>1, <2>2, <2>3, ToldStep
<1>3. CASE ReduceReturns(n)
  <2>1. /\ AnswersTo(Members(n)) /\ Members(n) # {}
        /\ \A p \in Members(n) : p \in Participants /\ Kind(p, Done(p) + 1) # "finish" /\ Active(p)
    BY <1>3, Reducing DEF ReduceReturns
  <2>2. \A p \in Members(n) : Active(p)'
    BY <1>1, <2>1, ActiveStep
  <2>3. Told(n)'
    <3>1. Told(n)
      BY <2>1 DEF AllInv, GInv, ToldActive
    <3> QED
      BY <1>3, <3>1 DEF ReduceReturns, Told
  <2> QED
    BY <1>1, <2>1, <2>2, <2>3, ToldStep
<1>4. CASE FinishReturns(n)
  <2>1. PICK p \in Members(n) : Finishes(n, p) /\ \A q \in Members(n) \ {p} : ~Active(q)
    BY <1>4, Finishing DEF FinishReturns, Finishes
  <2>2. AnswersTo({p}) /\ Kind(p, Done(p) + 1) = "finish" /\ {p} \subseteq Members(n)
    BY <1>4, <2>1 DEF FinishReturns, Finishes
  <2>3. ~Told(n)'
    BY <1>4 DEF FinishReturns, Told
  <2>4. \A q \in Members(n) : ~Active(q)'
    BY <1>1, <2>1, <2>2, MemberIs, ActiveStep
  <2> QED
    BY <1>1, <2>2, <2>3, <2>4, ToldStep
<1> QED
  BY <1>2, <1>3, <1>4

-----------------------------------------------------------------------------
(* Awaited, and the state of the orchestrator, which only its own steps    *)
(* change.                                                                 *)
LEMMA AwaitedStep ==
    ASSUME AllInv, UNCHANGED program, NEW n \in Nodes,
           \A m \in Nodes \ {n} :
              /\ task'[m] = task[m] /\ client'[m] = client[m]
              /\ request'[m] = request[m] /\ reply'[m] = reply[m] /\ (Pending(m) => Pending(m)')
              /\ \A p \in Members(m) : calls'[p] = calls[p],
           AwaitedAt(n)'
    PROVE  Awaited'
<1>1. ASSUME NEW m \in Nodes \ {n} PROVE AwaitedAt(m)'
  <2>1. AwaitedAt(m)
    BY DEF AllInv, GInv, Awaited
  <2>2. \A p \in Members(m) : Registered(p)' <=> Registered(p)
    BY <1>1 DEF Registered, Kind
  <2>3. Members(m)' = Members(m) /\ Homes' = Homes
    BY SameProgram, SameHomes
  <2>4. (Requested(m)' <=> Requested(m)) /\ (Replied(m)' <=> Replied(m))
    BY <1>1, <2>3 DEF Requested, Replied
  <2>5. (\A p \in Members(m) : ~Registered(p)) => \A p \in Members(m)' : ~Registered(p)'
    BY <2>2, <2>3
  <2> QED
    BY <1>1, <2>1, <2>4, <2>5 DEF AwaitedAt
<1> QED
  BY <1>1 DEF Awaited

LEMMA PeerAwaited ==
    ASSUME AllInv, NEW p \in Peers, Calls1(p), Registers(p) \/ Reduces(p) \/ Leaves(p)
    PROVE  Awaited'
<1> DEFINE n == NodeOf[p]
<1>1. /\ UNCHANGED <<program, reply, requests>> /\ n \in Nodes /\ p \in Members(n)
      /\ request[n] = NoRequest /\ reply[n] = NoReply /\ task[n] = Idle
      /\ calls'[p] = calls[p] + 1 /\ calls[p] \in Nat
      /\ \A m \in Nodes \ {n} :
            task'[m] = task[m] /\ client'[m] = client[m] /\ request'[m] = request[m]
      /\ \A q \in Peers \ {p} : calls'[q] = calls[q]
  BY DEF Calls1
<1>2. \A m \in Nodes \ {n} : \A q \in Members(m) : calls'[q] = calls[q]
  BY <1>1, MemberIs
<1>3. \A m : Pending(m)' <=> Pending(m)
  BY <1>1 DEF Pending
<1>4. Members(n)' = Members(n) /\ Homes' = Homes
  BY <1>1, SameProgram, SameHomes
<1>5. reply'[n] = NoReply /\ ~Replied(n)'
  BY <1>1 DEF Replied
<1>6. AwaitedAt(n)'
  <2>1. CASE Registers(p) /\ task'[n] = Idle /\ request'[n] = NoRequest
    BY <1>5, <2>1 DEF AwaitedAt, Idle
  <2>2. CASE /\ task'[n].kind = "register" /\ client'[n] # NoClient
             /\ request'[n] = RegisterRequest(Cardinality(Homes), Cardinality(Members(n)))
    <3>1. request'[n] # NoRequest
      BY <2>2 DEF RegisterRequest, NoRequest
    <3> QED
      BY <1>4, <1>5, <2>2, <3>1 DEF AwaitedAt, Requested
  <2>3. CASE Reduces(p)
    BY <1>1, <1>5, <2>3 DEF AwaitedAt, Reduces
  <2>4. CASE task'[n] = Idle /\ UNCHANGED request
    BY <1>1, <1>5, <2>4 DEF AwaitedAt, Idle
  <2>5. CASE /\ task'[n].kind = "finish" /\ request'[n] = FinishRequest
             /\ \A q \in Members(n) \ {p} : ~Registered(q)
             /\ Kind(p, calls[p] + 1) = "finish"
    <3>1. request'[n] # NoRequest
      BY <2>5 DEF FinishRequest, NoRequest
    <3>2. ASSUME NEW q \in Members(n) PROVE ~Registered(q)'
      <4>1. CASE q = p
        BY <1>1, <2>5, <4>1 DEF Registered, Kind
      <4>2. CASE q # p
        BY <1>1, <2>5, <4>2, MemberIs DEF Registered, Kind
      <4> QED
        BY <4>1, <4>2
    <3> QED
      BY <1>4, <1>5, <2>5, <3>1, <3>2 DEF AwaitedAt, Requested
  <2> QED
    BY <2>1, <2>2, <2>3, <2>4, <2>5 DEF Registers, Leaves
<1> HIDE DEF n
<1> QED
  BY <1>1, <1>2, <1>3, <1>6, AwaitedStep

LEMMA ReturnAwaited ==
    ASSUME AllInv, NEW n \in Nodes, Returns1(n) PROVE Awaited'
<1>1. /\ UNCHANGED <<program, requests, calls, request>> /\ task'[n] = Idle /\ request[n] = NoRequest
      /\ \A m \in Nodes \ {n} : task'[m] = task[m] /\ client'[m] = client[m] /\ reply'[m] = reply[m]
  BY DEF Returns1
<1>2. \A m : Pending(m)' <=> Pending(m)
  BY <1>1 DEF Pending
<1>3. AwaitedAt(n)'
  BY <1>1 DEF AwaitedAt, Idle, Replied
<1> QED
  BY <1>1, <1>2, <1>3, AwaitedStep

(* What does not change with the servers. *)
Directory == Ids /\ PendingAlike /\ Counted

LEMMA SameDirectory ==
    ASSUME AllInv, UNCHANGED <<program, registered, addresses, numNodes, numPeers, requests>>
    PROVE  Directory'
<1>1. \A m : Pending(m)' <=> Pending(m)
  BY DEF Pending
<1>2. Ids' /\ PendingAlike'
  BY <1>1 DEF AllInv, GInv, Ids, PendingAlike
<1>3. Homes' = Homes /\ PeersOf(DOMAIN registered)' = PeersOf(DOMAIN registered)
  BY SameHomes, SameProgram DEF PeersOf
<1>4. Counted'
  BY <1>1, <1>3 DEF AllInv, GInv, Counted
<1> QED
  BY <1>2, <1>4 DEF Directory

(* Who is inside, and the topology a node has. *)
LEMMA InsideStep ==
    ASSUME AllInv, UNCHANGED registered, NEW n \in Nodes,
           \A m \in Nodes \ {n} :
              task'[m] = task[m] /\ client'[m] = client[m] /\ request'[m] = request[m],
           Inside(n)' <=> Inside(n)
    PROVE  InsideRegistered'
<1>1. \A m \in Nodes \ {n} : Inside(m)' <=> Inside(m)
  BY DEF Inside, Told
<1> QED
  BY <1>1 DEF AllInv, GInv, InsideRegistered

LEMMA PeerInside ==
    ASSUME AllInv, NEW p \in Peers, Calls1(p), Registers(p) \/ Reduces(p) \/ Leaves(p)
    PROVE  InsideRegistered'
<1> DEFINE n == NodeOf[p]
<1>1. /\ UNCHANGED registered /\ n \in Nodes
      /\ request[n] = NoRequest /\ task[n] = Idle
      /\ \A m \in Nodes \ {n} :
            task'[m] = task[m] /\ client'[m] = client[m] /\ request'[m] = request[m]
  BY DEF Calls1
<1>2. task[n].kind = "idle"
  BY <1>1 DEF Idle
<1>3. CASE Registers(p)
  <2>1. ~Inside(n)
    BY <1>2, <1>3 DEF Registers, Inside
  <2>2. \/ task'[n].kind = "idle"
        \/ request'[n] # NoRequest
    BY <1>3 DEF Registers, Idle, RegisterRequest, NoRequest
  <2>3. ~Inside(n)'
    BY <1>3, <2>2 DEF Registers, Inside
  <2> HIDE DEF n
  <2> QED
    BY <1>1, <2>1, <2>3, InsideStep
<1>4. CASE Reduces(p)
  <2>1. Inside(n)' <=> Inside(n)
    BY <1>2, <1>4 DEF Reduces, Inside, Told
  <2> HIDE DEF n
  <2> QED
    BY <1>1, <2>1, InsideStep
<1>5. CASE Leaves(p)
  <2>1. FinishRequest # NoRequest /\ Idle.kind = "idle"
    BY DEF FinishRequest, NoRequest, Idle
  <2>2. \/ task'[n].kind = "idle"
        \/ task'[n].kind = "finish" /\ request'[n] # NoRequest
    BY <1>5, <2>1 DEF Leaves
  <2>3. Told(n)' <=> Told(n)
    BY <1>5 DEF Leaves, Told
  <2>4. Inside(n)' <=> Inside(n)
    BY <1>2, <2>2, <2>3 DEF Inside
  <2> HIDE DEF n
  <2> QED
    BY <1>1, <2>4, InsideStep
<1> QED
  BY <1>3, <1>4, <1>5

LEMMA ReturnInside ==
    ASSUME AllInv, NEW n \in Nodes, Returns1(n),
           RegisterReturns(n) \/ FinishReturns(n) \/ ReduceReturns(n)
    PROVE  InsideRegistered'
<1>1. /\ UNCHANGED <<registered, request>> /\ task'[n].kind = "idle" /\ request[n] = NoRequest
      /\ \A m \in Nodes \ {n} : task'[m] = task[m] /\ client'[m] = client[m]
  BY DEF Returns1, Idle
<1>2. Inside(n)' <=> Inside(n)
  <2>1. CASE RegisterReturns(n)
    BY <1>1, <2>1 DEF Inside, RegisterReturns, Replied, Told, NoState
  <2>2. CASE ReduceReturns(n)
    BY <1>1, <2>2 DEF Inside, ReduceReturns, Told
  <2>3. CASE FinishReturns(n)
    BY <1>1, <2>3 DEF Inside, FinishReturns, Told
  <2> QED
    BY <2>1, <2>2, <2>3
<1> QED
  BY <1>1, <1>2, InsideStep

-----------------------------------------------------------------------------
(* FormedAlike.  Where the replies do not change but to be taken, a call   *)
(* is answered as before.                                                  *)
LEMMA FormedStep ==
    ASSUME AllInv, UNCHANGED program, NEW to, AnswersTo(to),
           \A p \in Participants :
              /\ p \in to => \/ Kind(p, Done(p) + 1) # "register"
                             \/ Replied(NodeOf[p]) /\ calls[p] = Done(p) + 1
              /\ Replied(NodeOf[p])' => Replied(NodeOf[p]) /\ calls'[p] = calls[p]
              /\ Replied(NodeOf[p]) => \/ Replied(NodeOf[p])' /\ calls'[p] = calls[p]
                                       \/ p \in to /\ calls[p] = Done(p) + 1
    PROVE  FormedAlike'
<1>1. ASSUME NEW n, NEW k \in Nat, \A p \in Members(n) : Kind(p, k) = "register"
      PROVE  Formed(n, k)' <=> Formed(n, k)
  <2>1. ASSUME NEW p \in Members(n)
        PROVE  (Done(p)' >= k \/ (Replied(n)' /\ calls'[p] = k))
               <=> (Done(p) >= k \/ (Replied(n) /\ calls[p] = k))
    <3>1. p \in Participants /\ p \in Peers /\ NodeOf[p] = n /\ Done(p) \in Nat
      BY <2>1, MemberIs, Counted1
    <3>2. Done(p)' = IF p \in to THEN Done(p) + 1 ELSE Done(p)
      BY <3>1, DoneStep DEF AllInv
    <3>3. /\ p \in to => \/ Kind(p, Done(p) + 1) # "register"
                         \/ Replied(n) /\ calls[p] = Done(p) + 1
          /\ Replied(n)' => Replied(n) /\ calls'[p] = calls[p]
          /\ Replied(n) => \/ Replied(n)' /\ calls'[p] = calls[p]
                           \/ p \in to /\ calls[p] = Done(p) + 1
      BY <3>1
    <3>4. Done(p) + 1 = k => Kind(p, Done(p) + 1) = "register"
      BY <1>1, <2>1
    <3> QED
      BY <3>1, <3>2, <3>3, <3>4
  <2> QED
    BY <2>1, SameProgram DEF Formed
<1>2. ASSUME NEW m \in Homes, NEW n \in Homes, NEW p \in Participants, NEW k \in 1 .. Len(program[p]),
             Kind(p, k) = "register", Formed(m, k)'
      PROVE  Formed(n, k)'
  <2>1. \A q \in Participants : Kind(q, k) = "register"
    BY <1>2, AllGrouped DEF AllInv
  <2>2. \A x : \A q \in Members(x) : Kind(q, k) = "register"
    BY <2>1 DEF Members
  <2>3. k \in Nat
    OBVIOUS
  <2>4. Formed(m, k) => Formed(n, k)
    BY <1>2 DEF AllInv, GInv, FormedAlike
  <2> QED
    BY <1>1, <1>2, <2>2, <2>3, <2>4
<1> QED
  BY <1>2, SameProgram, SameHomes DEF FormedAlike

LEMMA PeerFormed ==
    ASSUME AllInv, NEW p \in Peers, Calls1(p), Registers(p) \/ Reduces(p) \/ Leaves(p)
    PROVE  FormedAlike'
<1> DEFINE n == NodeOf[p]
<1>1. /\ UNCHANGED <<program, reply>> /\ n \in Nodes /\ reply[n] = NoReply /\ Done(p) = calls[p]
      /\ \A m \in Nodes \ {n} : task'[m] = task[m]
      /\ \A q \in Peers \ {p} : calls'[q] = calls[q]
  BY DEF Calls1
<1>2. ~Replied(n) /\ ~Replied(n)' /\ \A m \in Nodes \ {n} : Replied(m)' <=> Replied(m)
  BY <1>1 DEF Replied
<1>3. ASSUME NEW q \in Participants
      PROVE  /\ Replied(NodeOf[q])' => Replied(NodeOf[q]) /\ calls'[q] = calls[q]
             /\ Replied(NodeOf[q]) => Replied(NodeOf[q])' /\ calls'[q] = calls[q]
  <2>1. NodeOf[q] \in Nodes /\ q \in Peers
    BY Counted1
  <2>2. q = p \/ calls'[q] = calls[q]
    BY <1>1, <2>1
  <2> QED
    BY <1>2, <2>1, <2>2
<1>4. CASE UNCHANGED results
  <2>1. AnswersTo({})
    BY <1>4, NobodyAnswered DEF AllInv, TInv
  <2> HIDE DEF n
  <2> QED
    BY <1>1, <1>3, <2>1, FormedStep
<1>5. CASE AnswersTo({p}) /\ Leaves(p)
  <2>1. Kind(p, Done(p) + 1) # "register"
    BY <1>1, <1>5 DEF Leaves
  <2> HIDE DEF n
  <2> QED
    BY <1>1, <1>3, <1>5, <2>1, FormedStep
<1> QED
  BY <1>4, <1>5 DEF Registers, Reduces, Leaves

LEMMA ReturnFormed ==
    ASSUME AllInv, NEW n \in Nodes, Returns1(n),
           RegisterReturns(n) \/ FinishReturns(n) \/ ReduceReturns(n)
    PROVE  FormedAlike'
<1>1. /\ UNCHANGED <<program, calls>> /\ task'[n].kind = "idle"
      /\ \A m \in Nodes \ {n} : task'[m] = task[m] /\ reply'[m] = reply[m]
  BY DEF Returns1, Idle
<1>2. ~Replied(n)' /\ \A m \in Nodes \ {n} : Replied(m)' <=> Replied(m)
  BY <1>1 DEF Replied
<1>3. CASE RegisterReturns(n)
  <2>1. AnswersTo(Members(n)) /\ Replied(n) /\ \A p \in Members(n) : calls[p] = Done(p) + 1
    BY <1>3, Registering DEF RegisterReturns, Replied
  <2>2. \A p \in Participants : NodeOf[p] \in Nodes /\ (p \in Members(n) <=> NodeOf[p] = n)
    BY Counted1 DEF Members
  <2> QED
    BY <1>1, <1>2, <2>1, <2>2, FormedStep
<1>4. CASE ReduceReturns(n)
  <2>1. /\ AnswersTo(Members(n)) /\ ~Replied(n)
        /\ \A p \in Members(n) : Kind(p, Done(p) + 1) # "register"
    BY <1>4, Reducing DEF ReduceReturns, Replied
  <2>2. \A p \in Participants : NodeOf[p] \in Nodes
    BY Counted1
  <2> QED
    BY <1>1, <1>2, <2>1, <2>2, FormedStep
<1>5. CASE FinishReturns(n)
  <2>1. PICK p \in Members(n) : Finishes(n, p)
    BY <1>5, Finishing DEF FinishReturns
  <2>2. AnswersTo({p}) /\ Kind(p, Done(p) + 1) # "register" /\ ~Replied(n)
    BY <1>5, <2>1 DEF FinishReturns, Finishes, Replied
  <2>3. \A q \in Participants : NodeOf[q] \in Nodes
    BY Counted1
  <2> QED
    BY <1>1, <1>2, <2>2, <2>3, FormedStep
<1> QED
  BY <1>3, <1>4, <1>5

-----------------------------------------------------------------------------
(* Topologies, and the whole of the invariant.                             *)
LEMMA TopologiesStep ==
    ASSUME AllInv, UNCHANGED program,
           \A m \in Nodes : HasTopology(m)' => HasTopology(m) /\ TopologyOf(m)' = TopologyOf(m)
    PROVE  Topologies'
<1>1. Homes' = Homes /\ Participants' = Participants
  BY SameHomes, SameProgram
<1>2. ASSUME NEW m \in Nodes, HasTopology(m)' PROVE RightTopology(m, TopologyOf(m))'
  <2>1. RightTopology(m, TopologyOf(m))
    BY <1>2 DEF AllInv, GInv, Topologies
  <2> QED
    BY <1>1, <1>2, <2>1 DEF RightTopology
<1>3. \A m, n \in Nodes : HasTopology(m)' /\ HasTopology(n)' =>
         TopologyOf(m)'.nodes = TopologyOf(n)'.nodes
  BY DEF AllInv, GInv, Topologies
<1> QED
  BY <1>2, <1>3 DEF Topologies

LEMMA PeerTopologies ==
    ASSUME AllInv, NEW p \in Peers, Calls1(p), Registers(p) \/ Reduces(p) \/ Leaves(p)
    PROVE  Topologies'
<1> DEFINE n == NodeOf[p]
<1>1. /\ UNCHANGED <<program, reply>> /\ n \in Nodes /\ reply[n] = NoReply
      /\ \A m \in Nodes \ {n} : task'[m] = task[m] /\ client'[m] = client[m]
  BY DEF Calls1
<1>2. ~Replied(n) /\ ~Replied(n)' /\ \A m \in Nodes \ {n} : Replied(m)' <=> Replied(m)
  BY <1>1 DEF Replied
<1>3. HasTopology(n)' => HasTopology(n) /\ TopologyOf(n)' = TopologyOf(n)
  BY <1>2 DEF Registers, Reduces, Leaves, HasTopology, TopologyOf, Told
<1>4. \A m \in Nodes \ {n} : HasTopology(m)' => HasTopology(m) /\ TopologyOf(m)' = TopologyOf(m)
  BY <1>1, <1>2 DEF HasTopology, TopologyOf, Told
<1> HIDE DEF n
<1> QED
  BY <1>1, <1>3, <1>4, TopologiesStep

LEMMA ReturnTopologies ==
    ASSUME AllInv, NEW n \in Nodes, Returns1(n),
           RegisterReturns(n) \/ FinishReturns(n) \/ ReduceReturns(n)
    PROVE  Topologies'
<1>1. /\ UNCHANGED program /\ task'[n].kind = "idle"
      /\ \A m \in Nodes \ {n} : task'[m] = task[m] /\ client'[m] = client[m] /\ reply'[m] = reply[m]
  BY DEF Returns1, Idle
<1>2. ~Replied(n)' /\ \A m \in Nodes \ {n} : Replied(m)' <=> Replied(m)
  BY <1>1 DEF Replied
<1>3. HasTopology(n)' => HasTopology(n) /\ TopologyOf(n)' = TopologyOf(n)
  <2>1. CASE RegisterReturns(n)
    <3>1. Replied(n) /\ ~Told(n)
      BY <2>1, Registering DEF RegisterReturns, Replied
    <3> QED
      BY <2>1, <3>1 DEF RegisterReturns, HasTopology, TopologyOf, Told, NoState
  <2>2. CASE ReduceReturns(n)
    BY <1>2, <2>2 DEF ReduceReturns, HasTopology, TopologyOf, Told
  <2>3. CASE FinishReturns(n)
    BY <1>2, <2>3 DEF FinishReturns, HasTopology, Told
  <2> QED
    BY <2>1, <2>2, <2>3
<1>4. \A m \in Nodes \ {n} : HasTopology(m)' => HasTopology(m) /\ TopologyOf(m)' = TopologyOf(m)
  BY <1>1, <1>2 DEF HasTopology, TopologyOf, Told
<1> QED
  BY <1>1, <1>3, <1>4, TopologiesStep

LEMMA PeerKeepsG == ASSUME AllInv, NEW p \in Peers, PeerStep(p) PROVE GInv'
<1>1. Calls1(p) /\ (Registers(p) \/ Reduces(p) \/ Leaves(p))
  BY PeerEffect
<1>2. Directory'
  BY <1>1, SameDirectory DEF Calls1
<1> QED
  BY <1>1, <1>2, PeerKnows, PeerTold, PeerAwaited, PeerInside, PeerFormed, PeerTopologies
  DEF GInv, Known, Directory

LEMMA ReturnKeepsG ==
    ASSUME AllInv, NEW n \in Nodes,
           GlobalRegisterReturns(n) \/ GlobalFinishReturns(n) \/ GlobalAllReduceReturns(n)
    PROVE  GInv'
<1>1. Returns1(n) /\ (RegisterReturns(n) \/ FinishReturns(n) \/ ReduceReturns(n))
  BY ReturnEffect
<1>2. Directory'
  BY <1>1, SameDirectory DEF Returns1
<1> QED
  BY <1>1, <1>2, ReturnKnows, ReturnTold, ReturnAwaited, ReturnInside, ReturnFormed,
     ReturnTopologies
  DEF GInv, Known, Directory

(* A step of the orchestrator, or none, as the servers see it: their peers  *)
(* stay where they are.                                                    *)
LEMMA QuietKeeps ==
    ASSUME AllInv, UNCHANGED <<clientVars, client, round>>
    PROVE  Known' /\ ToldActive'
<1>1. AnswersTo({}) /\ UNCHANGED <<program, calls, round, client>>
  BY NobodyAnswered DEF AllInv, TInv, clientVars
<1>2. Across'
  BY <1>1, AcrossStep
<1>3. Rounds'
  <2>1. DOMAIN round = Nodes
    BY DEF AllInv, GInv, Rounds
  <2> QED
    BY <1>1, <2>1, RoundsStep
<1>4. ToldActive'
  <2>1. ASSUME NEW n \in Nodes PROVE Told(n)' <=> \E p \in Members(n) : Active(p)'
    <3>1. Told(n)' <=> Told(n)
      BY <1>1 DEF Told
    <3>2. \A p \in Members(n) : Active(p)' <=> Active(p)
      BY <1>1, MemberIs, ActiveStep
    <3> QED
      BY <3>1, <3>2 DEF AllInv, GInv, ToldActive
  <2> QED
    BY <1>1, <2>1, SameProgram DEF ToldActive
<1> QED
  BY <1>2, <1>3, <1>4 DEF Known

LEMMA StillKeepsG ==
    ASSUME AllInv, UNCHANGED <<clientVars, task, client, round, orchestratorVars>>
    PROVE  GInv'
<1>1. AnswersTo({}) /\ UNCHANGED <<program, calls>>
  BY NobodyAnswered DEF AllInv, TInv, clientVars
<1>2. /\ UNCHANGED <<task, client, round>>
      /\ UNCHANGED <<registered, addresses, numNodes, numPeers, requests, request, reply>>
  BY DEF orchestratorVars
<1>3. Known' /\ ToldActive'
  BY QuietKeeps
<1>4. Directory'
  BY <1>1, <1>2, SameDirectory
<1>5. \A m : (Replied(m)' <=> Replied(m)) /\ (Pending(m)' <=> Pending(m)) /\ (Inside(m)' <=> Inside(m))
  BY <1>2 DEF Replied, Pending, Inside, Told
<1>6. FormedAlike'
  BY <1>1, <1>5, FormedStep
<1>7. InsideRegistered'
  BY <1>2, <1>5 DEF AllInv, GInv, InsideRegistered
<1>8. Topologies'
  <2>1. \A m \in Nodes : HasTopology(m)' => HasTopology(m) /\ TopologyOf(m)' = TopologyOf(m)
    BY <1>2 DEF HasTopology, TopologyOf, Told, Replied
  <2> QED
    BY <1>1, <2>1, TopologiesStep
<1>9. Awaited'
  <2>1. ASSUME NEW n \in Nodes PROVE Awaited'
    <3>1. AwaitedAt(n)'
      <4>1. Members(n)' = Members(n) /\ (Requested(n)' <=> Requested(n))
        BY <1>1, <1>2, SameProgram, SameHomes DEF Requested
      <4>2. (\A p \in Members(n) : ~Registered(p)) => \A p \in Members(n)' : ~Registered(p)'
        BY <1>1, <4>1 DEF Registered, Kind
      <4>3. AwaitedAt(n)
        BY DEF AllInv, GInv, Awaited
      <4> QED
        BY <1>2, <1>5, <4>1, <4>2, <4>3 DEF AwaitedAt
    <3> QED
      BY <1>1, <1>2, <1>5, <3>1, AwaitedStep
  <2>2. CASE Nodes = {}
    BY <2>2 DEF Awaited
  <2> QED
    BY <2>1, <2>2
<1> QED
  BY <1>3, <1>4, <1>6, <1>7, <1>8, <1>9 DEF GInv, Known, Directory

-----------------------------------------------------------------------------
(* The orchestrator.                                                       *)
LEMMA RegisteredAre ==
    ASSUME AllInv
    PROVE  /\ DOMAIN registered \subseteq Homes /\ IsFiniteSet(DOMAIN registered)
           /\ Cardinality(DOMAIN registered) \in Nat
           /\ \A n \in Nodes : n \in DOMAIN registered <=> Inside(n)
<1>1. DOMAIN registered = {n \in Nodes : Inside(n)}
  BY DEF AllInv, GInv, InsideRegistered
<1>2. ASSUME NEW n \in Nodes, Inside(n) PROVE n \in Homes
  <2>1. client[n] # NoClient \/ task[n].kind # "idle"
    BY <1>2 DEF Inside, Told
  <2>2. NodeInv(n)
    BY DEF AllInv, LInv
  <2> QED
    BY <2>1, <2>2, HomesAre DEF NodeInv, ClientGlobal
<1>3. DOMAIN registered \in SUBSET Homes
  BY <1>1, <1>2
<1> QED
  BY <1>1, <1>3, HomesAre, FS_Subset, FS_CardinalityType

(* A node that asks to register has not, and the others of its session ask *)
(* as it does.                                                             *)
LEMMA Asks ==
    ASSUME AllInv, NEW n \in Nodes, request[n].kind = "register"
    PROVE  /\ task[n].kind = "register" /\ reply[n] = NoReply /\ ~Pending(n) /\ ~Replied(n)
           /\ request[n] # NoRequest
           /\ request[n].nodes = Cardinality(Homes) /\ request[n].peers = Cardinality(Members(n))
           /\ n \in Homes /\ ~Told(n) /\ n \notin DOMAIN registered
<1>1. OneRequest /\ AwaitedAt(n)
  BY DEF AllInv, TInv, GInv, Awaited
<1>2. request[n] # NoRequest
  BY DEF NoRequest
<1>3. task[n].kind = "register" /\ reply[n] = NoReply /\ ~Pending(n)
  BY <1>1, <1>2 DEF OneRequest
<1>4. request[n] = RegisterRequest(Cardinality(Homes), Cardinality(Members(n)))
  BY <1>1, <1>2, <1>3 DEF AwaitedAt, Requested
<1>5. n \in Homes /\ ~Told(n)
  BY <1>3, Registering
<1>6. n \notin DOMAIN registered
  BY <1>2, <1>5, RegisteredAre DEF Inside
<1> QED
  BY <1>2, <1>3, <1>4, <1>5, <1>6 DEF RegisterRequest, Replied

LEMMA OthersAsk ==
    ASSUME AllInv, NEW n \in Nodes, request[n].kind = "register", NEW m \in DOMAIN registered
    PROVE  Pending(m)
<1>1. /\ task[n].kind = "register" /\ n \in Homes /\ ~Replied(n)
      /\ m \in Nodes /\ m \in Homes /\ Inside(m)
  BY Asks, RegisteredAre, HomesAre
<1>2. PICK q \in Members(n) : TRUE
  BY <1>1, HomesAre
<1> DEFINE k == calls[q]
<1>3. /\ q \in Participants /\ k = Done(q) + 1 /\ Done(q) \in Nat /\ k \in 1 .. Len(program[q])
      /\ Kind(q, k) = "register" /\ k \in Nat
  BY <1>1, <1>2, Registering
<1>4. ~Formed(n, k)
  <2>1. ~(Done(q) >= k)
    BY <1>3
  <2> QED
    BY <1>1, <2>1 DEF Formed
<1>5. ~Formed(m, k)
  BY <1>1, <1>3, <1>4 DEF AllInv, GInv, FormedAlike
<1>6. ~Replied(m)
  <2>1. SUFFICES ASSUME Replied(m) PROVE FALSE
    OBVIOUS
  <2>2. \A x \in Members(m) : /\ x \in Participants /\ calls[x] = Done(x) + 1
                              /\ Kind(x, calls[x]) = "register"
    BY <1>1, <2>1, Registering DEF Replied
  <2>3. \A x \in Members(m) : calls[x] = k
    BY <1>3, <2>2, SameCall
  <2> QED
    BY <1>5, <2>1, <2>3 DEF Formed
<1>7. ~Told(m)
  <2>1. SUFFICES ASSUME Told(m) PROVE FALSE
    OBVIOUS
  <2>2. PICK x \in Members(m) : Active(x)
    BY <1>1, <2>1 DEF AllInv, GInv, ToldActive
  <2>3. x \in Participants /\ NodeOf[x] = m /\ Done(x) \in Nat /\ Done(x) > 0 /\ Kind(x, Done(x)) # "finish"
    BY <2>2, MemberIs, Counted1 DEF Active
  <2>4. k = 1
    BY <1>3, CallIs DEF AllInv, Connected
  <2>6. Done(x) >= k
    BY <1>3, <2>3, <2>4
  <2>7. ASSUME NEW y \in Members(m) PROVE Done(y) >= k
    <3>1. y \in Participants /\ NodeOf[y] = NodeOf[x] /\ Done(y) \in Nat
      BY <2>3, <2>7, MemberIs, Counted1
    <3>2. Sync(x, y)
      BY <2>3, <3>1 DEF AllInv, LInv, InSync
    <3>3. Done(x) <= Done(y)
      BY <2>3, <3>2 DEF Sync
    <3> QED
      BY <1>3, <2>3, <2>6, <3>1, <3>3
  <2> QED
    BY <1>5, <2>7 DEF Formed
<1>8. task[m].kind = "register" /\ request[m] = NoRequest
  BY <1>1, <1>7 DEF Inside
<1> QED
  BY <1>1, <1>6, <1>8 DEF AllInv, GInv, Awaited, AwaitedAt, Replied

LEMMA NoneStrange ==
    ASSUME AllInv, NEW n \in Nodes
    PROVE  ~RegisterMismatch(n) /\ ~RegisterDouble(n) /\ ~FinishStranger(n)
<1>1. ~RegisterMismatch(n)
  BY Asks DEF RegisterMismatch, AllInv, GInv, Counted
<1>2. ~RegisterDouble(n)
  <2>1. SUFFICES ASSUME RegisterDouble(n) PROVE FALSE
    OBVIOUS
  <2>2. PICK id \in DOMAIN addresses : addresses[id] = n
    BY <2>1 DEF RegisterDouble
  <2>3. n \in DOMAIN registered
    BY <2>2 DEF AllInv, GInv, Ids
  <2> QED
    BY <2>1, <2>3, Asks DEF RegisterDouble
<1>3. ~FinishStranger(n)
  <2>1. SUFFICES ASSUME FinishStranger(n) PROVE FALSE
    OBVIOUS
  <2>2. request[n] # NoRequest /\ task[n].kind = "finish"
    <3>1. request[n] # NoRequest
      BY <2>1 DEF FinishStranger, NoRequest
    <3> QED
      BY <2>1, <3>1 DEF FinishStranger, AllInv, TInv, OneRequest
  <2>3. Told(n)
    BY <2>2, Finishing
  <2> QED
    BY <2>1, <2>2, <2>3, RegisteredAre DEF Inside, FinishStranger
<1> QED
  BY <1>1, <1>2, <1>3

LEMMA PeersOfMore ==
    ASSUME NEW S, NEW n, n \notin S
    PROVE  /\ Cardinality(PeersOf(S \cup {n})) = Cardinality(PeersOf(S)) + Cardinality(Members(n))
           /\ IsFiniteSet(PeersOf(S)) /\ Cardinality(PeersOf(S)) \in Nat
<1>1. PeersOf(S) \in SUBSET Participants /\ Members(n) \in SUBSET Participants
  BY DEF PeersOf, Members
<1>2. IsFiniteSet(PeersOf(S)) /\ IsFiniteSet(Members(n))
  BY <1>1, ParticipantsAre, FS_Subset
<1>3. PeersOf(S \cup {n}) = PeersOf(S) \cup Members(n) /\ PeersOf(S) \cap Members(n) = {}
  BY DEF PeersOf, Members
<1>4. Cardinality(PeersOf(S) \cup Members(n)) =
         Cardinality(PeersOf(S)) + Cardinality(Members(n)) - Cardinality(PeersOf(S) \cap Members(n))
  BY <1>2, FS_Union
<1>5. Cardinality(PeersOf(S) \cap Members(n)) = 0
  BY <1>3, FS_EmptySet
<1>6. Cardinality(PeersOf(S)) \in Nat /\ Cardinality(Members(n)) \in Nat
  BY <1>2, FS_CardinalityType
<1>7. Cardinality(PeersOf(S \cup {n})) = Cardinality(PeersOf(S) \cup Members(n))
  BY <1>3
<1>8. Cardinality(PeersOf(S) \cup Members(n)) = Cardinality(PeersOf(S)) + Cardinality(Members(n))
  BY <1>4, <1>5, <1>6
<1> QED
  BY <1>2, <1>6, <1>7, <1>8

(* A node registers: what the orchestrator knows is right. *)
Asking(n) == requests \cup {[node |-> n, id |-> NextId]}

Answers(n) ==
    reply' = [m \in Nodes |->
                 IF \E r \in Asking(n) : r.node = m
                 THEN Topology((CHOOSE r \in Asking(n) : r.node = m).id, addresses', numPeers')
                 ELSE reply[m]]

Enters(n) ==
    /\ DOMAIN registered' = DOMAIN registered \cup {n}
    /\ DOMAIN addresses' = {registered'[m] : m \in DOMAIN registered'}
    /\ \A m \in DOMAIN registered' : addresses'[registered'[m]] = m
    /\ \A r \in Asking(n) : /\ r.node \in DOMAIN registered'
                            /\ r = [node |-> r.node, id |-> registered'[r.node]]
    /\ \A m : (\E r \in Asking(n) : r.node = m) <=> Pending(m) \/ m = n
    /\ \A m \in DOMAIN registered' : Pending(m) \/ m = n
    /\ numNodes' = Cardinality(Homes)
    /\ DOMAIN addresses' = 0 .. Cardinality(DOMAIN registered') - 1
    /\ numPeers' = Cardinality(PeersOf(DOMAIN registered'))
    /\ request' = [request EXCEPT ![n] = NoRequest]
    /\ IF Cardinality(DOMAIN registered') = Cardinality(Homes)
       THEN Answers(n) /\ requests' = {}
       ELSE requests' = Asking(n) /\ UNCHANGED reply

LEMMA EntersIs == ASSUME AllInv, NEW n \in Nodes, RegisterNode(n) PROVE Enters(n)
<1>0. Ids /\ Counted /\ request[n].kind = "register"
  BY DEF AllInv, GInv, RegisterNode
<1>1. /\ n \notin DOMAIN registered /\ n \in Homes
      /\ request[n].nodes = Cardinality(Homes) /\ request[n].peers = Cardinality(Members(n))
  BY <1>0, Asks
<1>2. IsFiniteSet(DOMAIN registered) /\ NextId \in Nat /\ NextId = Cardinality(DOMAIN registered)
  BY RegisteredAre DEF NextId
<1>3. \A m \in DOMAIN registered : Pending(m)
  BY <1>0, OthersAsk
<1>4. /\ DOMAIN addresses = 0 .. NextId - 1 /\ NextId \notin DOMAIN addresses
      /\ numPeers = Cardinality(PeersOf(DOMAIN registered))
  BY <1>0, <1>2, <1>3 DEF Counted
<1>5. /\ registered' = With(registered, n, NextId) /\ addresses' = With(addresses, NextId, n)
      /\ numNodes' = Cardinality(Homes) /\ numPeers' = numPeers + Cardinality(Members(n))
      /\ request' = [request EXCEPT ![n] = NoRequest]
  BY <1>1 DEF RegisterNode
<1>6. /\ DOMAIN registered' = DOMAIN registered \cup {n} /\ registered'[n] = NextId
      /\ \A m \in DOMAIN registered : registered'[m] = registered[m]
      /\ DOMAIN addresses' = DOMAIN addresses \cup {NextId} /\ addresses'[NextId] = n
      /\ \A id \in DOMAIN addresses : addresses'[id] = addresses[id]
  <2>1. /\ DOMAIN registered' = DOMAIN registered \cup {n} /\ registered'[n] = NextId
        /\ \A m \in DOMAIN registered : m # n => registered'[m] = registered[m]
    BY <1>5 DEF With
  <2>2. /\ DOMAIN addresses' = DOMAIN addresses \cup {NextId} /\ addresses'[NextId] = n
        /\ \A id \in DOMAIN addresses : id # NextId => addresses'[id] = addresses[id]
    BY <1>5 DEF With
  <2>3. \A m \in DOMAIN registered : registered'[m] = registered[m]
    BY <1>1, <2>1
  <2>4. \A id \in DOMAIN addresses : addresses'[id] = addresses[id]
    BY <1>4, <2>2
  <2> QED
    BY <2>1, <2>2, <2>3, <2>4
<1>7. /\ DOMAIN addresses = {registered[m] : m \in DOMAIN registered}
      /\ \A m \in DOMAIN registered : addresses[registered[m]] = m
      /\ \A r \in requests : /\ r.node \in DOMAIN registered
                             /\ r = [node |-> r.node, id |-> registered[r.node]]
  BY <1>0 DEF Ids
<1>8. DOMAIN addresses' = {registered'[m] : m \in DOMAIN registered'}
  BY <1>6, <1>7
<1>9. \A m \in DOMAIN registered' : addresses'[registered'[m]] = m
  BY <1>1, <1>6, <1>7
<1> DEFINE new == [node |-> n, id |-> NextId]
<1>10. new.node = n /\ Asking(n) = requests \cup {new} /\ new = [node |-> n, id |-> registered'[n]]
  BY <1>6 DEF Asking
<1> HIDE DEF new
<1>11. \A r \in Asking(n) : /\ r.node \in DOMAIN registered'
                            /\ r = [node |-> r.node, id |-> registered'[r.node]]
  BY <1>6, <1>7, <1>10
<1>12. \A m : (\E r \in Asking(n) : r.node = m) <=> Pending(m) \/ m = n
  BY <1>10 DEF Pending
<1>13. Cardinality(DOMAIN registered') = NextId + 1
  BY <1>1, <1>2, <1>6, FS_AddElement
<1>14. DOMAIN addresses' = 0 .. Cardinality(DOMAIN registered') - 1
  BY <1>2, <1>4, <1>6, <1>13
<1>15. numPeers' = Cardinality(PeersOf(DOMAIN registered'))
  BY <1>1, <1>4, <1>5, <1>6, PeersOfMore
<1>16. IF Cardinality(DOMAIN registered') = Cardinality(Homes)
       THEN Answers(n) /\ requests' = {}
       ELSE requests' = Asking(n) /\ UNCHANGED reply
  BY <1>1 DEF RegisterNode, Asking, Everyone, Answers
<1> QED
  BY <1>3, <1>5, <1>6, <1>8, <1>9, <1>11, <1>12, <1>14, <1>15, <1>16 DEF Enters

(* With the last one all are answered. *)
LEMMA AllEnter ==
    ASSUME AllInv, NEW n \in Nodes, RegisterNode(n), UNCHANGED serverVars,
           Cardinality(DOMAIN registered') = Cardinality(Homes)
    PROVE  /\ DOMAIN registered' = Homes /\ numPeers' = Cardinality(Participants)
           /\ \A m \in Homes :
                 /\ m \in Nodes /\ task[m].kind = "register" /\ request'[m] = NoRequest /\ ~Told(m)
                 /\ reply'[m] = Topology(registered'[m], addresses', numPeers') /\ Replied(m)'
           /\ \A m \in Nodes \ Homes : ~Replied(m)' /\ ~Told(m) /\ task[m].kind = "idle"
           /\ requests' = {}
<1>1. Enters(n) /\ request[n].kind = "register"
  BY EntersIs DEF RegisterNode
<1>2. n \in Homes /\ task[n].kind = "register"
  BY <1>1, Asks
<1>3. DOMAIN registered' = Homes
  <2>1. DOMAIN registered' \in SUBSET Homes
    BY <1>1, <1>2, RegisteredAre DEF Enters
  <2> QED
    BY <2>1, HomesAre, FS_Subset
<1>4. Answers(n) /\ requests' = {}
  BY <1>1 DEF Enters
<1>5. numPeers' = Cardinality(Participants)
  <2>1. PeersOf(Homes) = Participants
    BY HomesAre DEF PeersOf
  <2> QED
    BY <1>1, <1>3, <2>1 DEF Enters
<1>6. ASSUME NEW m \in Homes
      PROVE  /\ m \in Nodes /\ task[m].kind = "register" /\ request'[m] = NoRequest /\ ~Told(m)
             /\ reply'[m] = Topology(registered'[m], addresses', numPeers') /\ Replied(m)'
  <2>1. m \in Nodes /\ (Pending(m) \/ m = n)
    BY <1>1, <1>3, HomesAre DEF Enters
  <2>2. task[m].kind = "register" /\ (m # n => request[m] = NoRequest)
    BY <1>2, <2>1 DEF AllInv, TInv, OneRequest
  <2>3. ~Told(m)
    BY <2>1, <2>2, Registering
  <2>4. request'[m] = NoRequest
    BY <1>1, <2>1, <2>2 DEF Enters, AllInv, TInv, OrchestratorTypes
  <2> DEFINE c == CHOOSE r \in Asking(n) : r.node = m
  <2>5. \E r \in Asking(n) : r.node = m
    BY <1>1, <2>1 DEF Enters
  <2>6. c \in Asking(n) /\ c.node = m
    BY <2>5
  <2>7. reply'[m] = Topology(c.id, addresses', numPeers')
    BY <1>4, <2>1, <2>5 DEF Answers
  <2> HIDE DEF c
  <2>8. c.id = registered'[m]
    <3>1. c = [node |-> m, id |-> registered'[m]]
      BY <1>1, <2>6 DEF Enters
    <3> QED
      BY <3>1
  <2>9. reply'[m] # NoReply
    BY <2>7 DEF Topology, NoReply
  <2>10. Replied(m)'
    BY <2>2, <2>9 DEF Replied, serverVars
  <2> QED
    BY <2>1, <2>2, <2>3, <2>4, <2>7, <2>8, <2>10
<1>7. ASSUME NEW m \in Nodes \ Homes PROVE ~Replied(m)' /\ ~Told(m) /\ task[m].kind = "idle"
  <2>1. NodeInv(m) /\ task[m].kind \in TaskKinds
    BY DEF AllInv, LInv, TInv, IInv, ServerTypes
  <2>2. task[m].kind = "idle" /\ client[m] = NoClient
    BY <2>1, HomesAre DEF NodeInv, ClientGlobal
  <2> QED
    BY <2>2 DEF Replied, Told, serverVars
<1> QED
  BY <1>3, <1>4, <1>5, <1>6, <1>7

LEMMA AllEnterKeeps ==
    ASSUME AllInv, NEW n \in Nodes, RegisterNode(n), UNCHANGED <<clientVars, serverVars, globalVars>>,
           Cardinality(DOMAIN registered') = Cardinality(Homes)
    PROVE  Awaited' /\ FormedAlike' /\ Topologies'
<1>0. /\ UNCHANGED <<program, calls, results, task, client>> /\ Enters(n)
      /\ Homes' = Homes /\ Participants' = Participants /\ \A m : Members(m)' = Members(m)
  BY EntersIs, SameHomes, SameProgram DEF clientVars, serverVars
<1>1. /\ DOMAIN registered' = Homes /\ numPeers' = Cardinality(Participants)
      /\ \A m \in Homes :
            /\ m \in Nodes /\ task[m].kind = "register" /\ request'[m] = NoRequest /\ ~Told(m)
            /\ reply'[m] = Topology(registered'[m], addresses', numPeers') /\ Replied(m)'
      /\ \A m \in Nodes \ Homes : ~Replied(m)' /\ ~Told(m) /\ task[m].kind = "idle"
  BY AllEnter
<1>2. \A m : Told(m)' <=> Told(m)
  BY <1>0 DEF Told
<1>3. \A m \in Homes : reply'[m].kind = "topology" /\ reply'[m] # NoReply
  <2>1. \A i, a, d : Topology(i, a, d).kind = "topology"
    BY DEF Topology
  <2>2. \A m \in Homes : reply'[m].kind = "topology"
    BY <1>1, <2>1
  <2> QED
    BY <2>2 DEF NoReply
<1>4. Awaited'
  <2>1. ASSUME NEW m \in Homes PROVE AwaitedAt(m)'
    <3>1. client[m] # NoClient
      BY <1>1, <2>1 DEF AllInv, GInv, Awaited, AwaitedAt
    <3> QED
      BY <1>0, <1>1, <1>3, <2>1, <3>1 DEF AwaitedAt
  <2>2. ASSUME NEW m \in Nodes \ Homes PROVE AwaitedAt(m)'
    <3>1. request'[m] = NoRequest
      <4>1. request[m] = NoRequest /\ DOMAIN request = Nodes
        BY <1>1, IdleAwaitsNothing DEF AllInv, TInv, OrchestratorTypes
      <4> QED
        BY <1>0, <4>1 DEF Enters
    <3> QED
      BY <1>0, <1>1, <3>1 DEF AwaitedAt
  <2> QED
    BY <2>1, <2>2 DEF Awaited
<1>5. FormedAlike'
  <2>1. ASSUME NEW p \in Participants
        PROVE  NodeOf[p] \in Homes /\ calls[p] = Done(p) + 1 /\ Done(p) \in Nat
    BY <1>1, Counted1, Registering
  <2>2. ASSUME NEW p \in Participants, NEW q \in Participants PROVE calls[p] = calls[q]
    <3>1. Kind(p, calls[p]) = "register" /\ Kind(q, calls[q]) = "register"
      BY <1>1, Counted1, Registering
    <3> QED
      BY <2>1, <3>1, SameCall
  <2>3. ASSUME NEW m \in Homes, NEW k \in Nat, NEW p \in Participants
        PROVE  Formed(m, k)' <=> k <= calls[p]
    <3>1. PICK q \in Members(m) : TRUE
      BY HomesAre
    <3>2. \A x \in Members(m) : x \in Participants /\ calls[x] = calls[p] /\ Done(x) + 1 = calls[p] /\ Done(x) \in Nat
      BY <2>1, <2>2, MemberIs
    <3>3. Formed(m, k)' <=> \A x \in Members(m) : Done(x) >= k \/ calls[x] = k
      BY <1>0, <1>1 DEF Formed, Done
    <3>4. \A x \in Members(m) : (Done(x) >= k \/ calls[x] = k) <=> k <= calls[p]
      BY <3>2
    <3> QED
      BY <3>1, <3>3, <3>4
  <2>4. ASSUME NEW p \in Participants, NEW k \in 1 .. Len(program[p]) PROVE k \in Nat
    OBVIOUS
  <2> QED
    BY <1>0, <2>3, <2>4 DEF FormedAlike
<1>6. Topologies'
  <2>1. ASSUME NEW m \in Nodes
        PROVE  /\ HasTopology(m)' <=> m \in Homes
               /\ m \in Homes => TopologyOf(m)' = Topology(registered'[m], addresses', numPeers')
    BY <1>1, <1>2 DEF HasTopology, TopologyOf
  <2>2. ASSUME NEW m \in Homes
        PROVE  LET t == Topology(registered'[m], addresses', numPeers') IN
               /\ t.kind = "topology" /\ t.id = registered'[m] /\ t.nodes = addresses'
               /\ t.devices = numPeers'
    BY DEF Topology
  <2>3. /\ DOMAIN addresses' = {registered'[m] : m \in Homes}
        /\ \A m \in Homes : addresses'[registered'[m]] = m
        /\ DOMAIN addresses' = 0 .. Cardinality(Homes) - 1
    BY <1>0, <1>1 DEF Enters
  <2>4. Range(addresses') = Homes
    BY <2>3 DEF Range
  <2>5. ASSUME NEW m \in Homes PROVE RightTopology(m, TopologyOf(m))'
    <3> DEFINE t == TopologyOf(m)'
    <3>1. /\ t.kind = "topology" /\ t.id = registered'[m] /\ t.nodes = addresses'
          /\ t.devices = numPeers'
      BY <1>1, <2>1, <2>2, <2>5
    <3>2. /\ t.id \in DOMAIN t.nodes /\ t.nodes[t.id] = m
          /\ DOMAIN t.nodes = 0 .. Cardinality(Homes) - 1 /\ Range(t.nodes) = Homes
          /\ t.devices = Cardinality(Participants)
      BY <1>1, <2>3, <2>4, <2>5, <3>1
    <3> QED
      BY <1>0, <3>1, <3>2 DEF RightTopology
  <2>6. \A m \in Homes : TopologyOf(m)'.nodes = addresses'
    BY <1>1, <2>1, <2>2
  <2> QED
    BY <2>1, <2>5, <2>6 DEF Topologies
<1> QED
  BY <1>4, <1>5, <1>6

(* A node registers. *)
LEMMA RegisterNodeKeepsG ==
    ASSUME AllInv, NEW n \in Nodes, RegisterNode(n), UNCHANGED <<clientVars, serverVars, globalVars>>
    PROVE  GInv'
<1>0. /\ UNCHANGED <<program, calls, results, task, client, round>> /\ Enters(n)
      /\ Homes' = Homes /\ \A m : Members(m)' = Members(m)
      /\ request[n].kind = "register"
  BY EntersIs, SameHomes, SameProgram DEF clientVars, serverVars, globalVars, RegisterNode
<1>1. Known' /\ ToldActive'
  <2>1. UNCHANGED <<clientVars, client, round>>
    BY <1>0
  <2> QED
    BY <2>1, QuietKeeps
<1>2. /\ task[n].kind = "register" /\ reply[n] = NoReply /\ ~Pending(n) /\ ~Replied(n)
      /\ n \in Homes /\ ~Told(n) /\ n \notin DOMAIN registered
      /\ DOMAIN request = Nodes /\ request'[n] = NoRequest
      /\ \A m \in Nodes \ {n} : request'[m] = request[m]
  BY <1>0, Asks DEF Enters, AllInv, TInv, OrchestratorTypes
<1>3. requests' = {} \/ requests' = Asking(n)
  BY <1>0 DEF Enters
<1>4. Ids'
  <2>1. /\ DOMAIN addresses' = {registered'[m] : m \in DOMAIN registered'}
        /\ \A m \in DOMAIN registered' : addresses'[registered'[m]] = m
    BY <1>0 DEF Enters
  <2>2. ASSUME NEW r \in requests'
        PROVE  r.node \in DOMAIN registered' /\ r = [node |-> r.node, id |-> registered'[r.node]]
    BY <1>0, <1>3, <2>2 DEF Enters
  <2> QED
    BY <2>1, <2>2 DEF Ids
<1>5. PendingAlike'
  <2>1. ASSUME requests' = Asking(n), NEW m \in DOMAIN registered' PROVE Pending(m)'
    <3>1. \E r \in Asking(n) : r.node = m
      BY <1>0 DEF Enters
    <3> QED
      BY <2>1, <3>1 DEF Pending
  <2> QED
    BY <1>3, <2>1 DEF PendingAlike
<1>6. Counted'
  <2>1. PeersOf(DOMAIN registered)' = PeersOf(DOMAIN registered')
    BY <1>0, SameProgram DEF PeersOf
  <2>2. /\ numNodes' = Cardinality(Homes)
        /\ DOMAIN addresses' = 0 .. Cardinality(DOMAIN registered') - 1
        /\ numPeers' = Cardinality(PeersOf(DOMAIN registered'))
    BY <1>0 DEF Enters
  <2> QED
    BY <1>0, <2>1, <2>2 DEF Counted
<1>7. InsideRegistered'
  <2>1. DOMAIN registered = {m \in Nodes : Inside(m)} /\ DOMAIN registered' = DOMAIN registered \cup {n}
    BY <1>0 DEF Enters, AllInv, GInv, InsideRegistered
  <2>2. Inside(n)' /\ \A m \in Nodes \ {n} : Inside(m)' <=> Inside(m)
    BY <1>0, <1>2 DEF Inside, Told
  <2> QED
    BY <2>1, <2>2 DEF InsideRegistered
<1>8. CASE Cardinality(DOMAIN registered') = Cardinality(Homes)
  BY <1>1, <1>4, <1>5, <1>6, <1>7, <1>8, AllEnterKeeps DEF GInv, Known
<1>9. CASE Cardinality(DOMAIN registered') # Cardinality(Homes)
  <2>1. requests' = Asking(n) /\ UNCHANGED reply
    BY <1>0, <1>9 DEF Enters
  <2>2. \A m : Pending(m)' <=> Pending(m) \/ m = n
    BY <1>0, <2>1 DEF Enters, Pending
  <2>3. \A m : (Replied(m)' <=> Replied(m)) /\ (Told(m)' <=> Told(m))
    BY <1>0, <2>1 DEF Replied, Told
  <2>4. AwaitedAt(n)'
    <3>1. client[n] # NoClient
      BY <1>2 DEF AllInv, GInv, Awaited, AwaitedAt
    <3> QED
      BY <1>0, <1>2, <2>2, <2>3, <3>1 DEF AwaitedAt
  <2>5. Awaited'
    BY <1>0, <1>2, <2>1, <2>2, <2>4, AwaitedStep
  <2>6. FormedAlike'
    <3>1. AnswersTo({})
      BY <1>0, NobodyAnswered DEF AllInv, TInv
    <3> QED
      BY <1>0, <2>3, <3>1, FormedStep
  <2>7. Topologies'
    <3>1. \A m \in Nodes : HasTopology(m)' => HasTopology(m) /\ TopologyOf(m)' = TopologyOf(m)
      BY <1>0, <2>1, <2>3 DEF HasTopology, TopologyOf
    <3> QED
      BY <1>0, <3>1, TopologiesStep
  <2> QED
    BY <1>1, <1>4, <1>5, <1>6, <1>7, <2>5, <2>6, <2>7 DEF GInv, Known
<1> QED
  BY <1>8, <1>9

(* A node leaves, and none registers once another has left.                *)
LEMMA FinishNodeKeepsG ==
    ASSUME AllInv, NEW n \in Nodes, FinishNode(n), UNCHANGED <<clientVars, serverVars, globalVars>>
    PROVE  GInv'
<1>0. /\ UNCHANGED <<program, calls, results, task, client, round>> /\ UNCHANGED numNodes
      /\ Homes' = Homes /\ \A m : Members(m)' = Members(m)
      /\ request[n].kind = "finish" /\ n \in DOMAIN registered
  BY SameHomes, SameProgram DEF clientVars, serverVars, globalVars, FinishNode
<1>1. Known' /\ ToldActive'
  <2>1. UNCHANGED <<clientVars, client, round>>
    BY <1>0
  <2> QED
    BY <2>1, QuietKeeps
<1>2. /\ task[n].kind = "finish" /\ request[n] # NoRequest /\ ~Pending(n) /\ ~Replied(n)
      /\ Told(n) /\ DOMAIN request = Nodes /\ DOMAIN reply = Nodes
  <2>1. request[n] # NoRequest
    BY <1>0 DEF NoRequest
  <2>2. task[n].kind = "finish" /\ ~Pending(n)
    BY <1>0, <2>1 DEF AllInv, TInv, OneRequest
  <2> QED
    BY <2>1, <2>2, Finishing DEF AllInv, TInv, OrchestratorTypes, Replied
<1>3. requests = {} /\ requests' = {}
  <2>1. requests = {}
    BY <1>0, <1>2 DEF AllInv, GInv, PendingAlike
  <2> QED
    BY <2>1 DEF FinishNode
<1>4. /\ request'[n] = NoRequest /\ \A m \in Nodes \ {n} : request'[m] = request[m]
      /\ reply'[n] = [kind |-> "finished"] /\ \A m \in Nodes \ {n} : reply'[m] = reply[m]
  BY <1>2 DEF FinishNode
<1>5. reply'[n] # NoReply
  BY <1>4 DEF NoReply
<1>6. \A m : ~Pending(m) /\ ~Pending(m)'
  BY <1>3 DEF Pending
<1>7. /\ DOMAIN registered' = DOMAIN registered \ {n}
      /\ \A m \in DOMAIN registered' : registered'[m] = registered[m]
  BY DEF FinishNode, Without
<1>8. /\ DOMAIN addresses' = DOMAIN addresses \ {registered[n]}
      /\ \A id \in DOMAIN addresses' : addresses'[id] = addresses[id]
  BY DEF FinishNode, Without
<1>9. Ids'
  <2>1. /\ DOMAIN addresses = {registered[m] : m \in DOMAIN registered}
        /\ \A m \in DOMAIN registered : addresses[registered[m]] = m
    BY DEF AllInv, GInv, Ids
  <2>2. \A m \in DOMAIN registered' : registered[m] # registered[n] /\ m \in DOMAIN registered
    BY <1>0, <1>7, <2>1
  <2>3. DOMAIN addresses' = {registered'[m] : m \in DOMAIN registered'}
    <3>1. \A m \in DOMAIN registered' : registered'[m] \in DOMAIN addresses'
      BY <1>7, <1>8, <2>1, <2>2
    <3>2. ASSUME NEW id \in DOMAIN addresses' PROVE \E m \in DOMAIN registered' : id = registered'[m]
      <4>1. id \in DOMAIN addresses /\ id # registered[n]
        BY <1>8, <3>2
      <4>2. PICK m \in DOMAIN registered : id = registered[m]
        BY <2>1, <4>1
      <4> QED
        BY <1>7, <4>1, <4>2
    <3> QED
      BY <3>1, <3>2
  <2>4. \A m \in DOMAIN registered' : addresses'[registered'[m]] = m
    BY <1>7, <1>8, <2>1, <2>2
  <2> QED
    BY <1>3, <2>3, <2>4 DEF Ids
<1>10. PendingAlike'
  BY <1>3 DEF PendingAlike
<1>11. Counted'
  <2>1. numNodes' \in {None, Cardinality(Homes)}
    BY <1>0 DEF AllInv, GInv, Counted
  <2>2. ASSUME \A m \in DOMAIN registered' : Pending(m)'
        PROVE  /\ DOMAIN addresses' = 0 .. Cardinality(DOMAIN registered') - 1
               /\ numPeers' = Cardinality(PeersOf(DOMAIN registered'))
    <3>1. DOMAIN registered' = {}
      BY <1>6, <2>2
    <3>2. DOMAIN addresses' = {}
      BY <1>9, <3>1 DEF Ids
    <3>3. PeersOf(DOMAIN registered') = {}
      BY <3>1 DEF PeersOf
    <3>4. Cardinality(DOMAIN registered') = 0 /\ Cardinality(PeersOf(DOMAIN registered')) = 0
      BY <3>1, <3>3, FS_EmptySet
    <3>5. numPeers' = 0
      BY DEF FinishNode
    <3> QED
      BY <3>2, <3>4, <3>5
  <2>3. PeersOf(DOMAIN registered)' = PeersOf(DOMAIN registered')
    BY <1>0, SameProgram DEF PeersOf
  <2> QED
    BY <1>0, <2>1, <2>2, <2>3 DEF Counted
<1>12. InsideRegistered'
  <2>1. DOMAIN registered = {m \in Nodes : Inside(m)}
    BY DEF AllInv, GInv, InsideRegistered
  <2>2. ~Inside(n)' /\ \A m \in Nodes \ {n} : Inside(m)' <=> Inside(m)
    BY <1>0, <1>2, <1>4 DEF Inside, Told
  <2> QED
    BY <1>7, <2>1, <2>2 DEF InsideRegistered
<1>13. Awaited'
  <2>1. AwaitedAt(n)
    BY DEF AllInv, GInv, Awaited
  <2>2. \A p \in Members(n)' : ~Registered(p)'
    BY <1>0, <1>2, <2>1 DEF AwaitedAt, Registered, Kind
  <2>3. ~Replied(n)'
    BY <1>0, <1>2 DEF Replied
  <2>4. AwaitedAt(n)'
    BY <1>0, <1>2, <1>4, <1>5, <2>2, <2>3 DEF AwaitedAt
  <2> QED
    BY <1>0, <1>4, <1>6, <2>4, AwaitedStep
<1>14. \A m \in Nodes : (Replied(m)' <=> Replied(m)) /\ (Told(m)' <=> Told(m))
  BY <1>0, <1>2, <1>4 DEF Replied, Told
<1>15. FormedAlike'
  <2>1. AnswersTo({})
    BY <1>0, NobodyAnswered DEF AllInv, TInv
  <2>2. \A p \in Participants : NodeOf[p] \in Nodes
    BY HomesAre
  <2> QED
    BY <1>0, <1>14, <2>1, <2>2, FormedStep
<1>16. Topologies'
  <2>1. \A m \in Nodes : HasTopology(m)' => HasTopology(m) /\ TopologyOf(m)' = TopologyOf(m)
    BY <1>0, <1>2, <1>4, <1>14 DEF HasTopology, TopologyOf
  <2> QED
    BY <1>0, <2>1, TopologiesStep
<1> QED
  BY <1>1, <1>9, <1>10, <1>11, <1>12, <1>13, <1>15, <1>16 DEF GInv, Known

LEMMA NodeKeepsG == ASSUME AllInv, NEW n \in Nodes, NodeStep(n) PROVE GInv'
<1>1. ASSUME GlobalAllReduceMeets(n) PROVE GInv'
  <2>1. UNCHANGED <<clientVars, task, client, round, orchestratorVars>>
    BY <1>1 DEF GlobalAllReduceMeets, Global!Arrive, serverVars
  <2> QED
    BY <2>1, StillKeepsG
<1>2. ASSUME OrchestratorStep(n), UNCHANGED <<clientVars, serverVars, globalVars>> PROVE GInv'
  BY <1>2, NoneStrange, RegisterNodeKeepsG, FinishNodeKeepsG DEF OrchestratorStep
<1> QED
  BY <1>1, <1>2, ReturnKeepsG DEF NodeStep

LEMMA GlobalStep == ASSUME AllInv, [Next]_vars PROVE GInv'
<1>1. CASE UNCHANGED vars
  <2>1. UNCHANGED <<clientVars, task, client, round, orchestratorVars>>
    BY <1>1 DEF vars, serverVars, globalVars
  <2> QED
    BY <2>1, StillKeepsG
<1> QED
  BY <1>1, PeerKeepsG, NodeKeepsG DEF Next

LEMMA GlobalStart == ASSUME Init, Connected PROVE GInv
<1>0. TInv /\ LInv /\ Coherent
  BY TypesStart, LocalStart DEF Connected
<1>1. /\ \A p \in Participants : calls[p] = 0 /\ Done(p) = 0 /\ ~Active(p)
      /\ \A n \in Nodes : /\ task[n].kind = "idle" /\ client[n] = NoClient /\ round[n] = 0
                          /\ request[n] = NoRequest /\ reply[n] = NoReply
                          /\ ~Told(n) /\ ~Replied(n) /\ ~Inside(n)
      /\ DOMAIN round = Nodes
  BY ParticipantsAre DEF Init, InitOrchestrator, Global!InitBarrier, Idle, Done, Active, Told,
     Replied, Inside
<1>2. Rounds
  <2>1. ASSUME NEW p PROVE Reduced(p, 0) = 0
    <3>1. {k \in 1 .. 0 : Kind(p, k) = "all_reduce"} = {}
      OBVIOUS
    <3> QED
      BY <3>1, FS_EmptySet DEF Reduced
  <2> QED
    BY <1>1, <2>1, MemberIs DEF Rounds
<1>3. Across /\ ToldActive
  BY <1>1, MemberIs DEF Across, ToldActive
<1>4. Awaited
  BY <1>1 DEF Awaited, AwaitedAt
<1>5. FormedAlike
  <2>1. ASSUME NEW m \in Homes, NEW k \in Nat, k > 0 PROVE ~Formed(m, k)
    <3>1. m \in Nodes /\ ~Replied(m)
      BY <1>1, HomesAre
    <3>2. PICK p \in Members(m) : p \in Participants
      BY HomesAre, MemberIs
    <3> QED
      BY <1>1, <2>1, <3>1, <3>2 DEF Formed
  <2>2. ASSUME NEW p \in Participants, NEW k \in 1 .. Len(program[p]) PROVE k \in Nat /\ k > 0
    OBVIOUS
  <2> QED
    BY <2>1, <2>2 DEF FormedAlike
<1>6. /\ DOMAIN registered = {} /\ DOMAIN addresses = {} /\ requests = {} /\ numPeers = 0
      /\ numNodes = None
  BY DEF Init, InitOrchestrator
<1>7. InsideRegistered /\ Ids /\ PendingAlike
  BY <1>1, <1>6 DEF InsideRegistered, Ids, PendingAlike
<1>8. Counted
  <2>1. PeersOf(DOMAIN registered) = {}
    BY <1>6 DEF PeersOf
  <2>2. Cardinality(DOMAIN registered) = 0 /\ Cardinality(PeersOf(DOMAIN registered)) = 0
    BY <1>6, <2>1, FS_EmptySet
  <2> QED
    BY <1>6, <2>2 DEF Counted
<1>9. Topologies
  BY <1>1 DEF Topologies, HasTopology
<1> QED
  BY <1>2, <1>3, <1>4, <1>5, <1>7, <1>8, <1>9 DEF GInv

LEMMA GlobalInductive == Spec => [](TInv /\ (Coherent => LInv) /\ (Connected => GInv))
<1> DEFINE Inv == TInv /\ (Coherent => LInv) /\ (Connected => GInv)
<1>1. Init => Inv
  BY TypesStart, LocalStart, GlobalStart
<1>2. Inv /\ [Next]_vars => Inv'
  <2> SUFFICES ASSUME Inv, [Next]_vars PROVE Inv'
    OBVIOUS
  <2>1. (Coherent' <=> Coherent) /\ (Connected' <=> Connected)
    BY ProgramStep, SameProgram, SameHomes
  <2>2. TInv'
    BY TypesStay
  <2>3. (Coherent => LInv)'
    BY <2>1, LocalStep
  <2>4. (Connected => GInv)'
    BY <2>1, GlobalStep DEF AllInv, Connected
  <2> QED
    BY <2>2, <2>3, <2>4
<1> QED
  BY <1>1, <1>2, PTL DEF Spec

-----------------------------------------------------------------------------
(* Where the calls of a participant go together with those of others, and  *)
(* it has a global configuration, they all do.                             *)
LEMMA AllConnected ==
    ASSUME Coherent, NEW p \in Participants, Given(p).nodes > 0 PROVE Connected
  BY GivenAlike DEF Connected

LEMMA InLockstep ==
    ASSUME TInv, Coherent => LInv, Connected => GInv PROVE Lockstep
<1> SUFFICES ASSUME Coherent, NEW p \in Peers, NEW k \in DOMAIN results[p], Kind(p, k) # "finish",
                    NEW q \in Scope(p)
             PROVE  calls[q] >= k
  BY DEF Lockstep, Coherent, Kind
<1>1. k \in 1 .. Done(p) /\ Done(p) \in Nat /\ calls[p] > 0
  <2>1. PICK S : results[p] \in Seq(S)
    BY DEF TInv, IInv, ClientTypes, IsSequence
  <2>2. k \in 1 .. Done(p)
    BY <2>1 DEF Done
  <2> QED
    BY <2>2, Counts
<1>2. p \in Participants /\ q \in Participants /\ q \in Peers
  BY <1>1, Counts, ParticipantsAre DEF Scope
<1>3. calls[q] \in Nat /\ Done(q) \in Nat /\ Done(q) <= calls[q]
  BY <1>2, Counts
<1>4. CASE Given(p).nodes > 0
  <2>1. Across
    BY <1>2, <1>4, AllConnected DEF GInv
  <2>2. Done(p) <= calls[q] \/ (Done(p) <= calls[q] + 1 /\ k # Done(p))
    BY <1>2, <2>1 DEF Across
  <2> QED
    BY <1>1, <1>3, <2>2
<1>5. CASE NodeOf[q] = NodeOf[p]
  <2>1. Sync(p, q)
    BY <1>2, <1>5 DEF LInv, InSync
  <2>2. Done(p) <= Done(q) \/ (Done(p) <= Done(q) + 1 /\ k # Done(p))
    BY <2>1 DEF Sync
  <2> QED
    BY <1>1, <1>3, <2>2
<1> QED
  BY <1>4, <1>5 DEF Scope, Given

(* A call that is not Finish is a barrier, of the node or, with a global   *)
(* configuration, of all nodes: the server keeps the callbacks until as    *)
(* many peers have called as take part (to register: local/server.rs       *)
(* 257-320; an operation: 322-458), and a node comes back from the         *)
(* orchestrator or from a global all-reduce only with all others.          *)
THEOREM CallsInLockstep == Spec => []Lockstep
<1>1. TInv /\ (Coherent => LInv) /\ (Connected => GInv) => Lockstep
  BY InLockstep
<1> QED
  BY <1>1, GlobalInductive, PTL

LEMMA TopologyRight ==
    ASSUME TInv, Coherent => LInv, Connected => GInv PROVE TopologyAgrees
<1> SUFFICES ASSUME Coherent, NEW n \in Nodes, Told(n)
             PROVE  LET s == client[n].state IN
                    /\ s.id \in DOMAIN s.nodes /\ s.nodes[s.id] = n
                    /\ Range(s.nodes) = {NodeOf[p] : p \in Participants}
                    /\ Cardinality(DOMAIN s.nodes) = Cardinality(Range(s.nodes))
                    /\ DOMAIN s.nodes = 0 .. Cardinality(DOMAIN s.nodes) - 1
                    /\ s.devices = Cardinality(Participants)
                    /\ \A m \in Nodes : Told(m) => client[m].state.nodes = s.nodes
  BY DEF TopologyAgrees, Coherent, Told
<1> DEFINE s == client[n].state
<1>1. Connected
  <2>1. Members(n) # {} /\ \A p \in Members(n) : Given(p).nodes > 0
    BY DEF LInv, NodeInv, ClientGlobal, Told
  <2>2. PICK p \in Members(n) : p \in Participants /\ Given(p).nodes > 0
    BY <2>1, MemberIs
  <2> QED
    BY <2>2, AllConnected
<1>2. RightTopology(n, s) /\ \A m \in Nodes : Told(m) => client[m].state.nodes = s.nodes
  BY <1>1 DEF GInv, Topologies, HasTopology, TopologyOf
<1> HIDE DEF s
<1>3. /\ s.id \in DOMAIN s.nodes /\ s.nodes[s.id] = n
      /\ DOMAIN s.nodes = 0 .. Cardinality(Homes) - 1 /\ Range(s.nodes) = Homes
      /\ s.devices = Cardinality(Participants)
  BY <1>2 DEF RightTopology
<1>4. Cardinality(DOMAIN s.nodes) = Cardinality(Homes)
  <2>1. Cardinality(Homes) \in Nat
    BY HomesAre
  <2> DEFINE c == Cardinality(Homes)
  <2>2. c \in Nat
    BY <2>1
  <2> HIDE DEF c
  <2>3. Cardinality(0 .. c - 1) = c
    BY <2>2, FS_Interval
  <2> QED
    BY <1>3, <2>3 DEF c
<1> QED
  BY <1>2, <1>3, <1>4 DEF s, Homes

(* Of peers that register once, the nodes whose servers know a topology    *)
(* (NodeState, global/node/base.rs 26-31) know the same one, and it is     *)
(* that of all nodes that take part: each once, under the ids 0 to N-1,    *)
(* with the devices of all of them.  The orchestrator answers all that     *)
(* have registered at once, under the ids that it counted while they came  *)
(* (global/orchestrator/state.rs 167-218).  (A node that registers again   *)
(* may get an id that is in use: AllNodesTold.)                            *)
THEOREM NodesAgree == Spec => []TopologyAgrees
<1>1. TInv /\ (Coherent => LInv) /\ (Connected => GInv) => TopologyAgrees
  BY TopologyRight
<1> QED
  BY <1>1, GlobalInductive, PTL

-----------------------------------------------------------------------------
(* What the nodes give to the global all-reduces: the k-th calls of their  *)
(* peers, in the round that the k-th call belongs to.                      *)
Entered(n) == IF task[n].kind = "all_reduce" THEN round[n] + 1 ELSE round[n]
OfCall(n, k) == {<<q, k>> : q \in Members(n)}

InputsCounted ==
    /\ DOMAIN inputs = Nodes /\ round \in [Nodes -> Nat]
    /\ \A n \in Nodes : IsSequence(inputs[n]) /\ Len(inputs[n]) = Entered(n)

InputsGiven ==
    \A n \in Nodes : \A p \in Members(n) : \A k \in 1 .. Len(program[p]) :
        Kind(p, k) = "all_reduce" /\ Reduced(p, k) <= Entered(n) =>
            inputs[n][Reduced(p, k)] = Of(OfCall(n, k), program[p][k].size)

LEMMA SameInputs ==
    ASSUME InputsCounted, InputsGiven,
           UNCHANGED <<program, inputs>>, round' \in [Nodes -> Nat],
           \A n \in Nodes : Entered(n)' = Entered(n)
    PROVE  InputsCounted' /\ InputsGiven'
<1>1. InputsCounted'
  BY DEF InputsCounted
<1>2. \A n : Members(n)' = Members(n)
  BY SameProgram
<1>3. \A p, k : Kind(p, k)' = Kind(p, k) /\ Reduced(p, k)' = Reduced(p, k)
  BY DEF Kind, Reduced
<1>4. \A n, k : OfCall(n, k)' = OfCall(n, k)
  BY <1>2 DEF OfCall
<1>5. InputsGiven'
  BY <1>2, <1>3, <1>4 DEF InputsGiven
<1> QED
  BY <1>1, <1>5

(* The sum that a node gives. *)
LEMMA SumGiven ==
    ASSUME AllInv, OperationsAlike, ConfigsKnown, NEW p \in Peers, GlobalAllReduceStarts(p)
    PROVE  AllReduceSum(config[NodeOf[p]].strategy, Tensors(AllCallers(p)))[1]
             = Of(OfCall(NodeOf[p], calls[p] + 1), program[p][calls[p] + 1].size)
<1> DEFINE all == AllCallers(p)
           n == NodeOf[p]
<1>0. TInv /\ LInv /\ Coherent
  BY DEF AllInv, Connected
<1>1. Joins(p, {"all_reduce"}) /\ AllCalled(p) /\ ~RingPanics(p) /\ Handle(p, Kinds)
  BY DEF GlobalAllReduceStarts, Joins, Handle, Makes, Kinds
<1>2. /\ all \in Seq(Peers) /\ Len(all) > 0 /\ Range(all) = Members(n)
      /\ \A q \in Members(n) : calls'[q] = calls[p] + 1
  BY <1>0, <1>1, WholeCallers
<1>3. Inputs(all) = OfCall(n, calls[p] + 1)
  BY <1>2 DEF Inputs, OfCall
<1>4. 1 \in 1 .. Len(all)
  BY <1>2
<1>5. NextCall(p) = program[p][calls[p] + 1]
  BY DEF NextCall
<1> QED
  BY <1>0, <1>1, <1>3, <1>4, <1>5, SumsOfCallers

LEMMA InputsStart == ASSUME Init PROVE InputsCounted /\ (Connected => InputsGiven)
<1>1. /\ inputs = [n \in Nodes |-> <<>>] /\ round = [n \in Nodes |-> 0]
      /\ task = [n \in Nodes |-> Idle]
  BY DEF Init, Global!InitBarrier
<1>2. \A n \in Nodes : Entered(n) = 0
  BY <1>1 DEF Entered, Idle
<1>3. InputsCounted
  BY <1>1, <1>2 DEF InputsCounted, IsSequence
<1>4. ASSUME NEW p, NEW k \in Nat \ {0}, Kind(p, k) = "all_reduce" PROVE Reduced(p, k) > 0
  <2>1. k - 1 \in Nat /\ (k - 1) + 1 = k
    BY <1>4
  <2>2. Reduced(p, k) = Reduced(p, k - 1) + 1 /\ Reduced(p, k - 1) \in Nat
    BY <1>4, <2>1, ReducedIs
  <2> QED
    BY <2>2
<1>5. ASSUME Connected PROVE InputsGiven
  <2> SUFFICES ASSUME NEW n \in Nodes, NEW p \in Members(n), NEW k \in 1 .. Len(program[p]),
                      Kind(p, k) = "all_reduce", Reduced(p, k) <= 0
               PROVE  FALSE
    BY <1>2 DEF InputsGiven
  <2>1. Len(program[p]) \in Nat
    BY <1>5, MemberIs, ProgramOf DEF Connected
  <2>2. k \in Nat \ {0}
    BY <2>1
  <2>3. Reduced(p, k) \in Nat
    BY <2>2, ReducedIs
  <2> QED
    BY <1>4, <2>2, <2>3
<1> QED
  BY <1>3, <1>5

(* No other step than the start of an all-reduce enters one. *)
LEMMA NoneEnters ==
    ASSUME TInv, InputsCounted, [Next]_vars, \A p \in Peers : ~GlobalAllReduceStarts(p)
    PROVE  /\ UNCHANGED inputs /\ round' \in [Nodes -> Nat]
           /\ \A n \in Nodes : Entered(n)' = Entered(n)
<1>0. round \in [Nodes -> Nat] /\ \A n \in Nodes : task[n] \in [kind : TaskKinds, callers : SUBSET Peers]
  BY DEF InputsCounted, TInv, IInv, ServerTypes
<1>1. ASSUME UNCHANGED <<inputs, round>>, NEW n \in Nodes,
             task[n].kind # "all_reduce", UNCHANGED task \/ \E t : t.kind # "all_reduce" /\ task' = [task EXCEPT ![n] = t]
      PROVE  \A m \in Nodes : Entered(m)' = Entered(m)
  <2>1. ASSUME NEW t, t.kind # "all_reduce", task' = [task EXCEPT ![n] = t]
        PROVE  /\ \A m \in Nodes \ {n} : task'[m] = task[m]
               /\ task'[n] = t
    BY <2>1 DEF TInv, IInv, ServerTypes
  <2> QED
    BY <1>1, <2>1 DEF Entered
<1>2. ASSUME UNCHANGED <<inputs, round, task>>
      PROVE  \A m \in Nodes : Entered(m)' = Entered(m)
  BY <1>2 DEF Entered
<1>3. ASSUME NEW p \in Peers, PeerStep(p)
      PROVE  UNCHANGED <<inputs, round>> /\ \A m \in Nodes : Entered(m)' = Entered(m)
  <2> DEFINE n == NodeOf[p]
  <2>0. n \in Nodes
    BY PeersAssumption
  <2>1. CASE RegisterPeer(p)
    <3>1. task[n].kind # "all_reduce" /\ UNCHANGED <<inputs, round>>
      BY <2>1 DEF RegisterPeer, Handle, Idle, globalVars
    <3>2. \/ UNCHANGED task
          \/ \E t : t.kind # "all_reduce" /\ task' = [task EXCEPT ![n] = t]
      BY <2>1 DEF RegisterPeer
    <3> QED
      BY <1>1, <2>0, <3>1, <3>2
  <2>2. CASE FinishPeer(p)
    <3>1. task[n].kind # "all_reduce" /\ UNCHANGED <<inputs, round>>
      BY <2>2 DEF FinishPeer, Handle, Idle, globalVars
    <3>2. \/ UNCHANGED task
          \/ \E t : t.kind # "all_reduce" /\ task' = [task EXCEPT ![n] = t]
      BY <2>2 DEF FinishPeer
    <3> QED
      BY <1>1, <2>0, <3>1, <3>2
  <2>3. CASE UNCHANGED <<inputs, round, task>>
    BY <1>2, <2>3
  <2>4. RegisterPeer(p) \/ FinishPeer(p) \/ UNCHANGED <<inputs, round, task>>
    BY <1>3 DEF PeerStep, InvalidConfig, RegisterRefused, OpRefused, OpMismatch, OpWaits,
       LocalAllReduce, GlobalAllReduceFails, LocalReduceReturns, LocalBroadcastReturns,
       FinishRefused, ResetServer, Reply, Execute, serverVars, globalVars
  <2> QED
    BY <2>1, <2>2, <2>3, <2>4
<1>4. ASSUME NEW n \in Nodes, NodeStep(n)
      PROVE  /\ UNCHANGED inputs /\ round' \in [Nodes -> Nat]
             /\ \A m \in Nodes : Entered(m)' = Entered(m)
  <2>1. CASE GlobalRegisterReturns(n) \/ GlobalFinishReturns(n)
    <3>1. task[n].kind # "all_reduce" /\ UNCHANGED <<inputs, round>>
      BY <2>1 DEF GlobalRegisterReturns, GlobalFinishReturns, globalVars
    <3>2. task' = [task EXCEPT ![n] = Idle] /\ Idle.kind # "all_reduce"
      BY <2>1 DEF GlobalRegisterReturns, GlobalFinishReturns, Idle
    <3> QED
      BY <1>0, <1>1, <3>1, <3>2
  <2>2. CASE GlobalAllReduceReturns(n)
    <3>1. /\ task[n].kind = "all_reduce" /\ task' = [task EXCEPT ![n] = Idle]
          /\ round' = [round EXCEPT ![n] = @ + 1] /\ UNCHANGED inputs
      BY <2>2 DEF GlobalAllReduceReturns, Global!Leave
    <3>2. \A m \in Nodes \ {n} : task'[m] = task[m] /\ round'[m] = round[m]
      BY <1>0, <3>1 DEF TInv, IInv, ServerTypes
    <3>3. task'[n].kind = "idle" /\ round'[n] = round[n] + 1
      BY <1>0, <3>1 DEF TInv, IInv, ServerTypes, Idle
    <3>4. round' \in [Nodes -> Nat]
      BY <1>0, <3>1
    <3> QED
      BY <3>1, <3>2, <3>3, <3>4 DEF Entered
  <2>3. CASE GlobalAllReduceMeets(n) \/ UNCHANGED <<clientVars, serverVars, globalVars>>
    <3>1. UNCHANGED <<inputs, round, task>>
      BY <2>3 DEF GlobalAllReduceMeets, Global!Arrive, serverVars, globalVars
    <3> QED
      BY <1>0, <1>2, <3>1
  <2> QED
    BY <1>4, <2>1, <2>2, <2>3 DEF NodeStep
<1>5. CASE UNCHANGED vars
  <2>1. UNCHANGED <<inputs, round, task>>
    BY <1>5 DEF vars, serverVars, globalVars
  <2> QED
    BY <1>0, <1>2, <2>1
<1> QED
  BY <1>0, <1>3, <1>4, <1>5 DEF Next

LEMMA StartEnters ==
    ASSUME TInv, InputsCounted, NEW p \in Peers, GlobalAllReduceStarts(p)
    PROVE  LET n == NodeOf[p]
               v == AllReduceSum(config[n].strategy, Tensors(AllCallers(p)))[1]
           IN  /\ InputsCounted'
               /\ UNCHANGED <<program, round>>
               /\ Entered(n) = round[n] /\ Entered(n)' = round[n] + 1
               /\ inputs'[n][round[n] + 1] = v
               /\ \A i \in 1 .. round[n] : inputs'[n][i] = inputs[n][i]
               /\ \A m \in Nodes \ {n} : inputs'[m] = inputs[m] /\ Entered(m)' = Entered(m)
<1> DEFINE n == NodeOf[p]
           v == AllReduceSum(config[n].strategy, Tensors(AllCallers(p)))[1]
           t == [kind |-> "all_reduce", callers |-> Range(AllCallers(p))]
<1>0. n \in Nodes
  BY PeersAssumption
<1>1. /\ task[n] = Idle /\ inputs' = [inputs EXCEPT ![n] = Append(@, v)]
      /\ task' = [task EXCEPT ![n] = t] /\ UNCHANGED <<program, round>>
  BY DEF GlobalAllReduceStarts, Joins, Handle, Makes, Global!Enter
<1> HIDE DEF v
<1>2. t.kind = "all_reduce" /\ Idle.kind = "idle"
  BY DEF Idle
<1> HIDE DEF t
<1>3. /\ DOMAIN inputs = Nodes /\ DOMAIN task = Nodes /\ round \in [Nodes -> Nat]
      /\ \A m \in Nodes : IsSequence(inputs[m]) /\ Len(inputs[m]) = Entered(m)
  BY DEF InputsCounted, TInv, IInv, ServerTypes
<1> HIDE DEF n
<1>4. /\ inputs'[n] = Append(inputs[n], v) /\ task'[n] = t /\ DOMAIN inputs' = Nodes
      /\ \A m \in Nodes \ {n} : inputs'[m] = inputs[m] /\ task'[m] = task[m]
  BY <1>0, <1>1, <1>3
<1>5. /\ Entered(n) = round[n] /\ Entered(n)' = round[n] + 1
      /\ \A m \in Nodes \ {n} : Entered(m)' = Entered(m)
  BY <1>1, <1>2, <1>4 DEF Entered
<1>6. PICK S : inputs[n] \in Seq(S)
  BY <1>0, <1>3 DEF IsSequence
<1>7. inputs[n] \in Seq(S \cup {v}) /\ Len(inputs[n]) = round[n] /\ round[n] \in Nat
  BY <1>0, <1>3, <1>5, <1>6
<1>8. /\ inputs'[n] \in Seq(S \cup {v}) /\ Len(inputs'[n]) = round[n] + 1
      /\ inputs'[n][round[n] + 1] = v
      /\ \A i \in 1 .. round[n] : inputs'[n][i] = inputs[n][i]
  BY <1>4, <1>7
<1>9. InputsCounted'
  <2>1. \A m \in Nodes : IsSequence(inputs'[m]) /\ Len(inputs'[m]) = Entered(m)'
    BY <1>3, <1>4, <1>5, <1>8 DEF IsSequence
  <2> QED
    BY <1>1, <1>3, <1>4, <2>1 DEF InputsCounted, IsSequence
<1> QED
  BY <1>1, <1>4, <1>5, <1>8, <1>9 DEF n, v

(* A round is that of one call. *)
LEMMA RoundIsOfCall ==
    ASSUME NEW p, NEW d \in Nat, Kind(p, d + 1) = "all_reduce",
           NEW k \in Nat \ {0}, Kind(p, k) = "all_reduce"
    PROVE  /\ Reduced(p, k) \in Nat \ {0} /\ Reduced(p, d + 1) = Reduced(p, d) + 1
           /\ Reduced(p, k) = Reduced(p, d) + 1 => k = d + 1
<1>1. k - 1 \in Nat /\ (k - 1) + 1 = k /\ d + 1 \in Nat
  OBVIOUS
<1>2. /\ Reduced(p, k) = Reduced(p, k - 1) + 1 /\ Reduced(p, k - 1) \in Nat
      /\ Reduced(p, d + 1) = Reduced(p, d) + 1 /\ Reduced(p, d) \in Nat
  BY <1>1, ReducedIs
<1>3. ASSUME k <= d PROVE Reduced(p, k) <= Reduced(p, d)
  BY <1>3, ReducedMore
<1>4. ASSUME k > d + 1 PROVE Reduced(p, d + 1) <= Reduced(p, k - 1)
  <2>1. d + 1 <= k - 1
    BY <1>4
  <2> QED
    BY <1>1, <2>1, ReducedMore
<1> QED
  BY <1>2, <1>3, <1>4

LEMMA StartGives ==
    ASSUME AllInv, OperationsAlike, ConfigsKnown, InputsCounted, InputsGiven,
           NEW p \in Peers, GlobalAllReduceStarts(p)
    PROVE  InputsGiven'
<1> DEFINE n == NodeOf[p]
           d == calls[p]
           v == AllReduceSum(config[n].strategy, Tensors(AllCallers(p)))[1]
<1>0. TInv /\ LInv /\ Coherent /\ Rounds /\ round \in [Nodes -> Nat]
  BY DEF AllInv, Connected, GInv, InputsCounted
<1>1. /\ UNCHANGED <<program, round>>
      /\ Entered(n) = round[n] /\ Entered(n)' = round[n] + 1
      /\ inputs'[n][round[n] + 1] = v
      /\ \A i \in 1 .. round[n] : inputs'[n][i] = inputs[n][i]
      /\ \A m \in Nodes \ {n} : inputs'[m] = inputs[m] /\ Entered(m)' = Entered(m)
  BY <1>0, StartEnters
<1>2. v = Of(OfCall(n, d + 1), program[p][d + 1].size)
  BY SumGiven
<1> HIDE DEF v
<1>3. Handle(p, Kinds) /\ Makes(p, {"all_reduce"})
  BY DEF GlobalAllReduceStarts, Joins, Handle, Makes, Kinds
<1>4. /\ n \in Nodes /\ p \in Participants /\ d \in Nat /\ d + 1 \in 1 .. Len(program[p])
      /\ Kind(p, d + 1) = "all_reduce" /\ \A q \in Members(n) : Done(q) = d
  BY <1>0, <1>3, NextIs, AllRegistered
<1> HIDE DEF d
<1>5. ASSUME NEW m \in Nodes, NEW q \in Members(m), NEW k \in 1 .. Len(program[q]),
             Kind(q, k) = "all_reduce", Reduced(q, k) <= Entered(m)'
      PROVE  inputs'[m][Reduced(q, k)] = Of(OfCall(m, k), program[q][k].size)
  <2>0. k \in Nat \ {0} /\ q \in Participants /\ NodeOf[q] = m
    <3>1. q \in Participants /\ q \in Peers /\ NodeOf[q] = m
      BY MemberIs
    <3>2. Len(program[q]) \in Nat
      BY <1>0, <3>1, ProgramOf
    <3> QED
      BY <3>1, <3>2
  <2>1. CASE m # n
    BY <1>1, <1>5, <2>1 DEF InputsGiven
  <2>2. CASE m = n
    <3>1. round[n] = Reduced(q, d) /\ round[n] \in Nat
      BY <1>0, <1>4, <2>2 DEF Rounds
    <3>2. Kind(q, d + 1) = "all_reduce" /\ program[q][d + 1] = program[p][d + 1]
      <4>1. Grouped(p, q)
        BY <2>0, <2>2 DEF Grouped
      <4> QED
        BY <1>0, <1>4, <2>0, <4>1, CallsAre
    <3>3. /\ Reduced(q, k) \in Nat \ {0}
          /\ Reduced(q, k) = Reduced(q, d) + 1 => k = d + 1
      BY <1>4, <1>5, <2>0, <3>2, RoundIsOfCall
    <3>4. CASE Reduced(q, k) <= round[n]
      <4>1. inputs'[n][Reduced(q, k)] = inputs[n][Reduced(q, k)]
        BY <1>1, <3>1, <3>3, <3>4
      <4>2. inputs[n][Reduced(q, k)] = Of(OfCall(n, k), program[q][k].size)
        BY <1>1, <1>4, <1>5, <2>2, <3>4 DEF InputsGiven
      <4> QED
        BY <2>2, <4>1, <4>2
    <3>5. CASE ~(Reduced(q, k) <= round[n])
      <4>1. Reduced(q, k) = round[n] + 1
        BY <1>1, <1>5, <2>2, <3>1, <3>3, <3>5
      <4>2. k = d + 1
        BY <3>1, <3>3, <4>1
      <4> QED
        BY <1>1, <1>2, <2>2, <3>2, <4>1, <4>2
    <3> QED
      BY <3>4, <3>5
  <2> QED
    BY <2>1, <2>2
<1>6. \A m : Members(m)' = Members(m)
  BY <1>1, SameProgram
<1>7. \A q, k : Kind(q, k)' = Kind(q, k) /\ Reduced(q, k)' = Reduced(q, k)
  BY <1>1 DEF Kind, Reduced
<1>8. \A m, k : OfCall(m, k)' = OfCall(m, k)
  BY <1>6 DEF OfCall
<1> QED
  BY <1>1, <1>5, <1>6, <1>7, <1>8 DEF InputsGiven

LEMMA InputsStep ==
    ASSUME TInv, OperationsAlike, ConfigsKnown, Coherent => LInv, Connected => GInv,
           InputsCounted, Connected => InputsGiven, [Next]_vars
    PROVE  InputsCounted' /\ (Connected' => InputsGiven')
<1>0. UNCHANGED program /\ (Connected' <=> Connected)
  BY ProgramStep, SameHomes
<1>1. CASE \E p \in Peers : GlobalAllReduceStarts(p)
  <2>1. PICK p \in Peers : GlobalAllReduceStarts(p)
    BY <1>1
  <2>2. InputsCounted'
    BY <2>1, StartEnters
  <2>3. Connected => InputsGiven'
    BY <2>1, StartGives DEF AllInv, Connected
  <2> QED
    BY <1>0, <2>2, <2>3
<1>2. CASE \A p \in Peers : ~GlobalAllReduceStarts(p)
  <2>1. /\ UNCHANGED inputs /\ round' \in [Nodes -> Nat]
        /\ \A n \in Nodes : Entered(n)' = Entered(n)
    BY <1>2, NoneEnters
  <2>2. InputsCounted'
    BY <2>1 DEF InputsCounted
  <2>3. Connected => InputsGiven'
    BY <1>0, <2>1, SameInputs
  <2> QED
    BY <1>0, <2>2, <2>3
<1> QED
  BY <1>1, <1>2

-----------------------------------------------------------------------------
(* The sum that all nodes come back with.                                  *)
LEMMA SequenceOfSet ==
    ASSUME NEW S, IsFiniteSet(S)
    PROVE  LET s == SetToSeq(S)
           IN  /\ s \in Seq(S) /\ IsInjective(s) /\ Range(s) = S
               /\ Len(s) = Cardinality(S) /\ Len(s) \in Nat /\ DOMAIN s = 1 .. Len(s)
<1> DEFINE n == Cardinality(S)
           s == SetToSeq(S)
<1>1. n \in Nat
  BY FS_CardinalityType
<1>2. \E f : f \in [1 .. n -> S] /\ IsInjective(f)
  <2>1. PICK f \in Bijection(1 .. n, S) : TRUE
    BY FS_CardinalityType DEF ExistsBijection
  <2>2. f \in [1 .. n -> S] /\ \A a, b \in 1 .. n : f[a] = f[b] => a = b
    BY <2>1 DEF Bijection, Injection, IsInjective
  <2> QED
    BY <2>2 DEF IsInjective
<1>3. s \in [1 .. n -> S] /\ IsInjective(s)
  BY <1>2 DEF SetToSeq
<1> HIDE DEF s, n
<1>4. s \in Seq(S) /\ Len(s) = n /\ DOMAIN s = 1 .. n
  BY <1>1, <1>3
<1>5. IsFiniteSet(Range(s)) /\ Cardinality(Range(s)) = n
  BY <1>3, <1>4, SizeOfRange
<1>6. Range(s) \in SUBSET S
  BY <1>4, RangeOfSequence
<1>7. Range(s) = S
  BY <1>5, <1>6, FS_Subset DEF n
<1> QED
  BY <1>1, <1>3, <1>4, <1>7 DEF s, n

AllOfCall(k) == {<<q, k>> : q \in Participants}

LEMMA GlobalSum ==
    ASSUME AllInv, InputsCounted, InputsGiven, NEW n \in Nodes, GlobalAllReduceReturns(n),
           NEW p \in Members(n)
    PROVE  LET nodes == SetToSeq(Range(client[n].state.nodes))
               k == calls[p]
           IN  /\ Sum([i \in DOMAIN nodes |-> inputs[nodes[i]][round[n] + 1]])
                    = Of(AllOfCall(k), program[p][k].size)
               /\ client[n].state.devices = Cardinality(Participants)
<1> DEFINE nodes == SetToSeq(Range(client[n].state.nodes))
           k == calls[p]
           size == program[p][k].size
           S == [i \in DOMAIN nodes |-> OfCall(nodes[i], k)]
           t == [i \in DOMAIN nodes |-> inputs[nodes[i]][round[n] + 1]]
<1>0. /\ TInv /\ LInv /\ Coherent /\ Connected /\ Rounds /\ ToldActive /\ Topologies /\ Phases
      /\ round \in [Nodes -> Nat]
  BY DEF AllInv, Connected, GInv, InputsCounted, TInv
<1>1. ReduceReturns(n) /\ task[n].kind = "all_reduce"
  BY ReturnEffect DEF GlobalAllReduceReturns, ReduceReturns, RegisterReturns, FinishReturns, Replied
<1>2. /\ p \in Participants /\ p \in Peers /\ Active(p)
      /\ k = Done(p) + 1 /\ Done(p) \in Nat /\ k \in 1 .. Len(program[p])
      /\ Kind(p, k) = "all_reduce"
  BY <1>1, Reducing
<1>3. Told(n)
  BY <1>0, <1>2 DEF ToldActive
<1>4. Range(client[n].state.nodes) = Homes /\ client[n].state.devices = Cardinality(Participants)
  BY <1>0, <1>3 DEF Topologies, HasTopology, TopologyOf, RightTopology
<1>5. /\ nodes \in Seq(Homes) /\ IsInjective(nodes) /\ Range(nodes) = Homes
      /\ Len(nodes) \in Nat /\ DOMAIN nodes = 1 .. Len(nodes)
  BY <1>4, HomesAre, SequenceOfSet
<1> HIDE DEF nodes
<1>6. Len(nodes) > 0
  <2>1. n \in Homes
    BY HomesAre
  <2> QED
    BY <1>5, <2>1 DEF Range
<1>7. size \in Nat
  <2> HIDE DEF k
  <2> QED
    BY <1>0, <1>2, CallKinds DEF Kinds
<1> HIDE DEF k, size
<1>8. round[n] + 1 = Reduced(p, k) /\ round[n] \in Nat
  <2>1. round[n] = Reduced(p, Done(p))
    BY <1>0 DEF Rounds
  <2>2. Reduced(p, Done(p) + 1) = Reduced(p, Done(p)) + 1
    BY <1>2, ReducedIs
  <2> QED
    BY <1>0, <1>2, <2>1, <2>2
<1>9. ASSUME NEW m \in Homes
      PROVE  inputs[m][round[n] + 1] = Of(OfCall(m, k), size)
  <2>1. m \in Nodes
    BY HomesAre
  <2>2. PICK q \in Members(m) : q \in Participants
    BY HomesAre, MemberIs
  <2>3. /\ Len(program[p]) = Len(program[q]) /\ Len(program[p]) \in Nat
        /\ Kind(q, k) = "all_reduce" /\ program[q][k] = program[p][k]
    <3>1. Grouped(p, q) /\ Len(program[p]) \in Nat
      BY <1>0, <1>2, <2>2, AllGrouped, Counted1
    <3> QED
      BY <1>0, <1>2, <2>2, <3>1, CallsAre
  <2>4. Reduced(q, k) = Reduced(p, k)
    BY <1>0, <1>2, <2>2, <2>3, ReducedAlike
  <2>5. round[n] + 1 <= Entered(m)
    <3>1. \/ phase[m] = "barrier" /\ round[m] = round[n]
          \/ round[m] = round[n] + 1
      BY <1>1, <2>1 DEF ReduceReturns
    <3>2. phase[m] = "barrier" => task[m].kind = "all_reduce"
      BY <1>0, <2>1 DEF Phases
    <3> QED
      BY <1>8, <3>1, <3>2 DEF Entered
  <2>6. inputs[m][Reduced(q, k)] = Of(OfCall(m, k), program[q][k].size)
    BY <1>2, <1>8, <2>1, <2>2, <2>3, <2>4, <2>5 DEF InputsGiven
  <2> QED
    BY <1>8, <2>3, <2>4, <2>6 DEF size
<1>10. Len(t) = Len(nodes)
  BY <1>5
<1>11. ASSUME NEW i \in 1 .. Len(nodes) PROVE nodes[i] \in Homes /\ t[i] = Of(S[i], size)
  BY <1>5, <1>9, <1>11
<1>12. ASSUME NEW i \in 1 .. Len(nodes), NEW j \in 1 .. Len(nodes), i # j
       PROVE  S[i] \cap S[j] = {}
  <2>1. nodes[i] # nodes[j]
    BY <1>5, <1>12 DEF IsInjective
  <2>2. S[i] = OfCall(nodes[i], k) /\ S[j] = OfCall(nodes[j], k)
    BY <1>5
  <2> QED
    BY <2>1, <2>2 DEF OfCall, Members
<1>13. FirstSets(S, Len(nodes)) = AllOfCall(k)
  <2>1. ASSUME NEW x
        PROVE  x \in FirstSets(S, Len(nodes)) <=> \E i \in 1 .. Len(nodes) : x \in OfCall(nodes[i], k)
    BY <1>5 DEF FirstSets
  <2>2. ASSUME NEW x
        PROVE  (\E i \in 1 .. Len(nodes) : x \in OfCall(nodes[i], k)) <=> \E m \in Homes : x \in OfCall(m, k)
    BY <1>5 DEF Range
  <2>3. ASSUME NEW x
        PROVE  (\E m \in Homes : x \in OfCall(m, k)) <=> x \in AllOfCall(k)
    BY HomesAre DEF OfCall, AllOfCall, Members
  <2> QED
    BY <2>1, <2>2, <2>3
<1> HIDE DEF S, t
<1>14. Parts(t, S, size)
  BY <1>5, <1>6, <1>10, <1>11, <1>12 DEF Parts
<1>15. Sum(t) = Of(AllOfCall(k), size)
  BY <1>7, <1>10, <1>13, <1>14, SumOf
<1> QED
  BY <1>4, <1>15 DEF t, nodes, k, size

-----------------------------------------------------------------------------
(* What is expected of a call.                                             *)
ScopeOfCall(p, k) == {<<q, k>> : q \in Scope(p)}
Senders(p, k) == {q \in Scope(p) : program[q][k].tensor}
Sender(p, k) == CHOOSE s \in Senders(p, k) : TRUE

LEMMA ScopeIs ==
    ASSUME NEW p \in Participants
    PROVE  Scope(p) = IF Given(p).nodes > 0 THEN Participants ELSE Members(NodeOf[p])
  BY DEF Scope, Given, Members

LEMMA ExpectedIs ==
    ASSUME NEW p, NEW k
    PROVE  LET call == program[p][k]
               reduced == Returned(Of(ScopeOfCall(p, k), call.size),
                                   IF call.op = "mean" THEN Cardinality(Scope(p)) ELSE 1)
               sender == Sender(p, k)
           IN  /\ call.kind = "all_reduce" => Expected(p, k) = reduced
               /\ call.kind = "reduce" => Expected(p, k) = IF p = call.root THEN reduced ELSE Ok
               /\ call.kind = "broadcast" =>
                     Expected(p, k) = Returned(Of({<<sender, k>>}, program[sender][k].size), 1)
               /\ call.kind \in {"register", "finish"} => Expected(p, k) = Ok
<1> DEFINE call == program[p][k]
           sum(qs, size) == [i \in 1 .. size |-> SetToBag(qs \X {k})]
           reduced == Returned(sum(Scope(p), call.size),
                               IF call.op = "mean" THEN Cardinality(Scope(p)) ELSE 1)
           sender == Sender(p, k)
           sent == Returned(sum({sender}, program[sender][k].size), 1)
<1>1. Expected(p, k) = CASE call.kind = "all_reduce" -> reduced
                         [] call.kind = "reduce" -> IF p = call.root THEN reduced ELSE Ok
                         [] call.kind = "broadcast" -> sent
                         [] OTHER -> Ok
  BY DEF Expected, Sender, Senders
<1>2. Scope(p) \X {k} = ScopeOfCall(p, k)
  BY DEF ScopeOfCall
<1>3. {sender} \X {k} = {<<sender, k>>}
  OBVIOUS
<1>4. reduced = Returned(Of(ScopeOfCall(p, k), call.size),
                         IF call.op = "mean" THEN Cardinality(Scope(p)) ELSE 1)
  BY <1>2 DEF Of
<1>5. sent = Returned(Of({<<sender, k>>}, program[sender][k].size), 1)
  BY <1>3 DEF Of
<1> HIDE DEF reduced, sent, sender, call
<1>6. /\ call.kind = "all_reduce" => Expected(p, k) = reduced
      /\ call.kind = "reduce" => Expected(p, k) = IF p = call.root THEN reduced ELSE Ok
      /\ call.kind = "broadcast" => Expected(p, k) = sent
      /\ call.kind \in {"register", "finish"} => Expected(p, k) = Ok
  BY <1>1
<1> QED
  BY <1>4, <1>5, <1>6 DEF sender, call

ResultsAre == \A p \in Peers : \A k \in DOMAIN results[p] : results[p][k] = Expected(p, k)

LEMMA ExpectedSame ==
    ASSUME UNCHANGED program PROVE \A p, k : Expected(p, k)' = Expected(p, k)
<1>1. \A p : Scope(p)' = Scope(p)
  BY DEF Scope, Participants, Calling
<1>2. \A p, k : Senders(p, k)' = Senders(p, k)
  BY <1>1 DEF Senders
<1>3. \A p, k : Sender(p, k)' = Sender(p, k)
  BY <1>2 DEF Sender
<1>4. ASSUME NEW p, NEW k PROVE Expected(p, k)' = Expected(p, k)
  <2> DEFINE Sums(qs, size) == [i \in 1 .. size |-> SetToBag(qs \X {k})]
             Reduced1(call, scope) ==
                 Returned(Sums(scope, call.size),
                          IF call.op = "mean" THEN Cardinality(scope) ELSE 1)
             Result(call, scope, sender, size) ==
                 CASE call.kind = "all_reduce" -> Reduced1(call, scope)
                   [] call.kind = "reduce" -> IF p = call.root THEN Reduced1(call, scope) ELSE Ok
                   [] call.kind = "broadcast" -> Returned(Sums({sender}, size), 1)
                   [] OTHER -> Ok
  <2>1. Expected(p, k)
          = Result(program[p][k], Scope(p), Sender(p, k), program[Sender(p, k)][k].size)
    BY Zenon DEF Expected, Sender, Senders
  <2>2. Expected(p, k)'
          = Result(program'[p][k], Scope(p)', Sender(p, k)', program'[Sender(p, k)'][k].size)
    BY Zenon DEF Expected, Sender, Senders
  <2> HIDE DEF Result
  <2> QED
    BY <1>1, <1>3, <2>1, <2>2
<1> QED
  BY <1>4

LEMMA ExpectedAnswers ==
    ASSUME TInv, ResultsAre, UNCHANGED program, NEW to, NEW r,
           results' = [q \in Peers |-> IF q \in to THEN Append(results[q], r[q]) ELSE results[q]],
           \A q \in to \cap Peers : r[q] = Expected(q, Done(q) + 1)
    PROVE  ResultsAre'
<1>0. \A p, k : Expected(p, k)' = Expected(p, k)
  BY ExpectedSame
<1>1. ASSUME NEW q \in Peers, NEW k \in DOMAIN results'[q]
      PROVE  results'[q][k] = Expected(q, k)
  <2>1. PICK S : results[q] \in Seq(S)
    BY DEF TInv, IInv, ClientTypes, IsSequence
  <2>2. \A j \in DOMAIN results[q] : results[q][j] = Expected(q, j)
    BY DEF ResultsAre
  <2>3. CASE q \in to
    <3> DEFINE n == Len(results[q])
    <3>1. n \in Nat /\ DOMAIN results[q] = 1 .. n /\ n = Done(q)
      BY <2>1 DEF Done
    <3>2. results'[q] = Append(results[q], r[q])
      BY <2>3
    <3>3. results[q] \in Seq(S \cup {r[q]})
      BY <2>1
    <3>4. /\ DOMAIN results'[q] = 1 .. n + 1 /\ results'[q][n + 1] = r[q]
          /\ \A j \in 1 .. n : results'[q][j] = results[q][j]
      BY <3>1, <3>2, <3>3
    <3>5. k \in 1 .. n \/ k = n + 1
      BY <1>1, <3>1, <3>4
    <3>6. r[q] = Expected(q, n + 1)
      BY <2>3, <3>1
    <3> QED
      BY <2>2, <3>1, <3>4, <3>5, <3>6
  <2>4. CASE q \notin to
    BY <1>1, <2>2, <2>4
  <2> QED
    BY <2>3, <2>4
<1> QED
  BY <1>0, <1>1 DEF ResultsAre

LEMMA SameResults ==
    ASSUME ResultsAre, UNCHANGED <<program, results>> PROVE ResultsAre'
  BY ExpectedSame DEF ResultsAre

(* To register and to finish succeed. *)
LEMMA OkAnswers ==
    ASSUME TInv, ResultsAre, UNCHANGED program, NEW to,
           results' = [q \in Peers |-> IF q \in to THEN Append(results[q], Ok) ELSE results[q]],
           \A q \in to \cap Peers : Kind(q, Done(q) + 1) \in {"register", "finish"}
    PROVE  ResultsAre'
<1> DEFINE r == [q \in Peers |-> Ok]
<1>1. results' = [q \in Peers |-> IF q \in to THEN Append(results[q], r[q]) ELSE results[q]]
  OBVIOUS
<1>2. \A q \in to \cap Peers : r[q] = Expected(q, Done(q) + 1)
  BY ExpectedIs DEF Kind
<1> HIDE DEF r
<1> QED
  BY <1>1, <1>2, ExpectedAnswers

-----------------------------------------------------------------------------
(* Without a global configuration, the operations are those of the node.   *)
LEMMA LocalOperation ==
    ASSUME TInv, Coherent, LInv, Connected => GInv, NEW p \in Peers, Handle(p, Kinds),
           ~Told(NodeOf[p])
    PROVE  Given(p).nodes = 0
<1>1. p \in Participants
  BY NextIs DEF Handle
<1>2. Given(p).nodes \in Nat
  BY <1>1, GivenAlike DEF Configs
<1>3. ASSUME Given(p).nodes > 0 PROVE FALSE
  <2>1. Connected
    BY <1>1, <1>3, AllConnected
  <2>2. AllInv
    BY <2>1 DEF AllInv
  <2> QED
    BY <2>2, OpTold
<1> QED
  BY <1>2, <1>3

LEMMA WholeOperation ==
    ASSUME TInv, Coherent, LInv, NEW p \in Peers, Handle(p, Kinds), AllCalled(p),
           Given(p).nodes = 0, NEW q \in Range(AllCallers(p))
    PROVE  LET k == calls[p] + 1
               all == AllCallers(p)
           IN  /\ q \in Participants /\ q \in Peers /\ k = Done(q) + 1 /\ k \in 1 .. Len(program[p])
               /\ Scope(q) = Range(all) /\ Cardinality(Scope(q)) = Len(all)
               /\ ScopeOfCall(q, k) = Inputs(all)
               /\ \A x \in Range(all) : calls'[x] = k
               /\ NextCall(p) = program[p][k] /\ Kind(q, k) = NextCall(p).kind
               /\ Kind(q, k) # "broadcast" => program[q][k] = program[p][k]
<1> DEFINE k == calls[p] + 1
           all == AllCallers(p)
           n == NodeOf[p]
<1>1. /\ Range(all) = Members(n) /\ Len(all) = Cardinality(Members(n))
      /\ \A x \in Members(n) : calls'[x] = k /\ Done(x) = calls[p]
  BY WholeCallers
<1>2. /\ p \in Participants /\ NextCall(p) = program[p][k] /\ k \in 1 .. Len(program[p])
      /\ NextCall(p).kind = Kind(p, k)
  BY NextIs DEF Handle
<1>3. q \in Participants /\ q \in Peers /\ NodeOf[q] = n
  BY <1>1, MemberIs
<1>4. Given(q).nodes = 0
  BY <1>2, <1>3, GivenAlike
<1>5. Scope(q) = Members(n)
  BY <1>3, <1>4, ScopeIs
<1>6. ScopeOfCall(q, k) = Inputs(all)
  BY <1>1, <1>5 DEF ScopeOfCall, Inputs
<1>7. k = Done(q) + 1
  BY <1>1
<1> HIDE DEF k
<1>8. /\ Kind(q, k) = Kind(p, k)
      /\ Kind(q, k) # "broadcast" => program[q][k] = program[p][k]
  <2>1. Grouped(p, q)
    BY <1>3 DEF Grouped
  <2> QED
    BY <1>2, <1>3, <2>1, CallsAre
<1> QED
  BY <1>1, <1>2, <1>3, <1>5, <1>6, <1>7, <1>8 DEF k

LEMMA LocalAllReduceExpected ==
    ASSUME TInv, Coherent, LInv, Connected => GInv, OperationsAlike, ConfigsKnown, ResultsAre,
           NEW p \in Peers, LocalAllReduce(p)
    PROVE  ResultsAre'
<1> DEFINE n == NodeOf[p]
           k == calls[p] + 1
           all == AllCallers(p)
           call == NextCall(p)
           sums == AllReduceSum(config[n].strategy, Tensors(all))
           at(q) == SelectInSeq(all, LAMBDA c : c = q)
           r == [q \in Peers |-> Returned(sums[at(q)], Divisor(call.op, Len(all)))]
<1>1. /\ Joins(p, {"all_reduce"}) /\ AllCalled(p) /\ Handle(p, Kinds) /\ UNCHANGED program
      /\ call.kind = "all_reduce"
  BY DEF LocalAllReduce, Joins, Handle, Makes, Kinds
<1>2. ~RingPanics(p)
  BY <1>1, RingCuts
<1>3. client[n] = NoClient
  BY <1>2 DEF LocalAllReduce
<1>4. Given(p).nodes = 0
  BY <1>1, <1>3, LocalOperation DEF Told
<1>5. results' = [q \in Peers |-> IF q \in Range(all) THEN Append(results[q], r[q])
                                  ELSE results[q]]
  BY <1>2 DEF LocalAllReduce, Execute, Answer
<1>6. ASSUME NEW q \in Range(all) \cap Peers PROVE r[q] = Expected(q, Done(q) + 1)
  <2>1. /\ k = Done(q) + 1
        /\ Cardinality(Scope(q)) = Len(all) /\ ScopeOfCall(q, k) = Inputs(all)
        /\ call = program[p][k] /\ Kind(q, k) = call.kind
        /\ Kind(q, k) # "broadcast" => program[q][k] = program[p][k]
    BY <1>1, <1>4, <1>6, WholeOperation
  <2>2. all \in Seq(Peers)
    BY <1>1, CallersAsked DEF Kinds
  <2>3. at(q) \in 1 .. Len(all)
    BY <1>6, <2>2, IndexOf
  <2>4. sums[at(q)] = Of(Inputs(all), call.size)
    BY <1>1, <1>2, <2>3, SumsOfCallers
  <2>5. r[q] = Returned(sums[at(q)], Divisor(call.op, Len(all)))
    BY <1>6
  <2> HIDE DEF r, sums, at, all, call, k
  <2>6. program[q][k] = call
    BY <1>1, <2>1
  <2>7. Expected(q, k) = Returned(Of(ScopeOfCall(q, k), call.size),
                                  IF call.op = "mean" THEN Cardinality(Scope(q)) ELSE 1)
    BY <1>1, <2>6, ExpectedIs
  <2> QED
    BY <2>1, <2>4, <2>5, <2>7 DEF Divisor
<1> HIDE DEF r, all
<1> QED
  BY <1>1, <1>5, <1>6, ExpectedAnswers

LEMMA LocalReduceExpected ==
    ASSUME TInv, Coherent, LInv, Connected => GInv, OperationsAlike, ResultsAre,
           NEW p \in Peers, LocalReduceReturns(p)
    PROVE  ResultsAre'
<1> DEFINE n == NodeOf[p]
           k == calls[p] + 1
           all == AllCallers(p)
           call == NextCall(p)
           sum == TreeSum(Tensors(all), 2)
           r == [q \in Peers |-> IF q = call.root THEN Returned(sum, Divisor(call.op, Len(all)))
                                 ELSE Ok]
<1>1. /\ Joins(p, {"reduce"}) /\ AllCalled(p) /\ Handle(p, Kinds) /\ UNCHANGED program
      /\ call.kind = "reduce"
  BY DEF LocalReduceReturns, Joins, Handle, Makes, Kinds
<1>2. /\ p \in Participants /\ n \in Nodes /\ call = program[p][k] /\ k \in 1 .. Len(program[p])
      /\ Kind(p, k) = "reduce" /\ p \in Members(n) /\ Range(all) = Members(n)
  BY <1>1, NextIs, WholeCallers DEF Handle
<1>3. Given(p).nodes = 0 /\ call.root \in Members(n)
  <2> HIDE DEF k, call
  <2> QED
    BY <1>2, CallIs
<1>4. client[n] = NoClient
  BY <1>2, <1>3 DEF LInv, NodeInv, ClientGlobal
<1>5. results' = [q \in Peers |-> IF q \in Range(all) THEN Append(results[q], r[q])
                                  ELSE results[q]]
  BY <1>2, <1>3, <1>4 DEF LocalReduceReturns, Execute, Answer
<1>6. ASSUME NEW q \in Range(all) \cap Peers PROVE r[q] = Expected(q, Done(q) + 1)
  <2>1. /\ k = Done(q) + 1
        /\ Cardinality(Scope(q)) = Len(all) /\ ScopeOfCall(q, k) = Inputs(all)
        /\ Kind(q, k) = call.kind
        /\ Kind(q, k) # "broadcast" => program[q][k] = program[p][k]
    BY <1>1, <1>3, <1>6, WholeOperation
  <2>2. sum = Of(Inputs(all), call.size)
    <3>1. /\ all \in Seq(Peers) /\ IsInjective(all) /\ Len(all) > 0
          /\ call \in Calls /\ call.kind \in {"reduce"}
          /\ \A x \in Range(all) : AskedAlike(program[x][calls'[x]], call)
      BY <1>1, CallersAsked DEF Kinds
    <3>2. call.size \in Nat
      BY <3>1 DEF Calls, Kinds
    <3>3. \A x \in Range(all) : program[x][calls'[x]].size = call.size
      BY <3>1 DEF AskedAlike
    <3> HIDE DEF all, call
    <3>4. /\ Parts(Tensors(all), InputSets(all), call.size)
          /\ Len(Tensors(all)) = Len(all)
          /\ FirstSets(InputSets(all), Len(all)) = Inputs(all)
      BY <3>1, <3>2, <3>3, InputsAre
    <3> QED
      BY <3>2, <3>4, TreeSumOf
  <2>3. r[q] = IF q = call.root THEN Returned(sum, Divisor(call.op, Len(all))) ELSE Ok
    BY <1>6
  <2> HIDE DEF r, sum, all, call, k
  <2>4. program[q][k] = call
    BY <1>1, <1>2, <2>1
  <2>5. Expected(q, k) = IF q = call.root
                         THEN Returned(Of(ScopeOfCall(q, k), call.size),
                                       IF call.op = "mean" THEN Cardinality(Scope(q)) ELSE 1)
                         ELSE Ok
    BY <1>1, <2>4, ExpectedIs
  <2> QED
    BY <2>1, <2>2, <2>3, <2>5 DEF Divisor
<1> HIDE DEF r, all
<1> QED
  BY <1>1, <1>5, <1>6, ExpectedAnswers

LEMMA LocalBroadcastExpected ==
    ASSUME TInv, Coherent, LInv, Connected => GInv, ResultsAre,
           NEW p \in Peers, LocalBroadcastReturns(p)
    PROVE  ResultsAre'
<1> DEFINE n == NodeOf[p]
           k == calls[p] + 1
           all == AllCallers(p)
           call == NextCall(p)
           senders == {q \in Range(all) : program[q][calls'[q]].tensor}
           s == CHOOSE x \in senders : TRUE
           sent == IF senders = {} THEN Failed("BroadcastNoTensor")
                   ELSE Returned(TensorOf(s), 1)
           r == [q \in Peers |-> sent]
<1>1. /\ Joins(p, {"broadcast"}) /\ AllCalled(p) /\ Handle(p, Kinds) /\ UNCHANGED program
      /\ call.kind = "broadcast"
  BY DEF LocalBroadcastReturns, Joins, Handle, Makes, Kinds
<1>2. /\ p \in Participants /\ n \in Nodes /\ call = program[p][k] /\ k \in 1 .. Len(program[p])
      /\ Kind(p, k) = "broadcast" /\ p \in Members(n) /\ Range(all) = Members(n)
      /\ \A q \in Members(n) : calls'[q] = k
  BY <1>1, NextIs, WholeCallers DEF Handle
<1>3. Given(p).nodes = 0
  <2> HIDE DEF k, call
  <2> QED
    BY <1>2, CallIs
<1>4. client[n] = NoClient
  BY <1>2, <1>3 DEF LInv, NodeInv, ClientGlobal
<1>5. results' = [q \in Peers |-> IF q \in Range(all) THEN Append(results[q], r[q])
                                  ELSE results[q]]
  BY <1>4 DEF LocalBroadcastReturns, Execute, Answer
<1>6. senders # {}
  <2> HIDE DEF k
  <2>1. \E q \in Members(n) : program[q][k].tensor
    BY <1>2, CallIs
  <2> QED
    BY <1>2, <2>1 DEF k
<1>7. ASSUME NEW q \in Range(all) \cap Peers PROVE r[q] = Expected(q, Done(q) + 1)
  <2>1. /\ k = Done(q) + 1 /\ Scope(q) = Range(all)
        /\ \A x \in Range(all) : calls'[x] = k
        /\ Kind(q, k) = call.kind
    BY <1>1, <1>3, <1>7, WholeOperation
  <2>2. senders = Senders(q, k)
    BY <2>1 DEF Senders
  <2>3. s = Sender(q, k)
    BY <2>2 DEF Sender
  <2>4. s \in Range(all) /\ calls'[s] = k
    BY <1>6, <2>1
  <2>5. TensorOf(s) = Of({<<s, k>>}, program[s][k].size)
    BY <2>4, WholeIsOf DEF TensorOf
  <2>6. r[q] = Returned(TensorOf(s), 1)
    BY <1>6, <1>7
  <2> HIDE DEF r, s, senders, all, k
  <2>7. Expected(q, k) = Returned(Of({<<s, k>>}, program[s][k].size), 1)
    BY <1>1, <2>1, <2>3, ExpectedIs DEF Kind
  <2> QED
    BY <2>1, <2>5, <2>6, <2>7
<1> HIDE DEF r, all
<1> QED
  BY <1>1, <1>5, <1>7, ExpectedAnswers

LEMMA RegisterExpected ==
    ASSUME TInv, Coherent, LInv, ResultsAre, NEW p \in Peers, RegisterPeer(p) \/ FinishPeer(p)
    PROVE  ResultsAre'
<1>1. UNCHANGED program
  BY DEF RegisterPeer, FinishPeer, Handle, Makes
<1>2. CASE UNCHANGED results
  BY <1>1, <1>2, SameResults
<1>3. CASE RegisterPeer(p) /\ ~(UNCHANGED results)
  <2> DEFINE n == NodeOf[p]
             to == callbacks[n] \cup {p}
  <2>1. results' = [q \in Peers |-> IF q \in to THEN Append(results[q], Ok) ELSE results[q]]
    BY <1>3 DEF RegisterPeer, Answer
  <2>2. ASSUME NEW q \in to \cap Peers PROVE Kind(q, Done(q) + 1) = "register"
    <3>1. CASE q = p
      <4>1. Done(p) = calls[p] /\ Kind(p, calls[p] + 1) = "register"
        BY <1>3, NextIs DEF RegisterPeer, Handle
      <4> QED
        BY <3>1, <4>1
    <3>2. CASE q \in callbacks[n]
      <4>1. n \in Nodes /\ alive[n] /\ Placed(n)
        BY PeersAssumption DEF LInv, NodeInv
      <4>2. q \in HeldAt(n)["register"] /\ "register" \in Places
        BY <3>2, HeldAtIs, PlacesAre
      <4>3. calls[q] = Done(q) + 1
        BY <4>1, <4>2, HeldIs
      <4> QED
        BY <3>2, <4>1, <4>3 DEF Placed
    <3> QED
      BY <2>2, <3>1, <3>2
  <2> HIDE DEF to
  <2> QED
    BY <1>1, <2>1, <2>2, OkAnswers
<1>4. CASE FinishPeer(p) /\ ~(UNCHANGED results)
  <2>1. results' = [q \in Peers |-> IF q \in {p} THEN Append(results[q], Ok) ELSE results[q]]
    BY <1>4 DEF FinishPeer, Answer
  <2>2. Done(p) = calls[p] /\ Kind(p, calls[p] + 1) = "finish"
    BY <1>4, NextIs DEF FinishPeer, Handle
  <2>3. \A q \in {p} \cap Peers : Kind(q, Done(q) + 1) \in {"register", "finish"}
    BY <2>2
  <2> QED
    BY <1>1, <2>1, <2>3, OkAnswers
<1> QED
  BY <1>2, <1>3, <1>4

LEMMA PeerExpected ==
    ASSUME TInv, Coherent, LInv, Connected => GInv, OperationsAlike, ConfigsKnown, ResultsAre,
           NEW p \in Peers, PeerStep(p)
    PROVE  ResultsAre'
<1>1. CASE LocalAllReduce(p)
  BY <1>1, LocalAllReduceExpected
<1>2. CASE LocalReduceReturns(p)
  BY <1>2, LocalReduceExpected
<1>3. CASE LocalBroadcastReturns(p)
  BY <1>3, LocalBroadcastExpected
<1>4. CASE RegisterPeer(p) \/ FinishPeer(p)
  BY <1>4, RegisterExpected
<1>5. CASE OpWaits(p) \/ GlobalAllReduceStarts(p)
  <2>1. UNCHANGED <<program, results>>
    BY <1>5 DEF OpWaits, GlobalAllReduceStarts, Joins, Handle, Makes
  <2> QED
    BY <2>1, SameResults
<1>6. CASE GlobalAllReduceFails(p)
  <2>1. Handle(p, Kinds) /\ client[NodeOf[p]] # NoClient /\ client[NodeOf[p]].state = NoState
    BY <1>6 DEF GlobalAllReduceFails, Joins, Handle, Makes, Kinds
  <2>2. Given(p).nodes = 0
    BY <2>1, LocalOperation DEF Told
  <2>3. p \in Members(NodeOf[p]) /\ NodeOf[p] \in Nodes
    BY <2>1, NextIs DEF Handle
  <2>4. Given(p).nodes > 0
    BY <2>1, <2>3 DEF LInv, NodeInv, ClientGlobal
  <2> QED
    BY <2>2, <2>4
<1> QED
  BY <1>1, <1>2, <1>3, <1>4, <1>5, <1>6, NoneRefused

(* Whose server awaits other nodes has a global configuration. *)
LEMMA AwaitsConnected ==
    ASSUME TInv, Coherent, LInv, NEW n \in Nodes, task[n].kind # "idle"
    PROVE  Connected
<1>1. Members(n) # {} /\ \A p \in Members(n) : Given(p).nodes > 0
  BY DEF LInv, NodeInv, ClientGlobal
<1>2. PICK p \in Members(n) : p \in Participants /\ Given(p).nodes > 0
  BY <1>1, MemberIs
<1> QED
  BY <1>2, AllConnected

LEMMA GlobalAllReduceExpected ==
    ASSUME AllInv, InputsCounted, InputsGiven, ResultsAre, NEW n \in Nodes,
           GlobalAllReduceReturns(n)
    PROVE  ResultsAre'
<1> DEFINE nodes == SetToSeq(Range(client[n].state.nodes))
           tensor == Sum([i \in DOMAIN nodes |-> inputs[nodes[i]][round[n] + 1]])
           to == task[n].callers
           r == [q \in Peers |-> Returned(tensor, Divisor(CallOf(q).op, client[n].state.devices))]
<1>0. TInv /\ Coherent /\ Connected
  BY DEF AllInv, Connected
<1>1. UNCHANGED program /\ task[n].kind = "all_reduce"
  BY DEF GlobalAllReduceReturns
<1>2. results' = [q \in Peers |-> IF q \in to THEN Append(results[q], r[q]) ELSE results[q]]
  BY DEF GlobalAllReduceReturns, Answer
<1>3. ASSUME NEW q \in to \cap Peers PROVE r[q] = Expected(q, Done(q) + 1)
  <2> DEFINE k == calls[q]
  <2>1. /\ q \in Members(n) /\ q \in Participants /\ k = Done(q) + 1
        /\ Kind(q, k) = "all_reduce"
    BY <1>1, <1>3, Reducing
  <2>2. /\ tensor = Of(AllOfCall(k), program[q][k].size)
        /\ client[n].state.devices = Cardinality(Participants)
    BY <2>1, GlobalSum
  <2>3. r[q] = Returned(tensor, Divisor(program[q][k].op, client[n].state.devices))
    BY <1>3 DEF CallOf
  <2> HIDE DEF r, tensor, k
  <2>4. Scope(q) = Participants
    BY <1>0, <2>1, ScopeIs DEF Connected
  <2>5. ScopeOfCall(q, k) = AllOfCall(k)
    BY <2>4 DEF ScopeOfCall, AllOfCall
  <2>6. Expected(q, k) = Returned(Of(ScopeOfCall(q, k), program[q][k].size),
                                  IF program[q][k].op = "mean" THEN Cardinality(Scope(q)) ELSE 1)
    <3> DEFINE call == program[q][k]
    <3>1. call.kind = "all_reduce"
      BY <2>1 DEF Kind
    <3>2. call.kind = "all_reduce" =>
             Expected(q, k) = Returned(Of(ScopeOfCall(q, k), call.size),
                                       IF call.op = "mean" THEN Cardinality(Scope(q)) ELSE 1)
      BY Zenon, ExpectedIs
    <3> HIDE DEF call
    <3>3. Expected(q, k) = Returned(Of(ScopeOfCall(q, k), call.size),
                                    IF call.op = "mean" THEN Cardinality(Scope(q)) ELSE 1)
      BY <3>1, <3>2
    <3> QED
      BY <3>3 DEF call
  <2> QED
    BY <2>1, <2>2, <2>3, <2>4, <2>5, <2>6 DEF Divisor
<1> HIDE DEF r, to
<1> QED
  BY <1>0, <1>1, <1>2, <1>3, ExpectedAnswers

LEMMA NodeExpected ==
    ASSUME AllInv, InputsCounted, InputsGiven, ResultsAre, NEW n \in Nodes,
           GlobalRegisterReturns(n) \/ GlobalFinishReturns(n)
    PROVE  ResultsAre'
<1>0. TInv /\ LInv /\ Coherent /\ AwaitedAt(n) /\ NodeInv(n) /\ alive[n]
  BY DEF AllInv, Connected, GInv, Awaited, LInv, NodeInv
<1>1. UNCHANGED program
  BY DEF GlobalRegisterReturns, GlobalFinishReturns
<1>2. CASE GlobalRegisterReturns(n)
  <2> DEFINE to == callbacks[n]
  <2>1. task[n].kind = "register" /\ reply[n].kind = "topology"
    BY <1>0, <1>2 DEF GlobalRegisterReturns, AwaitedAt, Replied
  <2>2. results' = [q \in Peers |-> IF q \in to THEN Append(results[q], Ok) ELSE results[q]]
    BY <1>2, <2>1 DEF GlobalRegisterReturns, Answer
  <2>3. \A q \in to \cap Peers : Kind(q, Done(q) + 1) \in {"register", "finish"}
    <3>1. \A q \in Members(n) : calls[q] = Done(q) + 1 /\ Kind(q, calls[q]) = "register"
      BY <2>1, Registering
    <3>2. to = Members(n)
      BY <2>1, Registering
    <3> QED
      BY <3>1, <3>2
  <2> HIDE DEF to
  <2> QED
    BY <1>0, <1>1, <2>2, <2>3, OkAnswers
<1>3. CASE GlobalFinishReturns(n)
  <2> DEFINE to == task[n].callers
  <2>1. task[n].kind = "finish"
    BY <1>3 DEF GlobalFinishReturns
  <2>2. results' = [q \in Peers |-> IF q \in to THEN Append(results[q], Ok) ELSE results[q]]
    BY <1>3 DEF GlobalFinishReturns, Answer
  <2>3. \A q \in to \cap Peers : Kind(q, Done(q) + 1) \in {"register", "finish"}
    BY <2>1, Finishing DEF Finishes
  <2> HIDE DEF to
  <2> QED
    BY <1>0, <1>1, <2>2, <2>3, OkAnswers
<1> QED
  BY <1>2, <1>3

LEMMA ExpectedStep ==
    ASSUME TInv, Coherent, LInv, Connected => GInv, OperationsAlike, ConfigsKnown,
           InputsCounted, Connected => InputsGiven, ResultsAre, [Next]_vars
    PROVE  ResultsAre'
<1>1. ASSUME NEW p \in Peers, PeerStep(p) PROVE ResultsAre'
  BY <1>1, PeerExpected
<1>2. ASSUME NEW n \in Nodes, NodeStep(n) PROVE ResultsAre'
  <2>1. CASE GlobalRegisterReturns(n) \/ GlobalFinishReturns(n) \/ GlobalAllReduceReturns(n)
    <3>1. task[n].kind # "idle"
      BY <2>1 DEF GlobalRegisterReturns, GlobalFinishReturns, GlobalAllReduceReturns
    <3>2. AllInv /\ InputsGiven
      BY <3>1, AwaitsConnected DEF AllInv
    <3> QED
      BY <2>1, <3>2, NodeExpected, GlobalAllReduceExpected
  <2>2. CASE GlobalAllReduceMeets(n) \/ UNCHANGED <<clientVars, serverVars, globalVars>>
    <3>1. UNCHANGED <<program, results>>
      BY <2>2 DEF GlobalAllReduceMeets, clientVars
    <3> QED
      BY <3>1, SameResults
  <2> QED
    BY <1>2, <2>1, <2>2 DEF NodeStep
<1>3. CASE UNCHANGED vars
  BY <1>3, SameResults DEF vars, clientVars
<1> QED
  BY <1>1, <1>2, <1>3 DEF Next

ResultsInv ==
    /\ TInv /\ OperationsAlike /\ ConfigsKnown /\ InputsCounted
    /\ Coherent => LInv /\ ResultsAre
    /\ Connected => GInv /\ InputsGiven

LEMMA ResultsInductive == Spec => []ResultsInv
<1>1. Init => ResultsInv
  <2> SUFFICES ASSUME Init PROVE ResultsInv
    OBVIOUS
  <2>1. TInv /\ InputsCounted /\ (Coherent => LInv) /\ (Connected => GInv /\ InputsGiven)
    BY TypesStart, InputsStart, LocalStart, GlobalStart
  <2>2. OperationsAlike
    BY RangeOfEmpty DEF Init, NoOps, OperationsAlike, AlikeAt, Callers
  <2>3. ConfigsKnown
    BY DEF Init, ConfigsKnown
  <2>4. ResultsAre
    <3>1. \A p \in Peers : DOMAIN results[p] = {}
      BY DEF Init
    <3> QED
      BY <3>1 DEF ResultsAre
  <2> QED
    BY <2>1, <2>2, <2>3, <2>4 DEF ResultsInv
<1>2. ResultsInv /\ [Next]_vars => ResultsInv'
  <2> SUFFICES ASSUME ResultsInv, [Next]_vars PROVE ResultsInv'
    OBVIOUS
  <2>0. /\ TInv /\ OperationsAlike /\ ConfigsKnown /\ InputsCounted
        /\ Coherent => LInv /\ ResultsAre
        /\ Connected => GInv /\ InputsGiven
    BY DEF ResultsInv
  <2>1. (Coherent' <=> Coherent) /\ (Connected' <=> Connected)
    BY <2>0, ProgramStep, SameProgram, SameHomes
  <2>2. TInv' /\ OperationsAlike' /\ ConfigsKnown'
    BY <2>0, TypesStay, AlikeStep, ConfigsStep
  <2>3. InputsCounted' /\ (Connected' => InputsGiven')
    BY <2>0, InputsStep
  <2>4. Connected => Coherent
    BY DEF Connected
  <2>5. Coherent => LInv' /\ ResultsAre'
    BY <2>0, LocalStep, ExpectedStep
  <2>6. Connected => GInv'
    BY <2>0, <2>4, GlobalStep DEF AllInv
  <2> QED
    BY <2>1, <2>2, <2>3, <2>5, <2>6 DEF ResultsInv
<1> QED
  BY <1>1, <1>2, PTL DEF Spec

(* Peers whose calls go together get what they asked for, on any number of *)
(* nodes, devices and elements, and with every strategy: the k-th result   *)
(* of a peer is computed from the k-th tensors of all peers of its node,   *)
(* or of all nodes, each once, divided by their number for a mean, and no  *)
(* call fails (local/server.rs 322-458, local/all_reduce/base.rs,          *)
(* global/node/base.rs).                                                   *)
THEOREM ResultsAsExpected == Spec => []ResultsExpected
<1>1. ResultsInv => ResultsExpected
  BY DEF ResultsInv, ResultsExpected, ResultsAre, Coherent
<1> QED
  BY <1>1, ResultsInductive, PTL

-----------------------------------------------------------------------------
(* What is expected is mixed with nothing. *)
LEMMA ScopeSize ==
    ASSUME NEW p, NEW k
    PROVE  /\ IsFiniteSet(Scope(p)) /\ IsFiniteSet(ScopeOfCall(p, k))
           /\ Cardinality(ScopeOfCall(p, k)) = Cardinality(Scope(p))
<1> DEFINE f == [q \in Scope(p) |-> <<q, k>>]
<1>1. IsFiniteSet(Scope(p))
  <2>1. Scope(p) \in SUBSET Participants
    BY DEF Scope
  <2> QED
    BY <2>1, ParticipantsAre, FS_Subset
<1>2. f \in Bijection(Scope(p), ScopeOfCall(p, k))
  BY DEF Bijection, Injection, Surjection, IsInjective, ScopeOfCall
<1>3. ExistsBijection(Scope(p), ScopeOfCall(p, k))
  BY <1>2 DEF ExistsBijection
<1> QED
  BY <1>1, <1>3, FS_Bijection

LEMMA ExpectedUnmixed ==
    ASSUME TInv, Coherent, NEW p \in Participants, NEW k \in 1 .. Len(program[p])
    PROVE  Unmixed(p, k, Expected(p, k))
<1> DEFINE call == program[p][k]
           reduced == Returned(Of(ScopeOfCall(p, k), call.size),
                               IF call.op = "mean" THEN Cardinality(Scope(p)) ELSE 1)
<1>1. Kind(p, k) \in Kinds \cup {"register", "finish"} /\ p \in Peers
  BY CallKinds, ParticipantsAre
<1>2. ASSUME NEW q \in Scope(p)
      PROVE  /\ Kind(q, k) = Kind(p, k)
             /\ Kind(p, k) \notin {"broadcast", "register"} => program[q][k] = call
  <2>1. q \in Participants /\ Grouped(p, q)
    BY DEF Scope, Grouped, Given
  <2> HIDE DEF call
  <2>2. /\ Kind(p, k) = Kind(q, k)
        /\ \/ Kind(p, k) # "broadcast" /\ program[p][k] = program[q][k]
           \/ Kind(p, k) = "register" /\ NodeOf[p] # NodeOf[q]
           \/ Kind(p, k) = "broadcast"
    BY <2>1, CallsAre
  <2> QED
    BY <2>2 DEF call
<1>3. ASSUME Kind(p, k) \in {"all_reduce", "reduce"} PROVE Unmixed(p, k, reduced)
  <2> DEFINE r == reduced
  <2>1. /\ r.tensor = [i \in 1 .. call.size |-> SetToBag(ScopeOfCall(p, k))]
        /\ r.by = IF call.op = "mean" THEN Cardinality(Scope(p)) ELSE 1
    BY DEF Returned, Of
  <2> HIDE DEF r
  <2>2. ASSUME NEW i \in DOMAIN r.tensor
        PROVE  /\ DOMAIN r.tensor[i] = ScopeOfCall(p, k)
               /\ \A x \in ScopeOfCall(p, k) : r.tensor[i][x] = 1
    BY <2>1 DEF SetToBag
  <2>3. \A x \in ScopeOfCall(p, k) : program[x[1]][x[2]] = program[p][k]
    BY <1>2, <1>3 DEF ScopeOfCall
  <2>4. <<p, k>> \in ScopeOfCall(p, k)
    BY DEF ScopeOfCall, Scope
  <2>5. call.op = "mean" => r.by = Cardinality(ScopeOfCall(p, k))
    BY <2>1, ScopeSize
  <2>6. Unmixed(p, k, r)
    BY <2>2, <2>3, <2>4, <2>5, Zenon DEF Unmixed
  <2> QED
    BY <2>6 DEF r
<1>4. ASSUME Kind(p, k) = "broadcast" PROVE Unmixed(p, k, Expected(p, k))
  <2> DEFINE s == Sender(p, k)
             x == <<s, k>>
             size == program[s][k].size
             r == Returned(Of({x}, size), 1)
  <2>1. Senders(p, k) # {}
    <3>1. \E q \in Members(NodeOf[p]) : program[q][k].tensor
      BY <1>1, <1>4, CallIs
    <3> QED
      BY <3>1 DEF Senders, Scope, Members
  <2>2. s \in Scope(p)
    BY <2>1 DEF Sender, Senders
  <2>3. program[x[1]][x[2]].kind = "broadcast" /\ program[p][k].kind = "broadcast"
    <3>1. Kind(s, k) = "broadcast"
      BY <1>2, <1>4, <2>2
    <3> QED
      BY <1>4, <3>1 DEF Kind
  <2>4. r.tensor = [i \in 1 .. size |-> SetToBag({x})] /\ r.by = 1
    BY DEF Returned, Of
  <2>5. Expected(p, k) = r
    BY <1>4, ExpectedIs DEF Kind
  <2> HIDE DEF r, size, x
  <2>6. ASSUME NEW i \in DOMAIN r.tensor
        PROVE  DOMAIN r.tensor[i] = {x} /\ r.tensor[i][x] = 1
    BY <2>4 DEF SetToBag
  <2>7. Cardinality({x}) = 1
    BY FS_Singleton
  <2>8. Unmixed(p, k, r)
    BY <2>3, <2>4, <2>6, <2>7, Zenon DEF Unmixed
  <2> QED
    BY <2>5, <2>8
<1>5. ASSUME Expected(p, k) = Ok PROVE Unmixed(p, k, Expected(p, k))
  BY <1>5, NothingInFailed, NothingMixed
<1>6. \/ Kind(p, k) \in {"all_reduce", "reduce"} /\ Expected(p, k) = reduced
      \/ Kind(p, k) = "broadcast"
      \/ Expected(p, k) = Ok
  <2> DEFINE sent == Returned(Of({<<Sender(p, k), k>>}, program[Sender(p, k)][k].size), 1)
  <2>1. /\ call.kind = "all_reduce" => Expected(p, k) = reduced
        /\ call.kind = "reduce" => Expected(p, k) = IF p = call.root THEN reduced ELSE Ok
        /\ call.kind = "broadcast" => Expected(p, k) = sent
        /\ call.kind \in {"register", "finish"} => Expected(p, k) = Ok
    BY Zenon, ExpectedIs
  <2>2. call.kind = Kind(p, k)
    BY DEF Kind
  <2> HIDE DEF reduced, call, sent
  <2> QED
    BY <1>1, <2>1, <2>2 DEF Kinds
<1> HIDE DEF reduced
<1> QED
  BY <1>3, <1>4, <1>5, <1>6

(* The sums of NoMixedSums, with any number of nodes where the calls go    *)
(* together, and on one node whatever the calls: between nodes (global/    *)
(* node/base.rs) nothing is compared, and calls that do not go together    *)
(* are mixed.                                                              *)
THEOREM NothingMixedTogether ==
    Spec => [](program \in CoherentPrograms \/ LocalCalls => NoMixedSums)
<1>1. ResultsInv /\ Coherent => NoMixedSums
  <2> SUFFICES ASSUME ResultsInv, Coherent, NEW p \in Peers, NEW k \in DOMAIN results[p]
               PROVE  Unmixed(p, k, results[p][k])
    BY UnmixedResults
  <2>1. TInv /\ results[p][k] = Expected(p, k)
    BY DEF ResultsInv, ResultsAre
  <2>2. p \in Participants /\ k \in 1 .. Len(program[p])
    <3>1. PICK S : results[p] \in Seq(S)
      BY <2>1 DEF TInv, IInv, ClientTypes, IsSequence
    <3>2. k \in 1 .. Done(p)
      BY <3>1 DEF Done
    <3> QED
      BY <2>1, <3>2, Counts
  <2> QED
    BY <2>1, <2>2, ExpectedUnmixed
<1>2. ResultsInv /\ (LocalCalls => NoMixedSums)
        => (program \in CoherentPrograms \/ LocalCalls => NoMixedSums)
  BY <1>1 DEF Coherent
<1> QED
  BY <1>2, ResultsInductive, NothingMixedOnANode, PTL
=============================================================================
