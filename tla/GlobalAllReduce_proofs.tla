------------------------ MODULE GlobalAllReduce_proofs ------------------------
(***************************************************************************)
(* Proofs about the barrier of GlobalAllReduce, for any number of nodes    *)
(* and of all-reduces, and for every strategy.                             *)
(***************************************************************************)
EXTENDS GlobalAllReduce, TLAPS

(* How often a node has called sync. *)
Begun(n) == round[n] + (IF pc[n] = "barrier" THEN 1 ELSE 0)

Types ==
    /\ pc \in [Nodes -> Labels]
    /\ round \in [Nodes -> Nat]
    /\ syncing \in [Nodes -> [Nodes -> Nat]]
    /\ notices \subseteq [from : Nodes, to : Nodes, nth : Nat]
    /\ \A r \in notices : r.from # r.to

(* A node is in its own list as often as it has called sync. *)
OwnRequests == \A n \in Nodes : syncing[n][n] = Begun(n)

(* Who is in a list, or has sent a request, has called sync. *)
PeersHaveBegun ==
    /\ \A n, m \in Nodes : syncing[n][m] > 0 => Begun(m) > 0
    /\ \A r \in notices : Begun(r.from) > 0

(* A node that has left the barrier has done so once, and all have come to it. *)
LeftTogether ==
    \A n \in Nodes :
        /\ round[n] <= 1
        /\ round[n] = 1 => \A m \in Nodes : Begun(m) > 0

IInv == Types /\ OwnRequests /\ PeersHaveBegun /\ LeftTogether

-----------------------------------------------------------------------------
LEMMA InitIInv == Init => IInv
<1> SUFFICES ASSUME Init PROVE IInv
  OBVIOUS
<1>1. Types
  BY DEF Init, InitSync, Types, Labels
<1>2. \A n \in Nodes : Begun(n) = 0
  BY DEF Init, Begun
<1> QED
  BY <1>1, <1>2 DEF Init, InitSync, IInv, OwnRequests, PeersHaveBegun, LeftTogether

(* Steps that touch neither the lists nor the requests, and move no node   *)
(* into or out of the barrier, preserve the invariant.                     *)
LEMMA LocalStep ==
    ASSUME IInv, pc' \in [Nodes -> Labels],
           \A n \in Nodes : pc'[n] = "barrier" <=> pc[n] = "barrier",
           UNCHANGED <<round, syncing, notices>>
    PROVE  IInv'
<1>1. \A n \in Nodes : Begun(n)' = Begun(n)
  BY DEF Begun
<1>2. Types'
  BY DEF IInv, Types
<1>3. OwnRequests' /\ LeftTogether'
  BY <1>1 DEF IInv, OwnRequests, LeftTogether
<1>4. PeersHaveBegun'
  <2>1. \A r \in notices : r.from \in Nodes
    BY DEF IInv, Types
  <2> QED BY <1>1, <2>1 DEF IInv, PeersHaveBegun
<1> QED BY <1>2, <1>3, <1>4 DEF IInv

(* Going to a label other than that of the barrier, from another. *)
LEMMA GotoStep ==
    ASSUME IInv, NEW n \in Nodes, NEW l \in Labels \ {"barrier"}, pc[n] # "barrier",
           Goto(n, l), UNCHANGED <<round, syncing, notices>>
    PROVE  IInv'
<1>1. pc \in [Nodes -> Labels]
  BY DEF IInv, Types
<1>2. pc' \in [Nodes -> Labels] /\ \A m \in Nodes : pc'[m] = "barrier" <=> pc[m] = "barrier"
  BY <1>1 DEF Goto
<1> QED BY <1>2, LocalStep

LEMMA StayStep ==
    ASSUME IInv, UNCHANGED <<pc, round, syncing, notices>>
    PROVE  IInv'
BY LocalStep DEF IInv, Types

(* A node comes to the barrier. *)
LEMMA SyncStepInv ==
    ASSUME IInv, NEW n \in Nodes, Sync(n)
    PROVE  IInv'
<1>1. /\ pc[n] = "sync" /\ pc' = [pc EXCEPT ![n] = "barrier"] /\ round' = round
      /\ syncing' = [syncing EXCEPT ![n][n] = syncing[n][n] + 1]
      /\ notices' = notices \cup {Notice(n, m, round[n] + 1) : m \in Nodes \ {n}}
  BY DEF Sync, StartSync, Goto
<1>2. Types
  BY DEF IInv
<1>3. Types'
  BY <1>1, <1>2 DEF Types, Labels, Notice
<1>4. Begun(n)' = Begun(n) + 1 /\ Begun(n) \in Nat
      /\ \A m \in Nodes : Begun(m) \in Nat /\ (m # n => Begun(m)' = Begun(m))
  BY <1>1, <1>2 DEF Types, Begun
<1>5. OwnRequests'
  BY <1>1, <1>2, <1>4 DEF IInv, OwnRequests, Types
<1>6. PeersHaveBegun'
  <2>1. \A i, m \in Nodes : syncing'[i][m] > 0 => Begun(m)' > 0
    BY <1>1, <1>2, <1>4 DEF IInv, PeersHaveBegun, Types
  <2>2. \A r \in notices : Begun(r.from)' > 0
    BY <1>2, <1>4 DEF IInv, PeersHaveBegun, Types
  <2>3. \A r \in notices' : Begun(r.from)' > 0
    BY <1>1, <1>4, <2>2 DEF Notice
  <2> QED BY <2>1, <2>3 DEF PeersHaveBegun
<1>7. LeftTogether'
  BY <1>1, <1>4 DEF IInv, LeftTogether
<1> QED BY <1>3, <1>5, <1>6, <1>7 DEF IInv

(* A node leaves the barrier.  It finds itself in its list once: this is   *)
(* its first sync.  It finds the others in it: they have come to theirs.   *)
LEMMA ReturnInv ==
    ASSUME IInv, NEW n \in Nodes, Return(n)
    PROVE  IInv'
<1>1. /\ pc[n] = "barrier" /\ pc' = [pc EXCEPT ![n] = "idle"]
      /\ round' = [round EXCEPT ![n] = round[n] + 1]
      /\ syncing' = syncing /\ notices' = notices
      /\ AllSynced(n)
  BY DEF Return, EndSync, Goto
<1>2. Types
  BY DEF IInv
<1>3. Types'
  BY <1>1, <1>2 DEF Types, Labels
<1>4. \A m \in Nodes : Begun(m)' = Begun(m) /\ Begun(m) \in Nat
  BY <1>1, <1>2 DEF Types, Begun
<1>5. round[n] = 0 /\ round'[n] = 1
  <2>1. Begun(n) = 1
    BY <1>1 DEF AllSynced, IInv, OwnRequests
  <2>2. Begun(n) = round[n] + 1
    BY <1>1 DEF Begun
  <2>3. round \in [Nodes -> Nat] /\ round[n] \in Nat
    BY <1>2 DEF Types
  <2>4. round[n] = 0
    BY <2>1, <2>2, <2>3
  <2> QED BY <1>1, <2>3, <2>4
<1>6. \A m \in Nodes : Begun(m)' > 0
  BY <1>1, <1>4 DEF AllSynced, IInv, PeersHaveBegun
<1>7. LeftTogether'
  BY <1>1, <1>2, <1>5, <1>6 DEF IInv, LeftTogether, Types
<1>8. OwnRequests' /\ PeersHaveBegun'
  <2>1. \A r \in notices : r.from \in Nodes
    BY <1>2 DEF Types
  <2> QED BY <1>1, <1>4, <2>1 DEF IInv, OwnRequests, PeersHaveBegun
<1> QED BY <1>3, <1>7, <1>8 DEF IInv

(* A request is added to the list of a node. *)
LEMMA AddPeerInv ==
    ASSUME IInv, NEW r \in notices, AddPeer(r), UNCHANGED nodeVars
    PROVE  IInv'
<1>1. /\ pc' = pc /\ round' = round
      /\ syncing' = [syncing EXCEPT ![r.to][r.from] = syncing[r.to][r.from] + 1]
      /\ notices' = notices \ {r}
  BY DEF AddPeer, nodeVars
<1>2. Types /\ r.from \in Nodes /\ r.to \in Nodes
  BY DEF IInv, Types
<1>3. Types'
  BY <1>1, <1>2 DEF Types
<1>4. \A m \in Nodes : Begun(m)' = Begun(m)
  BY <1>1 DEF Begun
<1>5. r.from # r.to
  BY <1>2 DEF Types
<1> QED
  BY <1>1, <1>2, <1>3, <1>4, <1>5
     DEF IInv, OwnRequests, PeersHaveBegun, LeftTogether, Types

-----------------------------------------------------------------------------
(* A step of a node in its all-reduce. *)
LEMMA NodeStepInv ==
    ASSUME IInv, NEW n \in Nodes,
           \/ BeginRing(n) \/ FailRing(n) \/ StartCycle(n) \/ EndCycle(n)
           \/ BeginTree(n) \/ EndGather(n) \/ Give(n) \/ EndGive(n)
           \/ \E m \in Nodes : Gather(n, m) \/ AskParent(n, m) \/ Receive(n, m)
    PROVE  IInv'
<1>1. CASE BeginRing(n)
  <2>1. CycleLabel(0) \in Labels \ {"barrier"}
    BY DEF CycleLabel, Labels
  <2> QED BY <1>1, <2>1, GotoStep DEF BeginRing, syncVars
<1>2. CASE StartCycle(n)
  <2>1. "transfer" \in Labels \ {"barrier"}
    BY DEF Labels
  <2> QED BY <1>2, <2>1, GotoStep DEF StartCycle, syncVars
<1>3. CASE EndCycle(n)
  <2>1. CycleLabel(cycle[n] + 1) \in Labels \ {"barrier"}
    BY DEF CycleLabel, Labels
  <2>2. pc[n] # "barrier" /\ Goto(n, CycleLabel(cycle[n] + 1))
        /\ UNCHANGED <<round, syncing, notices>>
    BY <1>3 DEF EndCycle, syncVars
  <2> QED BY <2>1, <2>2, GotoStep
<1>4. CASE BeginTree(n)
  <2>1. "gather" \in Labels \ {"barrier"}
    BY DEF Labels
  <2> QED BY <1>4, <2>1, GotoStep DEF BeginTree, syncVars
<1>5. CASE EndGather(n)
  <2>1. "offer" \in Labels \ {"barrier"} /\ "give" \in Labels \ {"barrier"}
    BY DEF Labels
  <2>2. pc[n] # "barrier" /\ (Goto(n, "offer") \/ Goto(n, "give"))
        /\ UNCHANGED <<round, syncing, notices>>
    BY <1>5 DEF EndGather, syncVars
  <2> QED BY <2>1, <2>2, GotoStep
<1>6. CASE Give(n)
  <2>1. "given" \in Labels \ {"barrier"} /\ "sync" \in Labels \ {"barrier"}
    BY DEF Labels
  <2>2. pc[n] # "barrier" /\ (Goto(n, "given") \/ Goto(n, "sync"))
        /\ UNCHANGED <<round, syncing, notices>>
    BY <1>6 DEF Give, syncVars
  <2> QED BY <2>1, <2>2, GotoStep
<1>7. CASE EndGive(n)
  <2>1. "sync" \in Labels \ {"barrier"}
    BY DEF Labels
  <2> QED BY <1>7, <2>1, GotoStep DEF EndGive, syncVars
<1>8. ASSUME NEW m \in Nodes, Gather(n, m) PROVE IInv'
  BY <1>8, StayStep DEF Gather, syncVars
<1>9. ASSUME NEW m \in Nodes, AskParent(n, m) PROVE IInv'
  <2>1. "receive" \in Labels \ {"barrier"}
    BY DEF Labels
  <2> QED BY <1>9, <2>1, GotoStep DEF AskParent, syncVars
<1>10. ASSUME NEW m \in Nodes, Receive(n, m) PROVE IInv'
  <2>1. "give" \in Labels \ {"barrier"}
    BY DEF Labels
  <2> QED BY <1>10, <2>1, GotoStep DEF Receive, syncVars
<1>11. CASE FailRing(n)
  <2>1. "idle" \in Labels \ {"barrier"} /\ "panicked" \in Labels \ {"barrier"}
    BY DEF Labels
  <2>2. pc[n] # "barrier" /\ (Goto(n, "idle") \/ Goto(n, "panicked"))
        /\ UNCHANGED <<round, syncing, notices>>
    BY <1>11 DEF FailRing, syncVars
  <2> QED BY <2>1, <2>2, GotoStep
<1> QED BY <1>1, <1>2, <1>3, <1>4, <1>5, <1>6, <1>7, <1>8, <1>9, <1>10, <1>11

LEMMA NextIInv == IInv /\ [Next]_vars => IInv'
<1> SUFFICES ASSUME IInv, [Next]_vars PROVE IInv'
  OBVIOUS
<1>1. ASSUME NEW n \in Nodes, Sync(n) PROVE IInv'
  BY <1>1, SyncStepInv
<1>2. ASSUME NEW n \in Nodes, Return(n) PROVE IInv'
  BY <1>2, ReturnInv
<1>3. CASE DataStep /\ UNCHANGED <<nodeVars, syncVars>>
  BY <1>3, StayStep DEF nodeVars, syncVars
<1>4. CASE SyncStep /\ UNCHANGED <<nodeVars, dataVars>>
  <2>1. ASSUME NEW n \in Nodes, MissPeer(n) \/ AwaitPeer(n) PROVE IInv'
    BY <1>4, <2>1, StayStep DEF MissPeer, AwaitPeer, nodeVars
  <2>2. ASSUME NEW r \in notices, AddPeer(r) PROVE IInv'
    BY <1>4, <2>2, AddPeerInv
  <2> QED BY <1>4, <2>1, <2>2 DEF SyncStep
<1>5. CASE UNCHANGED vars
  BY <1>5, StayStep DEF vars, nodeVars, syncVars
<1>6. ASSUME NEW n \in Nodes,
             \/ BeginRing(n) \/ FailRing(n) \/ StartCycle(n) \/ EndCycle(n)
             \/ BeginTree(n) \/ EndGather(n) \/ Give(n) \/ EndGive(n)
             \/ \E m \in Nodes : Gather(n, m) \/ AskParent(n, m) \/ Receive(n, m)
      PROVE IInv'
  BY <1>6, NodeStepInv
<1> QED BY <1>1, <1>2, <1>3, <1>4, <1>5, <1>6 DEF Next

-----------------------------------------------------------------------------
(* The strengthened invariant. *)
THEOREM Invariant == Spec => []IInv
BY InitIInv, NextIInv, PTL DEF Spec

LEMMA BarrierFollows == IInv => NoEarlyLeave
<1> SUFFICES ASSUME IInv, NEW n \in Nodes, NEW m \in Nodes, round[n] > round[m]
             PROVE  pc[m] = "barrier" /\ round[n] = round[m] + 1
  BY DEF NoEarlyLeave
<1>1. round[n] \in Nat /\ round[m] \in Nat /\ round[n] <= 1
  BY DEF IInv, Types, LeftTogether
<1>2. round[n] = 1 /\ round[m] = 0
  BY <1>1
<1>3. Begun(m) > 0
  BY <1>2 DEF IInv, LeftTogether
<1>4. pc[m] = "barrier"
  <2>1. CASE pc[m] # "barrier"
    <3>1. Begun(m) = 0
      BY <1>2, <2>1 DEF Begun
    <3> QED BY <1>3, <3>1
  <2> QED BY <2>1
<1> QED BY <1>2, <1>4

(* No node leaves an all-reduce before all have come to its barrier. *)
THEOREM BarrierHolds == Spec => []NoEarlyLeave
BY Invariant, BarrierFollows, PTL

(* Not all of it is meant: as the list of peers is never cleared, a node   *)
(* finds itself in it twice in its second sync, and does not return from   *)
(* it (EndSync cannot happen).                                             *)
SecondSyncFails == \A n \in Nodes : round[n] > 0 => ~(pc[n] = "barrier" /\ AllSynced(n))

THEOREM NoSecondReturn == Spec => []SecondSyncFails
<1>1. IInv => SecondSyncFails
  <2> SUFFICES ASSUME IInv, NEW n \in Nodes, round[n] > 0, pc[n] = "barrier", AllSynced(n)
               PROVE  FALSE
    BY DEF SecondSyncFails
  <2>1. Begun(n) = round[n] + 1 /\ round[n] \in Nat
    BY DEF Begun, IInv, Types
  <2>2. syncing[n][n] = 1 /\ syncing[n][n] = Begun(n)
    BY DEF IInv, OwnRequests, AllSynced
  <2> QED BY <2>1, <2>2
<1> QED BY <1>1, Invariant, PTL

-----------------------------------------------------------------------------
(* The refinement of GlobalBarrier.  Steps within an all-reduce stutter.   *)
Within == Labels \ {"idle", "barrier", "panicked"}

LEMMA Stutter ==
    ASSUME \A n \in Nodes : Phase'[n] = Phase[n], UNCHANGED round
    PROVE  UNCHANGED <<Phase, round>>
BY DEF Phase

LEMMA GotoPhase ==
    ASSUME Types, NEW n \in Nodes, NEW l \in Labels, Goto(n, l)
    PROVE  Phase' = [Phase EXCEPT ![n] = CASE l \in {"idle", "panicked"} -> "idle"
                                           [] l = "barrier" -> "barrier"
                                           [] OTHER -> "reducing"]
<1>1. pc \in [Nodes -> Labels] /\ pc' = [pc EXCEPT ![n] = l]
  BY DEF Types, Goto
<1> QED BY <1>1 DEF Phase

LEMMA WithinStutters ==
    ASSUME Types, NEW n \in Nodes, NEW l \in Within, pc[n] \in Within, Goto(n, l), UNCHANGED round
    PROVE  UNCHANGED <<Phase, round>>
<1>1. Phase' = [Phase EXCEPT ![n] = "reducing"] /\ Phase[n] = "reducing"
  BY GotoPhase DEF Phase, Within
<1>2. \A m \in Nodes : Phase'[m] = Phase[m]
  BY <1>1 DEF Phase
<1> QED BY <1>2, Stutter

LEMMA BeginEnters ==
    ASSUME Types, NEW n \in Nodes, NEW l \in Within, pc[n] = "idle",
           Goto(n, l), UNCHANGED round
    PROVE  Barrier!Enter(n)
<1>1. Phase' = [Phase EXCEPT ![n] = "reducing"] /\ Phase[n] = "idle"
  BY GotoPhase DEF Phase, Within
<1> QED BY <1>1 DEF Barrier!Enter

LEMMA SyncArrives ==
    ASSUME Types, NEW n \in Nodes, Sync(n)
    PROVE  Barrier!Arrive(n)
<1>1. pc[n] = "sync" /\ Goto(n, "barrier") /\ "barrier" \in Labels /\ UNCHANGED round
  BY DEF Sync, Labels
<1>2. Phase' = [Phase EXCEPT ![n] = "barrier"] /\ Phase[n] = "reducing"
  BY <1>1, GotoPhase DEF Phase
<1> QED BY <1>1, <1>2 DEF Barrier!Arrive

(* The others are in the list: they have come to the barrier, and are      *)
(* still there, or have left it, once at most.                             *)
LEMMA ReturnLeaves ==
    ASSUME IInv, NEW n \in Nodes, Return(n)
    PROVE  Barrier!Leave(n)
<1>1. /\ pc[n] = "barrier" /\ Goto(n, "idle") /\ "idle" \in Labels
      /\ round' = [round EXCEPT ![n] = round[n] + 1]
      /\ AllSynced(n)
  BY DEF Return, EndSync, Labels
<1>2. Types
  BY DEF IInv
<1>3. round[n] = 0
  <2>1. Begun(n) = 1
    BY <1>1 DEF AllSynced, IInv, OwnRequests
  <2>2. Begun(n) = round[n] + 1 /\ round[n] \in Nat
    BY <1>1, <1>2 DEF Begun, Types
  <2> QED BY <2>1, <2>2
<1>4. ASSUME NEW m \in Nodes
      PROVE  (pc[m] = "barrier" /\ round[m] = round[n]) \/ round[m] = round[n] + 1
  <2>1. Begun(m) > 0
    BY <1>1, <1>4 DEF AllSynced, IInv, PeersHaveBegun
  <2>2. round[m] \in Nat /\ round[m] <= 1
    BY <1>2 DEF IInv, LeftTogether, Types
  <2>3. CASE round[m] = 1
    BY <1>3, <2>3
  <2>4. CASE round[m] = 0
    <3>1. CASE pc[m] # "barrier"
      <4>1. Begun(m) = 0
        BY <2>4, <3>1 DEF Begun
      <4> QED BY <2>1, <4>1
    <3> QED BY <1>3, <2>4, <3>1
  <2> QED BY <2>2, <2>3, <2>4
<1>5. Phase' = [Phase EXCEPT ![n] = "idle"]
  BY <1>1, <1>2, GotoPhase
<1>6. \A m \in Nodes : Phase[m] = "barrier" <=> pc[m] = "barrier"
  BY DEF Phase
<1> QED BY <1>1, <1>4, <1>5, <1>6 DEF Barrier!Leave

LEMMA NextImplementsBarrier ==
    IInv /\ [Next]_vars => [Barrier!NextBarrier]_(Barrier!barrierVars)
<1> SUFFICES ASSUME IInv, [Next]_vars
             PROVE  Barrier!NextBarrier \/ UNCHANGED <<Phase, round>>
  BY DEF Barrier!barrierVars
<1>0. Types
  BY DEF IInv
<1>1. ASSUME NEW n \in Nodes, BeginRing(n) PROVE Barrier!Enter(n)
  <2>1. CycleLabel(0) \in Within
    BY DEF CycleLabel, Labels, Within
  <2> QED BY <1>0, <1>1, <2>1, BeginEnters DEF BeginRing
<1>2. ASSUME NEW n \in Nodes, BeginTree(n) PROVE Barrier!Enter(n)
  <2>1. "gather" \in Within
    BY DEF Labels, Within
  <2> QED BY <1>0, <1>2, <2>1, BeginEnters DEF BeginTree
<1>3. ASSUME NEW n \in Nodes, Sync(n) PROVE Barrier!Arrive(n)
  BY <1>0, <1>3, SyncArrives
<1>4. ASSUME NEW n \in Nodes, Return(n) PROVE Barrier!Leave(n)
  BY <1>4, ReturnLeaves
<1>5. ASSUME NEW n \in Nodes,
             \/ StartCycle(n) \/ EndCycle(n) \/ EndGather(n) \/ Give(n) \/ EndGive(n)
             \/ \E m \in Nodes : Gather(n, m) \/ AskParent(n, m) \/ Receive(n, m)
      PROVE  UNCHANGED <<Phase, round>>
  <2>1. PICK l \in Within :
            pc[n] \in Within /\ (Goto(n, l) \/ pc' = pc) /\ UNCHANGED round
    <3>1. CASE StartCycle(n)
      BY <3>1 DEF StartCycle, Labels, Within
    <3>2. CASE EndCycle(n)
      <4>1. CycleLabel(cycle[n] + 1) \in Within
        BY DEF CycleLabel, Labels, Within
      <4>2. pc[n] \in Within /\ Goto(n, CycleLabel(cycle[n] + 1)) /\ UNCHANGED round
        BY <3>2 DEF EndCycle, Labels, Within
      <4> QED BY <4>1, <4>2
    <3>3. CASE EndGather(n)
      BY <3>3 DEF EndGather, Labels, Within
    <3>4. CASE Give(n)
      BY <3>4 DEF Give, Labels, Within
    <3>5. CASE EndGive(n)
      BY <3>5 DEF EndGive, Labels, Within
    <3>6. CASE \E m \in Nodes : Gather(n, m)
      BY <3>6 DEF Gather, Labels, Within
    <3>7. CASE \E m \in Nodes : AskParent(n, m) \/ Receive(n, m)
      BY <3>7 DEF AskParent, Receive, Labels, Within
    <3> QED BY <1>5, <3>1, <3>2, <3>3, <3>4, <3>5, <3>6, <3>7
  <2>2. CASE Goto(n, l)
    BY <1>0, <2>1, <2>2, WithinStutters
  <2>3. CASE pc' = pc
    BY <2>1, <2>3, Stutter DEF Phase
  <2> QED BY <2>1, <2>2, <2>3
<1>6. CASE UNCHANGED nodeVars
  BY <1>6, Stutter DEF nodeVars, Phase
<1>7. ASSUME NEW n \in Nodes, FailRing(n) PROVE UNCHANGED <<Phase, round>>
  <2>1. pc[n] = "idle" /\ (Goto(n, "idle") \/ Goto(n, "panicked")) /\ UNCHANGED round
    BY <1>7 DEF FailRing
  <2>2. \A m \in Nodes : Phase'[m] = Phase[m]
    BY <1>0, <2>1 DEF Goto, Phase, Types
  <2> QED BY <2>1, <2>2, Stutter
<1> QED BY <1>1, <1>2, <1>3, <1>4, <1>5, <1>6, <1>7 DEF Next, vars, Barrier!NextBarrier

(* For any number of nodes and every strategy, a global all-reduce keeps   *)
(* the promise of the abstract specification.                              *)
THEOREM Refinement == Spec => ImplementsBarrier
<1>1. Init => Barrier!InitBarrier
  BY DEF Init, Barrier!InitBarrier, Phase
<1> QED
  BY <1>1, Invariant, NextImplementsBarrier, PTL DEF Spec, ImplementsBarrier, Barrier!SpecBarrier
=============================================================================
