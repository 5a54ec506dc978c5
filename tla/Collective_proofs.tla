-------------------------- MODULE Collective_proofs --------------------------
(***************************************************************************)
(* Proofs about the local servers of Collective, for any number of nodes   *)
(* and peers and whatever these call: no call is forgotten, none is        *)
(* answered twice, and tensors are combined only if they were given to     *)
(* calls that asked for the same.                                          *)
(***************************************************************************)
EXTENDS Collective, LocalReduce_proofs, FiniteSetTheorems, TLAPS

IsSequence(s) == \E S : s \in Seq(S)

(* A peer waits for one answer at most. *)
ClientTypes ==
    /\ calls \in [Peers -> Nat]
    /\ DOMAIN results = Peers
    /\ \A p \in Peers : IsSequence(results[p]) /\ Len(results[p]) \in {calls[p], calls[p] - 1}

TaskKinds == {"idle", "register", "all_reduce", "finish"}

ServerTypes ==
    /\ callbacks \in [Nodes -> SUBSET Peers]
    /\ ops \in [Nodes -> [Kinds -> Seq(Peers)]]
    /\ task \in [Nodes -> [kind : TaskKinds, callers : SUBSET Peers]]
    /\ alive \in [Nodes -> BOOLEAN]

(* While a server awaits the orchestrator, the callbacks are those of the  *)
(* registration; one that has panicked awaits nothing.                     *)
Tasks ==
    \A n \in Nodes :
        /\ task[n].kind \in {"idle", "register"} => task[n].callers = {}
        /\ ~alive[n] => task[n].kind = "idle"

WaitingAt(n) == {p \in Peers : NodeOf[p] = n /\ Waiting(p)}
HeldAt(n) == [place \in Places |-> Holds(n, place)]

(* The peers that wait are those in some place, and each is in one. *)
Parted(waiting, at) ==
    /\ \A p \in Peers : p \in waiting <=> \E x \in Places : p \in at[x]
    /\ \A p \in Peers : \A x, y \in Places : p \in at[x] /\ p \in at[y] => x = y

IInv ==
    /\ ClientTypes
    /\ ServerTypes
    /\ Tasks
    /\ \A n \in Nodes : alive[n] => Parted(WaitingAt(n), HeldAt(n))

(* What a step does to the peers: some call, some are answered. *)
CallsOf(called) ==
    calls' = [p \in Peers |-> IF p \in called THEN calls[p] + 1 ELSE calls[p]]

AnswersTo(to) ==
    /\ DOMAIN results' = Peers
    /\ \A p \in Peers : IF p \in to THEN \E x : results'[p] = Append(results[p], x)
                        ELSE results'[p] = results[p]

-----------------------------------------------------------------------------
(* Sequences.                                                              *)
LEMMA Appended ==
    ASSUME NEW s, NEW x, IsSequence(s)
    PROVE  IsSequence(Append(s, x)) /\ Len(Append(s, x)) = Len(s) + 1
<1>1. PICK S : s \in Seq(S)
  BY DEF IsSequence
<1>2. s \in Seq(S \cup {x})
  BY <1>1
<1>3. Append(s, x) \in Seq(S \cup {x}) /\ Len(Append(s, x)) = Len(s) + 1
  BY <1>2
<1> QED
  BY <1>3 DEF IsSequence

LEMMA RangeOfAppend ==
    ASSUME NEW S, NEW s \in Seq(S), NEW x
    PROVE  Range(Append(s, x)) = Range(s) \cup {x}
  BY DEF Range

LEMMA RangeOfEmpty == Range(<<>>) = {}
  BY DEF Range

LEMMA RangeOfSequence ==
    ASSUME NEW S, NEW s \in Seq(S) PROVE Range(s) \subseteq S
  BY DEF Range

LEMMA SizeOfRange ==
    ASSUME NEW S, NEW s \in Seq(S), IsInjective(s)
    PROVE  IsFiniteSet(Range(s)) /\ Cardinality(Range(s)) = Len(s) /\ Len(s) \in Nat
<1>1. Len(s) \in Nat /\ DOMAIN s = 1 .. Len(s)
  OBVIOUS
<1>2. IsFiniteSet(1 .. Len(s)) /\ Cardinality(1 .. Len(s)) = Len(s)
  BY <1>1, FS_Interval
<1>3. s \in Injection(1 .. Len(s), Range(s)) /\ s \in Surjection(1 .. Len(s), Range(s))
  BY <1>1 DEF Injection, Surjection, Range
<1>4. IsFiniteSet(Range(s)) /\ (Cardinality(Range(s)) = Cardinality(1 .. Len(s)))
  BY <1>2, <1>3, FS_Surjection
<1> QED
  BY <1>1, <1>2, <1>4

-----------------------------------------------------------------------------
(* Places.                                                                 *)
LEMMA PlacesAre ==
    /\ "register" \in Places /\ "task" \in Places /\ Kinds \subseteq Places
    /\ "register" \notin Kinds /\ "task" \notin Kinds
    /\ \A x \in Places : x = "register" \/ x = "task" \/ x \in Kinds
  BY DEF Places, Kinds

LEMMA HeldAtIs ==
    ASSUME NEW n
    PROVE  /\ HeldAt(n)["register"] = callbacks[n]
           /\ HeldAt(n)["task"] = task[n].callers
           /\ \A kind \in Kinds : HeldAt(n)[kind] = Range(ops[n][kind])
  BY PlacesAre DEF HeldAt, Holds, Callers

LEMMA HeldAtType ==
    ASSUME ServerTypes, NEW n \in Nodes
    PROVE  HeldAt(n) \in [Places -> SUBSET Peers]
<1>1. \A kind \in Kinds : ops[n][kind] \in Seq(Peers)
  BY DEF ServerTypes
<1>2. \A kind \in Kinds : Range(ops[n][kind]) \subseteq Peers
  BY <1>1, RangeOfSequence
<1>3. callbacks[n] \subseteq Peers /\ task[n].callers \subseteq Peers
  BY DEF ServerTypes
<1>4. \A x \in Places : HeldAt(n)[x] \subseteq Peers
  BY <1>2, <1>3, PlacesAre, HeldAtIs
<1> QED
  BY <1>4 DEF HeldAt

(* A peer comes to a place. *)
LEMMA PartedAdd ==
    ASSUME NEW waiting, NEW at \in [Places -> SUBSET Peers], Parted(waiting, at),
           NEW p \in Peers, p \notin waiting, NEW x \in Places
    PROVE  Parted(waiting \cup {p}, [at EXCEPT ![x] = @ \cup {p}])
<1> DEFINE new == [at EXCEPT ![x] = @ \cup {p}]
<1>1. \A y \in Places : new[y] = IF y = x THEN at[x] \cup {p} ELSE at[y]
  OBVIOUS
<1>2. \A y \in Places : p \notin at[y]
  BY DEF Parted
<1> HIDE DEF new
<1> QED
  BY <1>1, <1>2 DEF Parted, new

(* All in a place are answered. *)
LEMMA PartedEmpty ==
    ASSUME NEW waiting, NEW at \in [Places -> SUBSET Peers], Parted(waiting, at),
           NEW x \in Places
    PROVE  Parted(waiting \ at[x], [at EXCEPT ![x] = {}])
<1> DEFINE new == [at EXCEPT ![x] = {}]
<1>1. \A y \in Places : new[y] = IF y = x THEN {} ELSE at[y]
  OBVIOUS
<1> HIDE DEF new
<1> QED
  BY <1>1 DEF Parted, new

(* All in a place move to one that is empty. *)
LEMMA PartedMove ==
    ASSUME NEW waiting, NEW at \in [Places -> SUBSET Peers], Parted(waiting, at),
           NEW x \in Places, NEW y \in Places, x # y, at[y] = {}
    PROVE  Parted(waiting, [at EXCEPT ![x] = {}, ![y] = at[x]])
<1> DEFINE new == [at EXCEPT ![x] = {}, ![y] = at[x]]
<1>1. \A z \in Places : new[z] = IF z = y THEN at[x] ELSE IF z = x THEN {} ELSE at[z]
  OBVIOUS
<1> HIDE DEF new
<1> QED
  BY <1>1 DEF Parted, new

-----------------------------------------------------------------------------
LEMMA HeldIffParted ==
    (\A n \in Nodes : alive[n] => Parted(WaitingAt(n), HeldAt(n))) => CallbacksHeld
<1>1. ASSUME \A n \in Nodes : alive[n] => Parted(WaitingAt(n), HeldAt(n)),
             NEW p \in Peers, alive[NodeOf[p]]
      PROVE  /\ Waiting(p) <=> \E place \in Places : p \in Holds(NodeOf[p], place)
             /\ \A x, y \in Places :
                   p \in Holds(NodeOf[p], x) /\ p \in Holds(NodeOf[p], y) => x = y
  <2>1. Parted(WaitingAt(NodeOf[p]), HeldAt(NodeOf[p]))
    BY <1>1, PeersAssumption
  <2>2. \A x \in Places : HeldAt(NodeOf[p])[x] = Holds(NodeOf[p], x)
    BY DEF HeldAt
  <2>3. p \in WaitingAt(NodeOf[p]) <=> Waiting(p)
    BY DEF WaitingAt
  <2> QED
    BY <2>1, <2>2, <2>3 DEF Parted
<1> QED
  BY <1>1 DEF CallbacksHeld

(* Who waits after a step. *)
LEMMA ClientStep ==
    ASSUME ClientTypes, NEW called \in SUBSET Peers, NEW to \in SUBSET Peers,
           \A p \in called : ~Waiting(p),
           \A p \in to : Waiting(p) \/ p \in called,
           CallsOf(called), AnswersTo(to)
    PROVE  /\ ClientTypes'
           /\ \A p \in Peers : Waiting(p)' <=> (Waiting(p) \/ p \in called) /\ p \notin to
<1>1. calls' \in [Peers -> Nat]
  BY DEF CallsOf, ClientTypes
<1>2. DOMAIN results' = Peers
  BY DEF AnswersTo
<1>3. ASSUME NEW p \in Peers
      PROVE  /\ IsSequence(results'[p])
             /\ Len(results'[p]) \in {calls'[p], calls'[p] - 1}
             /\ Waiting(p)' <=> (Waiting(p) \/ p \in called) /\ p \notin to
  <2>1. /\ calls[p] \in Nat /\ Len(results[p]) \in {calls[p], calls[p] - 1}
        /\ IsSequence(results[p])
    BY DEF ClientTypes
  <2>2. calls'[p] = IF p \in called THEN calls[p] + 1 ELSE calls[p]
    BY DEF CallsOf
  <2>3. /\ IsSequence(results'[p])
        /\ Len(results'[p]) = IF p \in to THEN Len(results[p]) + 1 ELSE Len(results[p])
    BY <2>1, Appended DEF AnswersTo
  <2> QED
    BY <2>1, <2>2, <2>3 DEF Waiting
<1> QED
  BY <1>1, <1>2, <1>3 DEF ClientTypes

(* A step of the server of one node and of its peers.                      *)
LEMMA ServerStep ==
    ASSUME IInv, NEW n \in Nodes, NEW called \in SUBSET Peers, NEW to \in SUBSET Peers,
           \A p \in called : NodeOf[p] = n /\ p \notin WaitingAt(n),
           to \subseteq WaitingAt(n) \cup called,
           CallsOf(called), AnswersTo(to),
           ServerTypes', Tasks',
           \A m \in Nodes \ {n} : /\ callbacks'[m] = callbacks[m] /\ ops'[m] = ops[m]
                                  /\ task'[m] = task[m] /\ alive'[m] = alive[m],
           alive'[n] => Parted((WaitingAt(n) \cup called) \ to, HeldAt(n)')
    PROVE  IInv'
<1>1. ClientTypes
  BY DEF IInv
<1>2. \A p \in called : ~Waiting(p)
  BY DEF WaitingAt
<1>3. \A p \in to : NodeOf[p] = n /\ (Waiting(p) \/ p \in called)
  BY DEF WaitingAt
<1>4. /\ ClientTypes'
      /\ \A p \in Peers : Waiting(p)' <=> (Waiting(p) \/ p \in called) /\ p \notin to
  BY <1>1, <1>2, <1>3, ClientStep
<1>5. WaitingAt(n)' = (WaitingAt(n) \cup called) \ to
  BY <1>4 DEF WaitingAt
<1>6. ASSUME NEW m \in Nodes, alive'[m] PROVE Parted(WaitingAt(m), HeldAt(m))'
  <2>1. CASE m = n
    BY <1>5, <1>6, <2>1 DEF Parted
  <2>2. CASE m # n
    <3>1. WaitingAt(m)' = WaitingAt(m)
      BY <1>3, <1>4, <2>2 DEF WaitingAt
    <3>2. HeldAt(m)' = HeldAt(m)
      <4>1. callbacks'[m] = callbacks[m] /\ ops'[m] = ops[m] /\ task'[m] = task[m]
        BY <2>2
      <4>2. \A x \in Places : Holds(m, x)' = Holds(m, x)
        BY <4>1, PlacesAre, Zenon DEF Holds, Callers
      <4> QED
        BY <4>2 DEF HeldAt
    <3>3. alive[m]
      BY <1>6, <2>2
    <3>4. Parted(WaitingAt(m), HeldAt(m))
      BY <3>3 DEF IInv
    <3> QED
      BY <3>1, <3>2, <3>4 DEF Parted
  <2> QED
    BY <2>1, <2>2
<1> QED
  BY <1>4, <1>6 DEF IInv

LEMMA NobodyAnswered == ASSUME IInv, UNCHANGED results PROVE AnswersTo({})
  BY DEF IInv, ClientTypes, AnswersTo

LEMMA NobodyCalls == ASSUME IInv, UNCHANGED calls PROVE CallsOf({})
  BY DEF IInv, ClientTypes, CallsOf

LEMMA MakesCall ==
    ASSUME IInv, NEW p \in Peers, NEW kinds, Makes(p, kinds)
    PROVE  CallsOf({p}) /\ p \notin WaitingAt(NodeOf[p]) /\ NextCall(p).kind \in kinds
<1>1. calls \in [Peers -> Nat]
  BY DEF IInv, ClientTypes
<1> QED
  BY <1>1 DEF Makes, CallsOf, WaitingAt

(* The server that handles a call is alive and awaits nothing, and the     *)
(* caller is not yet in any place.                                         *)
Handles(n, p) ==
    /\ n \in Nodes /\ NodeOf[p] = n
    /\ CallsOf({p})
    /\ p \notin WaitingAt(n)
    /\ alive[n] /\ task[n] = Idle
    /\ HeldAt(n) \in [Places -> SUBSET Peers]
    /\ HeldAt(n)["task"] = {}
    /\ Parted(WaitingAt(n), HeldAt(n))

LEMMA HandlesCall ==
    ASSUME IInv, NEW p \in Peers, NEW kinds, Handle(p, kinds)
    PROVE  Handles(NodeOf[p], p) /\ NextCall(p).kind \in kinds
<1> DEFINE n == NodeOf[p]
<1>1. n \in Nodes
  BY PeersAssumption
<1>2. alive[n] /\ task[n] = Idle /\ Makes(p, kinds)
  BY DEF Handle
<1>3. HeldAt(n)["task"] = {}
  BY <1>2, HeldAtIs DEF Idle
<1>4. Parted(WaitingAt(n), HeldAt(n))
  BY <1>1, <1>2 DEF IInv
<1>5. CallsOf({p}) /\ p \notin WaitingAt(n) /\ NextCall(p).kind \in kinds
  BY <1>2, MakesCall
<1>6. HeldAt(n) \in [Places -> SUBSET Peers]
  BY <1>1, HeldAtType DEF IInv
<1> QED
  BY <1>1, <1>2, <1>3, <1>4, <1>5, <1>6 DEF Handles

-----------------------------------------------------------------------------
(* What the steps have in common.  A call that is answered at once:        *)
LEMMA ReplyStep ==
    ASSUME IInv, NEW p \in Peers, NEW kinds, Makes(p, kinds), AnswersTo({p}),
           UNCHANGED <<callbacks, ops, task, alive>>
    PROVE  IInv'
<1> DEFINE n == NodeOf[p]
<1>1. n \in Nodes
  BY PeersAssumption
<1>2. CallsOf({p}) /\ p \notin WaitingAt(n)
  BY MakesCall
<1>3. ServerTypes' /\ Tasks'
  BY DEF IInv, ServerTypes, Tasks
<1>4. HeldAt(n)' = HeldAt(n)
  BY DEF HeldAt, Holds, Callers
<1>5. (WaitingAt(n) \cup {p}) \ {p} = WaitingAt(n)
  BY <1>2
<1>6. alive'[n] => Parted((WaitingAt(n) \cup {p}) \ {p}, HeldAt(n)')
  BY <1>1, <1>4, <1>5 DEF IInv
<1> HIDE DEF n
<1> QED
  BY <1>1, <1>2, <1>3, <1>6, ServerStep DEF n

(* One place is changed.                                                   *)
LEMMA OpsChanged ==
    ASSUME ServerTypes, NEW n \in Nodes, NEW kind \in Kinds, NEW s \in Seq(Peers),
           ops' = [ops EXCEPT ![n][kind] = s]
    PROVE  /\ ops' \in [Nodes -> [Kinds -> Seq(Peers)]]
           /\ \A m \in Nodes \ {n} : ops'[m] = ops[m]
           /\ ops'[n][kind] = s
           /\ \A k \in Kinds \ {kind} : ops'[n][k] = ops[n][k]
<1>1. ops \in [Nodes -> [Kinds -> Seq(Peers)]]
  BY DEF ServerTypes
<1>2. ops[n] \in [Kinds -> Seq(Peers)]
  BY <1>1
<1>3. ops' = [ops EXCEPT ![n] = [ops[n] EXCEPT ![kind] = s]]
  BY <1>1
<1>4. [ops[n] EXCEPT ![kind] = s] \in [Kinds -> Seq(Peers)]
  BY <1>2
<1>5. ops'[n] = [ops[n] EXCEPT ![kind] = s]
  BY <1>1, <1>3
<1> QED
  BY <1>1, <1>2, <1>3, <1>4, <1>5

LEMMA HeldAtNext ==
    ASSUME NEW n
    PROVE  /\ HeldAt(n)'["register"] = callbacks'[n]
           /\ HeldAt(n)'["task"] = task'[n].callers
           /\ \A k \in Kinds : HeldAt(n)'[k] = Range(ops'[n][k])
           /\ HeldAt(n)' = [x \in Places |-> HeldAt(n)'[x]]
  BY PlacesAre DEF HeldAt, Holds, Callers

LEMMA OpsHeld ==
    ASSUME ServerTypes, NEW n \in Nodes, NEW kind \in Kinds, NEW s \in Seq(Peers),
           ops' = [ops EXCEPT ![n][kind] = s], UNCHANGED <<callbacks, task>>
    PROVE  HeldAt(n)' = [HeldAt(n) EXCEPT ![kind] = Range(s)]
<1>1. /\ ops'[n][kind] = s
      /\ \A k \in Kinds \ {kind} : ops'[n][k] = ops[n][k]
  BY OpsChanged
<1>2. HeldAt(n)'["register"] = HeldAt(n)["register"] /\ HeldAt(n)'["task"] = HeldAt(n)["task"]
  BY HeldAtIs, HeldAtNext
<1>3. HeldAt(n)'[kind] = Range(s)
  BY <1>1, HeldAtNext
<1>4. ASSUME NEW k \in Kinds \ {kind} PROVE HeldAt(n)'[k] = HeldAt(n)[k]
  <2>1. HeldAt(n)'[k] = Range(ops'[n][k])
    BY HeldAtNext
  <2>2. HeldAt(n)[k] = Range(ops[n][k])
    BY HeldAtIs
  <2> QED
    BY <1>1, <2>1, <2>2
<1>5. \A x \in Places :
         HeldAt(n)'[x] = IF x = kind THEN Range(s) ELSE HeldAt(n)[x]
  BY <1>2, <1>3, <1>4, PlacesAre
<1> QED
  BY <1>5, HeldAtNext, PlacesAre DEF HeldAt

LEMMA CallbacksHeldAt ==
    ASSUME ServerTypes, NEW n \in Nodes, NEW held,
           callbacks' = [callbacks EXCEPT ![n] = held], UNCHANGED <<ops, task>>
    PROVE  HeldAt(n)' = [HeldAt(n) EXCEPT !["register"] = held]
<1>1. callbacks'[n] = held
  BY DEF ServerTypes
<1>2. HeldAt(n)'["register"] = held
  BY <1>1, HeldAtNext
<1>3. HeldAt(n)'["task"] = HeldAt(n)["task"]
  BY HeldAtIs, HeldAtNext
<1>4. \A kind \in Kinds : HeldAt(n)'[kind] = HeldAt(n)[kind]
  BY HeldAtIs, HeldAtNext
<1>5. \A x \in Places :
         HeldAt(n)'[x] = IF x = "register" THEN held ELSE HeldAt(n)[x]
  BY <1>2, <1>3, <1>4, PlacesAre
<1> QED
  BY <1>5, HeldAtNext, PlacesAre DEF HeldAt

LEMMA TaskHeld ==
    ASSUME ServerTypes, NEW n \in Nodes, NEW new,
           task' = [task EXCEPT ![n] = new], UNCHANGED <<ops, callbacks>>
    PROVE  HeldAt(n)' = [HeldAt(n) EXCEPT !["task"] = new.callers]
<1>1. task'[n] = new
  BY DEF ServerTypes
<1>2. HeldAt(n)'["task"] = new.callers
  BY <1>1, HeldAtNext
<1>3. HeldAt(n)'["register"] = HeldAt(n)["register"]
  BY HeldAtIs, HeldAtNext
<1>4. \A kind \in Kinds : HeldAt(n)'[kind] = HeldAt(n)[kind]
  BY HeldAtIs, HeldAtNext
<1>5. \A x \in Places :
         HeldAt(n)'[x] = IF x = "task" THEN new.callers ELSE HeldAt(n)[x]
  BY <1>2, <1>3, <1>4, PlacesAre
<1> QED
  BY <1>5, HeldAtNext, PlacesAre DEF HeldAt

LEMMA OpsEmptied ==
    ASSUME ServerTypes, NEW n \in Nodes, NEW kind \in Kinds,
           ops' = [ops EXCEPT ![n][kind] = <<>>], UNCHANGED <<callbacks, task>>
    PROVE  HeldAt(n)' = [HeldAt(n) EXCEPT ![kind] = {}]
<1>1. <<>> \in Seq(Peers)
  OBVIOUS
<1> QED
  BY <1>1, OpsHeld, RangeOfEmpty

(* The server of n has handled a call of p, and answered some peers.       *)
LEMMA HandledStep ==
    ASSUME IInv, NEW p \in Peers, NEW n, Handles(n, p), NEW to \in SUBSET Peers,
           to \subseteq WaitingAt(n) \cup {p}, AnswersTo(to),
           ServerTypes', Tasks',
           \A m \in Nodes \ {n} : callbacks'[m] = callbacks[m] /\ ops'[m] = ops[m],
           \A m \in Nodes \ {n} : task'[m] = task[m] /\ alive'[m] = alive[m],
           alive'[n] => Parted((WaitingAt(n) \cup {p}) \ to, HeldAt(n)')
    PROVE  IInv'
<1>1. n \in Nodes /\ CallsOf({p})
  BY DEF Handles
<1>2. \A q \in {p} : NodeOf[q] = n /\ q \notin WaitingAt(n)
  BY DEF Handles
<1>3. {p} \in SUBSET Peers
  OBVIOUS
<1>4. \A m \in Nodes \ {n} : /\ callbacks'[m] = callbacks[m] /\ ops'[m] = ops[m]
                             /\ task'[m] = task[m] /\ alive'[m] = alive[m]
  OBVIOUS
<1> QED
  BY <1>1, <1>2, <1>3, <1>4, ServerStep

(* An operation ends: its callers are answered, or, if the handler panics, *)
(* all that wait.                                                          *)
LEMMA OperationEnds ==
    ASSUME IInv, NEW p \in Peers, NEW n, Handles(n, p), NEW kind \in Kinds, NEW panics \in BOOLEAN,
           ops' = [ops EXCEPT ![n][kind] = <<>>], UNCHANGED <<callbacks, task>>,
           alive' = [alive EXCEPT ![n] = ~panics],
           AnswersTo(IF panics THEN WaitingAt(n) \cup {p} ELSE Range(ops[n][kind]) \cup {p})
    PROVE  IInv'
<1> DEFINE to == IF panics THEN WaitingAt(n) \cup {p} ELSE Range(ops[n][kind]) \cup {p}
<1>1. /\ n \in Nodes /\ NodeOf[p] = n /\ CallsOf({p}) /\ p \notin WaitingAt(n) /\ task[n] = Idle
      /\ HeldAt(n) \in [Places -> SUBSET Peers] /\ Parted(WaitingAt(n), HeldAt(n))
  BY DEF Handles
<1>2. ServerTypes /\ Tasks
  BY DEF IInv
<1>3. /\ ops' \in [Nodes -> [Kinds -> Seq(Peers)]]
      /\ \A m \in Nodes \ {n} : ops'[m] = ops[m]
  <2>1. <<>> \in Seq(Peers)
    OBVIOUS
  <2> QED
    BY <1>1, <1>2, <2>1, OpsChanged
<1>4. /\ ServerTypes'
      /\ \A m \in Nodes \ {n} : task'[m] = task[m] /\ alive'[m] = alive[m]
      /\ \A m \in Nodes \ {n} : callbacks'[m] = callbacks[m] /\ ops'[m] = ops[m]
  BY <1>1, <1>2, <1>3 DEF ServerTypes
<1>5. Tasks'
  BY <1>1, <1>2 DEF Tasks, ServerTypes, Idle
<1>6. HeldAt(n)' = [HeldAt(n) EXCEPT ![kind] = {}]
  BY <1>1, <1>2, OpsEmptied
<1>7. HeldAt(n)[kind] = Range(ops[n][kind]) /\ kind \in Places
  BY HeldAtIs, PlacesAre
<1>8. HeldAt(n)[kind] \subseteq WaitingAt(n)
  BY <1>1, <1>7 DEF Parted
<1>9. to \subseteq WaitingAt(n) \cup {p} /\ to \in SUBSET Peers
  BY <1>7, <1>8 DEF WaitingAt
<1>10. alive'[n] => Parted((WaitingAt(n) \cup {p}) \ to, HeldAt(n)')
  <2>1. HAVE alive'[n]
  <2>2. ~panics
    BY <1>1, <1>2, <2>1 DEF ServerTypes
  <2>3. (WaitingAt(n) \cup {p}) \ to = WaitingAt(n) \ HeldAt(n)[kind]
    BY <1>1, <1>7, <1>8, <2>2
  <2>4. Parted(WaitingAt(n) \ HeldAt(n)[kind], [HeldAt(n) EXCEPT ![kind] = {}])
    BY <1>1, <1>7, PartedEmpty
  <2> QED
    BY <1>6, <2>3, <2>4
<1>11. AnswersTo(to)
  OBVIOUS
<1> HIDE DEF to
<1> QED
  BY <1>4, <1>5, <1>9, <1>10, <1>11, HandledStep

-----------------------------------------------------------------------------
(* The steps.  The server answers nobody, and has the callback of the      *)
(* caller now.                                                             *)
LEMMA OpWaitsStep == ASSUME IInv, NEW p \in Peers, OpWaits(p) PROVE IInv'
<1> DEFINE n == NodeOf[p]
           kind == NextCall(p).kind
           joined == Append(ops[n][kind], p)
<1>1. Handles(n, p) /\ kind \in Kinds
  BY HandlesCall DEF OpWaits, Joins
<1>2. /\ n \in Nodes /\ CallsOf({p}) /\ p \notin WaitingAt(n)
      /\ HeldAt(n) \in [Places -> SUBSET Peers] /\ Parted(WaitingAt(n), HeldAt(n))
  BY <1>1 DEF Handles
<1>3. ops' = [ops EXCEPT ![n][kind] = joined] /\ UNCHANGED <<callbacks, task, alive, results>>
  BY DEF OpWaits
<1>4. ServerTypes /\ Tasks /\ ops[n][kind] \in Seq(Peers)
  BY <1>1, <1>2 DEF IInv, ServerTypes
<1>5. joined \in Seq(Peers) /\ Range(joined) = Range(ops[n][kind]) \cup {p}
  BY <1>4, RangeOfAppend
<1> HIDE DEF joined, n, kind
<1>6. /\ ops' \in [Nodes -> [Kinds -> Seq(Peers)]]
      /\ \A m \in Nodes \ {n} : ops'[m] = ops[m]
  BY <1>1, <1>2, <1>3, <1>4, <1>5, OpsChanged
<1>7. ServerTypes' /\ Tasks'
  BY <1>3, <1>4, <1>6 DEF ServerTypes, Tasks
<1>8. HeldAt(n)' = [HeldAt(n) EXCEPT ![kind] = Range(joined)]
  BY <1>1, <1>2, <1>3, <1>4, <1>5, OpsHeld
<1>9. HeldAt(n)[kind] = Range(ops[n][kind]) /\ kind \in Places
  BY <1>1, HeldAtIs, PlacesAre
<1>10. Parted(WaitingAt(n) \cup {p}, [HeldAt(n) EXCEPT ![kind] = @ \cup {p}])
  BY <1>2, <1>9, PartedAdd
<1>11. Parted((WaitingAt(n) \cup {p}) \ {}, HeldAt(n)')
  <2>1. (WaitingAt(n) \cup {p}) \ {} = WaitingAt(n) \cup {p}
    OBVIOUS
  <2>2. HeldAt(n)' = [HeldAt(n) EXCEPT ![kind] = @ \cup {p}]
    BY <1>5, <1>8, <1>9
  <2> QED
    BY <1>10, <2>1, <2>2
<1>12. AnswersTo({}) /\ {} \in SUBSET Peers /\ {} \subseteq WaitingAt(n) \cup {p}
  BY <1>3, NobodyAnswered
<1>13. /\ \A m \in Nodes \ {n} : callbacks'[m] = callbacks[m] /\ ops'[m] = ops[m]
       /\ \A m \in Nodes \ {n} : task'[m] = task[m] /\ alive'[m] = alive[m]
  BY <1>3, <1>6
<1> QED
  BY <1>1, <1>7, <1>11, <1>12, <1>13, HandledStep

(* The others, who have called, get the error. *)
LEMMA OpMismatchStep == ASSUME IInv, NEW p \in Peers, OpMismatch(p) PROVE IInv'
<1> DEFINE n == NodeOf[p]
           kind == NextCall(p).kind
<1>1. Handles(n, p) /\ kind \in Kinds
  BY HandlesCall DEF OpMismatch
<1>2. ops' = [ops EXCEPT ![n][kind] = <<>>] /\ UNCHANGED <<callbacks, task, alive>>
  BY DEF OpMismatch, OpFails
<1>3. AnswersTo(Range(ops[n][kind]) \cup {p})
  BY DEF OpMismatch, Answer, AnswersTo, Callers
<1>4. alive[n] /\ alive \in [Nodes -> BOOLEAN]
  BY <1>1 DEF Handles, IInv, ServerTypes
<1>5. alive' = [alive EXCEPT ![n] = ~FALSE]
  BY <1>2, <1>4
<1> HIDE DEF n, kind
<1> QED
  BY <1>1, <1>2, <1>3, <1>5, OperationEnds

(* The operation is done, or panics. *)
LEMMA ExecuteStep ==
    ASSUME IInv, NEW p \in Peers, Handles(NodeOf[p], p), NextCall(p).kind \in Kinds,
           NEW panics \in BOOLEAN,
           ops' = [ops EXCEPT ![NodeOf[p]][NextCall(p).kind] = <<>>],
           alive' = [alive EXCEPT ![NodeOf[p]] = ~panics],
           UNCHANGED <<callbacks, task>>,
           panics => AnswersTo({q \in Peers : NodeOf[q] = NodeOf[p] /\ (Waiting(q) \/ q = p)}),
           ~panics => AnswersTo(Range(AllCallers(p)))
    PROVE  IInv'
<1> DEFINE n == NodeOf[p]
           kind == NextCall(p).kind
<1>1. {q \in Peers : NodeOf[q] = n /\ (Waiting(q) \/ q = p)} = WaitingAt(n) \cup {p}
  BY DEF WaitingAt
<1>2. Range(AllCallers(p)) = Range(ops[n][kind]) \cup {p}
  <2>1. ops[n][kind] \in Seq(Peers)
    BY PeersAssumption DEF IInv, ServerTypes
  <2> QED
    BY <2>1, RangeOfAppend DEF AllCallers
<1>3. AnswersTo(IF panics THEN WaitingAt(n) \cup {p} ELSE Range(ops[n][kind]) \cup {p})
  BY <1>1, <1>2
<1> HIDE DEF n, kind
<1> QED
  BY <1>3, OperationEnds DEF n, kind

LEMMA LocalAllReduceStep == ASSUME IInv, NEW p \in Peers, LocalAllReduce(p) PROVE IInv'
<1>1. Handles(NodeOf[p], p) /\ NextCall(p).kind \in Kinds
  BY HandlesCall DEF LocalAllReduce, Joins, Kinds
<1>2. RingPanics(p) \in BOOLEAN
  BY DEF RingPanics
<1>3. /\ ops' = [ops EXCEPT ![NodeOf[p]][NextCall(p).kind] = <<>>]
      /\ alive' = [alive EXCEPT ![NodeOf[p]] = ~RingPanics(p)]
      /\ UNCHANGED <<callbacks, task>>
  BY DEF LocalAllReduce, Execute
<1>4. RingPanics(p) =>
         AnswersTo({q \in Peers : NodeOf[q] = NodeOf[p] /\ (Waiting(q) \/ q = p)})
  BY DEF LocalAllReduce, Execute, Answer, AnswersTo
<1>5. ~RingPanics(p) => AnswersTo(Range(AllCallers(p)))
  BY DEF LocalAllReduce, Execute, Answer, AnswersTo
<1> QED
  BY <1>1, <1>2, <1>3, <1>4, <1>5, ExecuteStep

LEMMA GlobalAllReduceFailsStep == ASSUME IInv, NEW p \in Peers, GlobalAllReduceFails(p) PROVE IInv'
<1>1. Handles(NodeOf[p], p) /\ NextCall(p).kind \in Kinds
  BY HandlesCall DEF GlobalAllReduceFails, Joins, Kinds
<1>2. /\ ops' = [ops EXCEPT ![NodeOf[p]][NextCall(p).kind] = <<>>]
      /\ alive' = [alive EXCEPT ![NodeOf[p]] = ~FALSE]
      /\ UNCHANGED <<callbacks, task>>
  BY DEF GlobalAllReduceFails, Execute
<1>3. AnswersTo(Range(AllCallers(p)))
  BY DEF GlobalAllReduceFails, Execute, Answer, AnswersTo
<1> QED
  BY <1>1, <1>2, <1>3, ExecuteStep

LEMMA LocalReduceStep == ASSUME IInv, NEW p \in Peers, LocalReduceReturns(p) PROVE IInv'
<1> DEFINE panics == client[NodeOf[p]] # NoClient \/ NextCall(p).root \notin Range(AllCallers(p))
<1>1. Handles(NodeOf[p], p) /\ NextCall(p).kind \in Kinds
  BY HandlesCall DEF LocalReduceReturns, Joins, Kinds
<1>2. panics \in BOOLEAN
  OBVIOUS
<1>3. /\ ops' = [ops EXCEPT ![NodeOf[p]][NextCall(p).kind] = <<>>]
      /\ alive' = [alive EXCEPT ![NodeOf[p]] = ~panics]
      /\ UNCHANGED <<callbacks, task>>
  BY DEF LocalReduceReturns, Execute
<1>4. panics => AnswersTo({q \in Peers : NodeOf[q] = NodeOf[p] /\ (Waiting(q) \/ q = p)})
  BY DEF LocalReduceReturns, Execute, Answer, AnswersTo
<1>5. ~panics => AnswersTo(Range(AllCallers(p)))
  BY DEF LocalReduceReturns, Execute, Answer, AnswersTo
<1> HIDE DEF panics
<1> QED
  BY <1>1, <1>2, <1>3, <1>4, <1>5, ExecuteStep

LEMMA LocalBroadcastStep == ASSUME IInv, NEW p \in Peers, LocalBroadcastReturns(p) PROVE IInv'
<1> DEFINE panics == client[NodeOf[p]] # NoClient
<1>1. Handles(NodeOf[p], p) /\ NextCall(p).kind \in Kinds
  BY HandlesCall DEF LocalBroadcastReturns, Joins, Kinds
<1>2. panics \in BOOLEAN
  OBVIOUS
<1>3. /\ ops' = [ops EXCEPT ![NodeOf[p]][NextCall(p).kind] = <<>>]
      /\ alive' = [alive EXCEPT ![NodeOf[p]] = ~panics]
      /\ UNCHANGED <<callbacks, task>>
  BY DEF LocalBroadcastReturns, Execute
<1>4. panics => AnswersTo({q \in Peers : NodeOf[q] = NodeOf[p] /\ (Waiting(q) \/ q = p)})
  BY DEF LocalBroadcastReturns, Execute, Answer, AnswersTo
<1>5. ~panics => AnswersTo(Range(AllCallers(p)))
  BY DEF LocalBroadcastReturns, Execute, Answer, AnswersTo
<1> HIDE DEF panics
<1> QED
  BY <1>1, <1>2, <1>3, <1>4, <1>5, ExecuteStep

(* The callbacks of the operation go with the global all-reduce. *)
LEMMA GlobalAllReduceStartsStep ==
    ASSUME IInv, NEW p \in Peers, GlobalAllReduceStarts(p) PROVE IInv'
<1> DEFINE n == NodeOf[p]
           kind == "all_reduce"
           joined == AllCallers(p)
<1>1. Handles(n, p) /\ NextCall(p).kind = kind /\ kind \in Kinds
  BY HandlesCall DEF GlobalAllReduceStarts, Joins, Kinds
<1>2. /\ n \in Nodes /\ p \notin WaitingAt(n) /\ HeldAt(n)["task"] = {}
      /\ HeldAt(n) \in [Places -> SUBSET Peers] /\ Parted(WaitingAt(n), HeldAt(n))
  BY <1>1 DEF Handles
<1>3. /\ ops' = [ops EXCEPT ![n][kind] = <<>>]
      /\ task' = [task EXCEPT ![n] = [kind |-> "all_reduce", callers |-> Range(joined)]]
      /\ UNCHANGED <<callbacks, alive, results>>
  BY DEF GlobalAllReduceStarts
<1>4. ServerTypes /\ Tasks /\ ops[n][kind] \in Seq(Peers)
  BY <1>1, <1>2 DEF IInv, ServerTypes
<1>5. joined \in Seq(Peers) /\ Range(joined) = Range(ops[n][kind]) \cup {p}
  BY <1>1, <1>4, RangeOfAppend DEF AllCallers
<1>6. Range(joined) \in SUBSET Peers
  BY <1>5, RangeOfSequence
<1> HIDE DEF joined, n, kind
<1>7. /\ ops' \in [Nodes -> [Kinds -> Seq(Peers)]]
      /\ ops'[n][kind] = <<>>
      /\ \A k \in Kinds \ {kind} : ops'[n][k] = ops[n][k]
      /\ \A m \in Nodes \ {n} : ops'[m] = ops[m]
  <2>1. <<>> \in Seq(Peers)
    OBVIOUS
  <2>2. ServerTypes /\ n \in Nodes /\ kind \in Kinds /\ ops' = [ops EXCEPT ![n][kind] = <<>>]
    BY <1>1, <1>2, <1>3, <1>4
  <2> QED
    BY <2>1, <2>2, OpsChanged
<1>8. task \in [Nodes -> [kind : TaskKinds, callers : SUBSET Peers]]
  BY <1>4 DEF ServerTypes
<1>9. task'[n] = [kind |-> "all_reduce", callers |-> Range(joined)]
  BY <1>2, <1>3, <1>8
<1>10. task' \in [Nodes -> [kind : TaskKinds, callers : SUBSET Peers]]
  BY <1>2, <1>3, <1>6, <1>8 DEF TaskKinds
<1>11. ServerTypes'
  BY <1>3, <1>4, <1>7, <1>10 DEF ServerTypes
<1>12. \A m \in Nodes \ {n} : task'[m] = task[m]
  BY <1>3, <1>8
<1>13. Tasks'
  <2>1. task'[n].kind = "all_reduce" /\ alive[n]
    BY <1>1, <1>9 DEF Handles
  <2> QED
    BY <1>3, <1>4, <1>12, <2>1 DEF Tasks
<1>14. HeldAt(n)[kind] = Range(ops[n][kind]) /\ kind \in Places /\ "task" \in Places /\ kind # "task"
  BY <1>1, HeldAtIs, PlacesAre DEF kind
<1> DEFINE added == [HeldAt(n) EXCEPT ![kind] = @ \cup {p}]
<1>15. Parted(WaitingAt(n) \cup {p}, added) /\ added \in [Places -> SUBSET Peers]
  BY <1>2, <1>14, PartedAdd
<1>16. added[kind] = Range(joined) /\ added["task"] = {}
  BY <1>2, <1>5, <1>14
<1>17. Parted(WaitingAt(n) \cup {p}, [added EXCEPT ![kind] = {}, !["task"] = added[kind]])
  BY <1>14, <1>15, <1>16, PartedMove
<1>18. HeldAt(n)' = [added EXCEPT ![kind] = {}, !["task"] = added[kind]]
  <2>1. \A x \in Places : HeldAt(n)'[x] = IF x = "task" THEN Range(joined)
                                          ELSE IF x = kind THEN {} ELSE HeldAt(n)[x]
    <3>1. HeldAt(n)'["register"] = HeldAt(n)["register"]
      BY <1>3, HeldAtIs, HeldAtNext
    <3>2. HeldAt(n)'["task"] = Range(joined)
      BY <1>9, HeldAtNext
    <3>3. ASSUME NEW k \in Kinds
          PROVE  HeldAt(n)'[k] = IF k = kind THEN {} ELSE HeldAt(n)[k]
      <4>1. HeldAt(n)'[k] = Range(ops'[n][k]) /\ HeldAt(n)[k] = Range(ops[n][k])
        BY HeldAtIs, HeldAtNext
      <4>2. k = kind => ops'[n][k] = <<>>
        BY <1>7
      <4>3. k # kind => ops'[n][k] = ops[n][k]
        BY <1>7
      <4> QED
        BY <4>1, <4>2, <4>3, RangeOfEmpty
    <3> QED
      BY <1>1, <3>1, <3>2, <3>3, PlacesAre
  <2> QED
    BY <1>2, <1>14, <1>16, <2>1, HeldAtNext
<1>19. Parted((WaitingAt(n) \cup {p}) \ {}, HeldAt(n)')
  <2>1. (WaitingAt(n) \cup {p}) \ {} = WaitingAt(n) \cup {p}
    OBVIOUS
  <2> QED
    BY <1>17, <1>18, <2>1
<1>20. AnswersTo({}) /\ {} \in SUBSET Peers /\ {} \subseteq WaitingAt(n) \cup {p}
  BY <1>3, NobodyAnswered
<1>21. /\ \A m \in Nodes \ {n} : callbacks'[m] = callbacks[m] /\ ops'[m] = ops[m]
       /\ \A m \in Nodes \ {n} : task'[m] = task[m] /\ alive'[m] = alive[m]
  BY <1>3, <1>7, <1>12
<1> QED
  BY <1>1, <1>11, <1>13, <1>19, <1>20, <1>21, HandledStep

(* The last peer to register has all answered, if there is no other node,  *)
(* or the server awaits the orchestrator; the others wait.                 *)
LEMMA RegisterPeerStep == ASSUME IInv, NEW p \in Peers, RegisterPeer(p) PROVE IInv'
<1> DEFINE n == NodeOf[p]
           all == callbacks[n] \cup {p}
<1>1. Handles(n, p)
  BY HandlesCall DEF RegisterPeer
<1>2. /\ n \in Nodes /\ p \notin WaitingAt(n) /\ HeldAt(n)["task"] = {} /\ alive[n]
      /\ HeldAt(n) \in [Places -> SUBSET Peers] /\ Parted(WaitingAt(n), HeldAt(n))
      /\ HeldAt(n)["register"] = callbacks[n] /\ "register" \in Places
  BY <1>1, HeldAtIs, PlacesAre DEF Handles
<1>3. UNCHANGED <<ops, alive>>
  BY DEF RegisterPeer
<1>4. ServerTypes /\ Tasks /\ callbacks[n] \in SUBSET Peers /\ callbacks[n] \subseteq WaitingAt(n)
  BY <1>2 DEF IInv, ServerTypes, Parted
<1>5. CASE callbacks' = [callbacks EXCEPT ![n] = all] /\ UNCHANGED <<results, task>>
  <2> HIDE DEF n
  <2>1. ServerTypes' /\ Tasks' /\ \A m \in Nodes \ {n} : callbacks'[m] = callbacks[m]
    BY <1>2, <1>3, <1>4, <1>5 DEF ServerTypes, Tasks
  <2>2. HeldAt(n)' = [HeldAt(n) EXCEPT !["register"] = @ \cup {p}]
    BY <1>2, <1>3, <1>4, <1>5, CallbacksHeldAt
  <2>3. Parted(WaitingAt(n) \cup {p}, [HeldAt(n) EXCEPT !["register"] = @ \cup {p}])
    BY <1>2, PartedAdd
  <2>4. (WaitingAt(n) \cup {p}) \ {} = WaitingAt(n) \cup {p}
    OBVIOUS
  <2>5. Parted((WaitingAt(n) \cup {p}) \ {}, HeldAt(n)')
    BY <2>2, <2>3, <2>4
  <2>6. AnswersTo({}) /\ {} \in SUBSET Peers /\ {} \subseteq WaitingAt(n) \cup {p}
    BY <1>5, NobodyAnswered
  <2>7. /\ \A m \in Nodes \ {n} : callbacks'[m] = callbacks[m] /\ ops'[m] = ops[m]
        /\ \A m \in Nodes \ {n} : task'[m] = task[m] /\ alive'[m] = alive[m]
    BY <1>3, <1>5, <2>1
  <2> QED
    BY <1>1, <2>1, <2>5, <2>6, <2>7, HandledStep
<1>6. CASE callbacks' = [callbacks EXCEPT ![n] = {}] /\ AnswersTo(all) /\ UNCHANGED task
  <2> HIDE DEF n
  <2>1. ServerTypes' /\ Tasks' /\ \A m \in Nodes \ {n} : callbacks'[m] = callbacks[m]
    BY <1>2, <1>3, <1>4, <1>6 DEF ServerTypes, Tasks
  <2>2. HeldAt(n)' = [HeldAt(n) EXCEPT !["register"] = {}]
    BY <1>2, <1>3, <1>4, <1>6, CallbacksHeldAt
  <2>3. Parted(WaitingAt(n) \ callbacks[n], [HeldAt(n) EXCEPT !["register"] = {}])
    BY <1>2, PartedEmpty
  <2>4. (WaitingAt(n) \cup {p}) \ all = WaitingAt(n) \ callbacks[n]
    BY <1>2
  <2>5. Parted((WaitingAt(n) \cup {p}) \ all, HeldAt(n)')
    BY <2>2, <2>3, <2>4
  <2>6. all \in SUBSET Peers /\ all \subseteq WaitingAt(n) \cup {p} /\ AnswersTo(all)
    BY <1>4, <1>6
  <2>7. /\ \A m \in Nodes \ {n} : callbacks'[m] = callbacks[m] /\ ops'[m] = ops[m]
        /\ \A m \in Nodes \ {n} : task'[m] = task[m] /\ alive'[m] = alive[m]
    BY <1>3, <1>6, <2>1
  <2> HIDE DEF all
  <2> QED
    BY <1>1, <2>1, <2>5, <2>6, <2>7, HandledStep
<1>7. CASE /\ callbacks' = [callbacks EXCEPT ![n] = all]
           /\ task' = [task EXCEPT ![n] = [kind |-> "register", callers |-> {}]]
           /\ UNCHANGED results
  <2> HIDE DEF n
  <2>1. ServerTypes' /\ \A m \in Nodes \ {n} : callbacks'[m] = callbacks[m] /\ task'[m] = task[m]
    BY <1>2, <1>3, <1>4, <1>7 DEF ServerTypes, TaskKinds
  <2>2. /\ callbacks'[n] = all
        /\ task'[n].kind = "register" /\ task'[n].callers = {}
    BY <1>2, <1>4, <1>7 DEF ServerTypes
  <2>3. Tasks'
    BY <1>2, <1>3, <1>4, <2>1, <2>2 DEF Tasks
  <2>4. HeldAt(n)' = [HeldAt(n) EXCEPT !["register"] = @ \cup {p}]
    <3>1. HeldAt(n)'["register"] = HeldAt(n)["register"] \cup {p}
      BY <1>2, <2>2, HeldAtNext
    <3>2. HeldAt(n)'["task"] = HeldAt(n)["task"]
      BY <1>2, <2>2, HeldAtNext
    <3>3. \A k \in Kinds : HeldAt(n)'[k] = HeldAt(n)[k]
      BY <1>3, HeldAtIs, HeldAtNext
    <3>4. \A x \in Places : HeldAt(n)'[x] = IF x = "register" THEN HeldAt(n)["register"] \cup {p}
                                            ELSE HeldAt(n)[x]
      BY <3>1, <3>2, <3>3, PlacesAre
    <3> QED
      BY <1>2, <3>4, HeldAtNext
  <2>5. Parted(WaitingAt(n) \cup {p}, [HeldAt(n) EXCEPT !["register"] = @ \cup {p}])
    BY <1>2, PartedAdd
  <2>6. (WaitingAt(n) \cup {p}) \ {} = WaitingAt(n) \cup {p}
    OBVIOUS
  <2>7. Parted((WaitingAt(n) \cup {p}) \ {}, HeldAt(n)')
    BY <2>4, <2>5, <2>6
  <2>8. AnswersTo({}) /\ {} \in SUBSET Peers /\ {} \subseteq WaitingAt(n) \cup {p}
    BY <1>7, NobodyAnswered
  <2>9. /\ \A m \in Nodes \ {n} : callbacks'[m] = callbacks[m] /\ ops'[m] = ops[m]
        /\ \A m \in Nodes \ {n} : task'[m] = task[m] /\ alive'[m] = alive[m]
    BY <1>3, <2>1
  <2> QED
    BY <1>1, <2>1, <2>3, <2>7, <2>8, <2>9, HandledStep
<1>8. \/ callbacks' = [callbacks EXCEPT ![n] = all] /\ UNCHANGED <<results, task>>
      \/ callbacks' = [callbacks EXCEPT ![n] = {}] /\ AnswersTo(all) /\ UNCHANGED task
      \/ /\ callbacks' = [callbacks EXCEPT ![n] = all]
         /\ task' = [task EXCEPT ![n] = [kind |-> "register", callers |-> {}]]
         /\ UNCHANGED results
  BY DEF RegisterPeer, Answer, AnswersTo
<1> QED
  BY <1>5, <1>6, <1>7, <1>8

(* A server that awaits something is alive. *)
LEMMA AwaitsAlive ==
    ASSUME IInv, NEW n \in Nodes, task[n].kind # "idle"
    PROVE  /\ alive[n] /\ Parted(WaitingAt(n), HeldAt(n))
           /\ HeldAt(n) \in [Places -> SUBSET Peers]
           /\ callbacks[n] \in SUBSET Peers /\ callbacks[n] \subseteq WaitingAt(n)
           /\ task[n].callers \in SUBSET Peers /\ task[n].callers \subseteq WaitingAt(n)
<1>1. alive[n]
  BY DEF IInv, Tasks
<1>2. Parted(WaitingAt(n), HeldAt(n))
  BY <1>1 DEF IInv
<1>3. HeldAt(n) \in [Places -> SUBSET Peers]
  BY HeldAtType DEF IInv
<1>4. callbacks[n] = HeldAt(n)["register"] /\ task[n].callers = HeldAt(n)["task"]
  BY HeldAtIs
<1> QED
  BY <1>1, <1>2, <1>3, <1>4, PlacesAre DEF Parted

(* What a server awaits is there: those in one place are answered. *)
LEMMA ReturnStep ==
    ASSUME IInv, NEW n \in Nodes, task[n].kind # "idle", NEW place \in Places,
           UNCHANGED <<calls, ops, alive>>, AnswersTo(HeldAt(n)[place]),
           task' = [task EXCEPT ![n] = Idle],
           \A m \in Nodes \ {n} : callbacks'[m] = callbacks[m],
           callbacks' \in [Nodes -> SUBSET Peers],
           \A x \in Places : HeldAt(n)'[x] = IF x = place THEN {} ELSE HeldAt(n)[x]
    PROVE  IInv'
<1> DEFINE to == HeldAt(n)[place]
<1>1. /\ alive[n] /\ Parted(WaitingAt(n), HeldAt(n))
      /\ HeldAt(n) \in [Places -> SUBSET Peers]
  BY AwaitsAlive
<1>2. ServerTypes /\ Tasks
  BY DEF IInv
<1>3. /\ task'[n] = Idle
      /\ \A m \in Nodes \ {n} : task'[m] = task[m]
      /\ task' \in [Nodes -> [kind : TaskKinds, callers : SUBSET Peers]]
  BY <1>2 DEF ServerTypes, Idle, TaskKinds
<1>4. ServerTypes'
  BY <1>2, <1>3 DEF ServerTypes
<1>5. Tasks'
  <2>1. task'[n].kind = "idle" /\ task'[n].callers = {}
    BY <1>3 DEF Idle
  <2> QED
    BY <1>2, <1>3, <2>1 DEF Tasks
<1>6. HeldAt(n)' = [HeldAt(n) EXCEPT ![place] = {}]
  BY <1>1, HeldAtNext
<1>7. Parted(WaitingAt(n) \ to, [HeldAt(n) EXCEPT ![place] = {}])
  BY <1>1, PartedEmpty
<1>8. (WaitingAt(n) \cup {}) \ to = WaitingAt(n) \ to
  OBVIOUS
<1>9. Parted((WaitingAt(n) \cup {}) \ to, HeldAt(n)')
  BY <1>6, <1>7, <1>8
<1>10. to \in SUBSET Peers /\ to \subseteq WaitingAt(n) \cup {}
  BY <1>1 DEF Parted
<1>11. CallsOf({}) /\ {} \in SUBSET Peers /\ \A q \in {} : NodeOf[q] = n /\ q \notin WaitingAt(n)
  BY NobodyCalls
<1>12. \A m \in Nodes \ {n} : /\ callbacks'[m] = callbacks[m] /\ ops'[m] = ops[m]
                              /\ task'[m] = task[m] /\ alive'[m] = alive[m]
  BY <1>3
<1>13. AnswersTo(to)
  OBVIOUS
<1> HIDE DEF to
<1> QED
  BY <1>4, <1>5, <1>9, <1>10, <1>11, <1>12, <1>13, ServerStep

LEMMA RegisterReturnsStep == ASSUME IInv, NEW n \in Nodes, GlobalRegisterReturns(n) PROVE IInv'
<1>1. /\ task[n].kind = "register"
      /\ UNCHANGED <<calls, ops, alive>>
      /\ callbacks' = [callbacks EXCEPT ![n] = {}]
      /\ task' = [task EXCEPT ![n] = Idle]
  BY DEF GlobalRegisterReturns
<1>2. ServerTypes /\ task[n].callers = {} /\ callbacks[n] \in SUBSET Peers
  BY <1>1 DEF IInv, Tasks, ServerTypes
<1>3. AnswersTo(callbacks[n])
  BY <1>2 DEF GlobalRegisterReturns, Answer, AnswersTo
<1>4. /\ callbacks'[n] = {} /\ callbacks' \in [Nodes -> SUBSET Peers]
      /\ \A m \in Nodes \ {n} : callbacks'[m] = callbacks[m]
      /\ task'[n] = Idle
  BY <1>1, <1>2 DEF ServerTypes
<1>5. task'[n].callers = {}
  BY <1>4 DEF Idle
<1>6. \A x \in Places : HeldAt(n)'[x] = IF x = "register" THEN {} ELSE HeldAt(n)[x]
  <2>1. HeldAt(n)'["register"] = {}
    BY <1>4, HeldAtNext
  <2>2. HeldAt(n)'["task"] = HeldAt(n)["task"]
    BY <1>2, <1>5, HeldAtIs, HeldAtNext
  <2>3. \A k \in Kinds : HeldAt(n)'[k] = HeldAt(n)[k]
    BY <1>1, HeldAtIs, HeldAtNext
  <2> QED
    BY <2>1, <2>2, <2>3, PlacesAre
<1>7. AnswersTo(HeldAt(n)["register"]) /\ "register" \in Places
  BY <1>3, HeldAtIs, PlacesAre
<1>8. task[n].kind # "idle"
  BY <1>1
<1> QED
  BY <1>1, <1>4, <1>6, <1>7, <1>8, ReturnStep

LEMMA TaskReturnsStep ==
    ASSUME IInv, NEW n \in Nodes, task[n].kind # "idle", UNCHANGED <<calls, ops, alive, callbacks>>,
           task' = [task EXCEPT ![n] = Idle], AnswersTo(task[n].callers)
    PROVE  IInv'
<1>1. ServerTypes
  BY DEF IInv
<1>2. task'[n].callers = {} /\ callbacks' \in [Nodes -> SUBSET Peers]
  BY <1>1 DEF ServerTypes, Idle
<1>3. \A x \in Places : HeldAt(n)'[x] = IF x = "task" THEN {} ELSE HeldAt(n)[x]
  <2>1. HeldAt(n)'["register"] = HeldAt(n)["register"]
    BY HeldAtIs, HeldAtNext
  <2>2. HeldAt(n)'["task"] = {}
    BY <1>2, HeldAtNext
  <2>3. \A k \in Kinds : HeldAt(n)'[k] = HeldAt(n)[k]
    BY HeldAtIs, HeldAtNext
  <2> QED
    BY <2>1, <2>2, <2>3, PlacesAre
<1>4. AnswersTo(HeldAt(n)["task"]) /\ "task" \in Places
  BY HeldAtIs, PlacesAre
<1> QED
  BY <1>2, <1>3, <1>4, ReturnStep

LEMMA FinishReturnsStep == ASSUME IInv, NEW n \in Nodes, GlobalFinishReturns(n) PROVE IInv'
<1>1. task[n].kind = "finish" /\ task' = [task EXCEPT ![n] = Idle]
  BY DEF GlobalFinishReturns
<1>2. UNCHANGED <<calls, ops, alive, callbacks>>
  BY DEF GlobalFinishReturns
<1>3. AnswersTo(task[n].callers)
  BY DEF GlobalFinishReturns, Answer, AnswersTo
<1> QED
  BY <1>1, <1>2, <1>3, TaskReturnsStep

LEMMA AllReduceReturnsStep == ASSUME IInv, NEW n \in Nodes, GlobalAllReduceReturns(n) PROVE IInv'
<1>1. task[n].kind = "all_reduce" /\ task' = [task EXCEPT ![n] = Idle]
  BY DEF GlobalAllReduceReturns
<1>2. UNCHANGED <<calls, ops, alive, callbacks>>
  BY DEF GlobalAllReduceReturns
<1>3. AnswersTo(task[n].callers)
  BY DEF GlobalAllReduceReturns, Answer, AnswersTo
<1> QED
  BY <1>1, <1>2, <1>3, TaskReturnsStep

(* A peer that leaves is answered, or awaits the orchestrator. *)
LEMMA FinishPeerStep == ASSUME IInv, NEW p \in Peers, FinishPeer(p) PROVE IInv'
<1> DEFINE n == NodeOf[p]
<1>1. Handle(p, {"finish"}) /\ Handles(n, p)
  BY HandlesCall DEF FinishPeer
<1>2. /\ n \in Nodes /\ p \notin WaitingAt(n) /\ HeldAt(n)["task"] = {} /\ alive[n]
      /\ HeldAt(n) \in [Places -> SUBSET Peers] /\ Parted(WaitingAt(n), HeldAt(n))
  BY <1>1 DEF Handles
<1>3. UNCHANGED <<callbacks, ops, alive>>
  BY DEF FinishPeer
<1>4. ServerTypes /\ Tasks
  BY DEF IInv
<1>5. CASE AnswersTo({p}) /\ UNCHANGED task
  BY <1>1, <1>3, <1>5, ReplyStep DEF Handle
<1>6. CASE /\ task' = [task EXCEPT ![n] = [kind |-> "finish", callers |-> {p}]]
           /\ UNCHANGED results
  <2> HIDE DEF n
  <2>1. /\ task' \in [Nodes -> [kind : TaskKinds, callers : SUBSET Peers]]
        /\ task'[n].kind = "finish" /\ task'[n].callers = {p}
        /\ \A m \in Nodes \ {n} : task'[m] = task[m]
    BY <1>2, <1>4, <1>6 DEF ServerTypes, TaskKinds
  <2>2. ServerTypes'
    BY <1>3, <1>4, <2>1 DEF ServerTypes
  <2>3. Tasks'
    BY <1>2, <1>3, <1>4, <2>1 DEF Tasks
  <2>4. HeldAt(n)' = [HeldAt(n) EXCEPT !["task"] = @ \cup {p}]
    <3>1. HeldAt(n)'["register"] = HeldAt(n)["register"]
      BY <1>3, HeldAtIs, HeldAtNext
    <3>2. HeldAt(n)'["task"] = HeldAt(n)["task"] \cup {p}
      BY <1>2, <2>1, HeldAtNext
    <3>3. \A k \in Kinds : HeldAt(n)'[k] = HeldAt(n)[k]
      BY <1>3, HeldAtIs, HeldAtNext
    <3>4. \A x \in Places : HeldAt(n)'[x] = IF x = "task" THEN HeldAt(n)["task"] \cup {p}
                                            ELSE HeldAt(n)[x]
      BY <3>1, <3>2, <3>3, PlacesAre
    <3> QED
      BY <1>2, <3>4, HeldAtNext
  <2>5. Parted(WaitingAt(n) \cup {p}, [HeldAt(n) EXCEPT !["task"] = @ \cup {p}])
    BY <1>2, PartedAdd, PlacesAre
  <2>6. (WaitingAt(n) \cup {p}) \ {} = WaitingAt(n) \cup {p}
    OBVIOUS
  <2>7. Parted((WaitingAt(n) \cup {p}) \ {}, HeldAt(n)')
    BY <2>4, <2>5, <2>6
  <2>8. AnswersTo({}) /\ {} \in SUBSET Peers /\ {} \subseteq WaitingAt(n) \cup {p}
    BY <1>6, NobodyAnswered
  <2>9. /\ \A m \in Nodes \ {n} : callbacks'[m] = callbacks[m] /\ ops'[m] = ops[m]
        /\ \A m \in Nodes \ {n} : task'[m] = task[m] /\ alive'[m] = alive[m]
    BY <1>3, <2>1
  <2> QED
    BY <1>1, <2>2, <2>3, <2>7, <2>8, <2>9, HandledStep
<1>7. \/ AnswersTo({p}) /\ UNCHANGED task
      \/ /\ task' = [task EXCEPT ![n] = [kind |-> "finish", callers |-> {p}]]
         /\ UNCHANGED results
  BY DEF FinishPeer, Answer, AnswersTo
<1> QED
  BY <1>5, <1>6, <1>7

(* The callers of all operations are answered; who waits for others to     *)
(* register still does.                                                    *)
LEMMA ResetStep == ASSUME IInv, NEW p \in Peers, ResetServer(p) PROVE IInv'
<1> DEFINE n == NodeOf[p]
           to == {p} \cup UNION {Callers(n, kind) : kind \in Kinds}
<1>1. Handles(n, p)
  BY HandlesCall DEF ResetServer
<1>2. /\ n \in Nodes /\ p \notin WaitingAt(n) /\ HeldAt(n)["task"] = {} /\ alive[n]
      /\ HeldAt(n) \in [Places -> SUBSET Peers] /\ Parted(WaitingAt(n), HeldAt(n))
  BY <1>1 DEF Handles
<1>3. UNCHANGED <<callbacks, task, alive>> /\ ops' = [ops EXCEPT ![n] = NoOps] /\ AnswersTo(to)
  BY DEF ResetServer, OpsLeft, Answer, AnswersTo
<1>4. ServerTypes /\ Tasks
  BY DEF IInv
<1>5. NoOps \in [Kinds -> Seq(Peers)] /\ \A k \in Kinds : NoOps[k] = <<>>
  BY DEF NoOps
<1> HIDE DEF n
<1>6. /\ ops' \in [Nodes -> [Kinds -> Seq(Peers)]] /\ ops'[n] = NoOps
      /\ \A m \in Nodes \ {n} : ops'[m] = ops[m]
  BY <1>2, <1>3, <1>4, <1>5 DEF ServerTypes
<1>7. ServerTypes' /\ Tasks'
  BY <1>3, <1>4, <1>6 DEF ServerTypes, Tasks
<1>8. \A x \in Places : HeldAt(n)'[x] = IF x \in Kinds THEN {} ELSE HeldAt(n)[x]
  <2>1. HeldAt(n)'["register"] = HeldAt(n)["register"] /\ HeldAt(n)'["task"] = HeldAt(n)["task"]
    BY <1>3, HeldAtIs, HeldAtNext
  <2>2. \A k \in Kinds : HeldAt(n)'[k] = {}
    BY <1>5, <1>6, HeldAtNext, RangeOfEmpty
  <2> QED
    BY <2>1, <2>2, PlacesAre
<1>9. \A q \in Peers : q \in to <=> q = p \/ \E k \in Kinds : q \in HeldAt(n)[k]
  BY HeldAtIs DEF Callers
<1>10. to \in SUBSET Peers /\ to \subseteq WaitingAt(n) \cup {p}
  <2>1. \A k \in Kinds : HeldAt(n)[k] \subseteq WaitingAt(n)
    BY <1>2, PlacesAre DEF Parted
  <2>2. \A k \in Kinds : Callers(n, k) \subseteq WaitingAt(n)
    BY <2>1, HeldAtIs DEF Callers
  <2> QED
    BY <2>2 DEF WaitingAt
<1> HIDE DEF to
<1>11. Parted((WaitingAt(n) \cup {p}) \ to, HeldAt(n)')
  <2>1. ASSUME NEW q \in Peers
        PROVE  q \in (WaitingAt(n) \cup {p}) \ to <=> \E x \in Places : q \in HeldAt(n)'[x]
    <3>1. q \in WaitingAt(n) <=> \E x \in Places : q \in HeldAt(n)[x]
      BY <1>2 DEF Parted
    <3>2. \A x, y \in Places : q \in HeldAt(n)[x] /\ q \in HeldAt(n)[y] => x = y
      BY <1>2 DEF Parted
    <3>3. CASE q = p
      BY <1>2, <1>8, <1>9, <3>1, <3>3
    <3>4. CASE q # p
      BY <1>8, <1>9, <3>1, <3>2, <3>4, PlacesAre
    <3> QED
      BY <3>3, <3>4
  <2>2. \A q \in Peers : \A x, y \in Places :
           q \in HeldAt(n)'[x] /\ q \in HeldAt(n)'[y] => x = y
    BY <1>2, <1>8 DEF Parted
  <2> QED
    BY <2>1, <2>2 DEF Parted
<1>12. /\ \A m \in Nodes \ {n} : callbacks'[m] = callbacks[m] /\ ops'[m] = ops[m]
       /\ \A m \in Nodes \ {n} : task'[m] = task[m] /\ alive'[m] = alive[m]
  BY <1>3, <1>6
<1> QED
  BY <1>1, <1>3, <1>7, <1>10, <1>11, <1>12, HandledStep

(* The steps of others. *)
LEMMA OtherStep ==
    ASSUME IInv, UNCHANGED <<calls, results, callbacks, ops, task, alive>> PROVE IInv'
<1>1. ClientTypes' /\ ServerTypes' /\ Tasks'
  BY DEF IInv, ClientTypes, ServerTypes, Tasks
<1>2. ASSUME NEW n \in Nodes, alive'[n] PROVE Parted(WaitingAt(n), HeldAt(n))'
  <2>1. Parted(WaitingAt(n), HeldAt(n))
    BY <1>2 DEF IInv
  <2>2. WaitingAt(n)' = WaitingAt(n)
    BY DEF WaitingAt, Waiting
  <2>3. HeldAt(n)' = HeldAt(n)
    BY DEF HeldAt, Holds, Callers
  <2> QED
    BY <2>1, <2>2, <2>3 DEF Parted
<1> QED
  BY <1>1, <1>2 DEF IInv

-----------------------------------------------------------------------------
LEMMA InitHolds == Init => IInv
<1> SUFFICES ASSUME Init PROVE IInv
  OBVIOUS
<1>1. ClientTypes
  <2>1. \A p \in Peers : IsSequence(<<>>) /\ Len(<<>>) = 0
    BY DEF IsSequence
  <2> QED
    BY <2>1 DEF Init, ClientTypes
<1>2. ServerTypes
  BY DEF Init, ServerTypes, NoOps, Idle, TaskKinds
<1>3. Tasks
  BY DEF Init, Tasks, Idle
<1>4. ASSUME NEW n \in Nodes PROVE Parted(WaitingAt(n), HeldAt(n))
  <2>1. callbacks[n] = {} /\ task[n].callers = {}
    BY DEF Init, Idle
  <2>2. \A kind \in Kinds : Range(ops[n][kind]) = {}
    BY RangeOfEmpty DEF Init, NoOps
  <2>3. \A x \in Places : HeldAt(n)[x] = {}
    BY <2>1, <2>2, HeldAtIs, PlacesAre
  <2>4. \A p \in Peers : ~Waiting(p)
    BY DEF Init, Waiting
  <2> QED
    BY <2>3, <2>4 DEF Parted, WaitingAt
<1> QED
  BY <1>1, <1>2, <1>3, <1>4 DEF IInv

LEMMA PeerStepKeeps == ASSUME IInv, NEW p \in Peers, PeerStep(p) PROVE IInv'
<1>1. CASE InvalidConfig(p) \/ RegisterRefused(p) \/ OpRefused(p) \/ FinishRefused(p)
  <2>1. \E kinds : Makes(p, kinds)
    BY <1>1 DEF InvalidConfig, RegisterRefused, OpRefused, FinishRefused, Handle
  <2>2. AnswersTo({p}) /\ UNCHANGED <<callbacks, ops, task, alive>>
    BY <1>1 DEF InvalidConfig, RegisterRefused, OpRefused, FinishRefused, Reply, Answer,
                AnswersTo, serverVars
  <2> QED
    BY <2>1, <2>2, ReplyStep
<1>2. CASE RegisterPeer(p)
  BY <1>2, RegisterPeerStep
<1>3. CASE OpMismatch(p)
  BY <1>3, OpMismatchStep
<1>4. CASE OpWaits(p)
  BY <1>4, OpWaitsStep
<1>5. CASE LocalAllReduce(p)
  BY <1>5, LocalAllReduceStep
<1>6. CASE GlobalAllReduceStarts(p)
  BY <1>6, GlobalAllReduceStartsStep
<1>7. CASE GlobalAllReduceFails(p)
  BY <1>7, GlobalAllReduceFailsStep
<1>8. CASE LocalReduceReturns(p)
  BY <1>8, LocalReduceStep
<1>9. CASE LocalBroadcastReturns(p)
  BY <1>9, LocalBroadcastStep
<1>10. CASE FinishPeer(p)
  BY <1>10, FinishPeerStep
<1>11. CASE ResetServer(p)
  BY <1>11, ResetStep
<1> QED
  BY <1>1, <1>2, <1>3, <1>4, <1>5, <1>6, <1>7, <1>8, <1>9, <1>10, <1>11 DEF PeerStep

LEMMA NodeStepKeeps == ASSUME IInv, NEW n \in Nodes, NodeStep(n) PROVE IInv'
<1>1. CASE GlobalRegisterReturns(n)
  BY <1>1, RegisterReturnsStep
<1>2. CASE GlobalFinishReturns(n)
  BY <1>2, FinishReturnsStep
<1>3. CASE GlobalAllReduceReturns(n)
  BY <1>3, AllReduceReturnsStep
<1>4. CASE GlobalAllReduceMeets(n)
  BY <1>4, OtherStep DEF GlobalAllReduceMeets, clientVars, serverVars
<1>5. CASE OrchestratorStep(n) /\ UNCHANGED <<clientVars, serverVars, globalVars>>
  BY <1>5, OtherStep DEF clientVars, serverVars
<1> QED
  BY <1>1, <1>2, <1>3, <1>4, <1>5 DEF NodeStep

LEMMA Inductive == Spec => []IInv
<1>1. IInv /\ [Next]_vars => IInv'
  <2> SUFFICES ASSUME IInv, [Next]_vars PROVE IInv'
    OBVIOUS
  <2>1. CASE Next
    BY <2>1, PeerStepKeeps, NodeStepKeeps DEF Next
  <2>2. CASE UNCHANGED vars
    BY <2>2, OtherStep DEF vars, clientVars, serverVars
  <2> QED
    BY <2>1, <2>2
<1> QED
  BY InitHolds, <1>1, PTL DEF Spec

(* No call is forgotten and none is answered twice, whatever the peers     *)
(* call: the callback of a peer that waits is in exactly one place of the  *)
(* local server (local/server.rs 32-65) until it is called, through        *)
(* mismatches, resets and what the orchestrator refuses.                   *)
THEOREM CallbacksAlwaysHeld == Spec => []CallbacksHeld
<1>1. IInv => CallbacksHeld
  BY HeldIffParted DEF IInv
<1> QED
  BY Inductive, <1>1, PTL

-----------------------------------------------------------------------------
(* Types.  A server awaits one answer of the orchestrator at a time: its   *)
(* request is on its way, or waits for those of the other nodes, or the    *)
(* reply is on its way.                                                    *)
Pending(n) == \E r \in requests : r.node = n

OneRequest ==
    \A n \in Nodes :
        /\ request[n] # NoRequest =>
              /\ request[n].kind = task[n].kind /\ task[n].kind \in {"register", "finish"}
              /\ reply[n] = NoReply /\ ~Pending(n)
              /\ request[n].kind = "register" => request[n].peers \in Nat
        /\ reply[n] # NoReply => task[n].kind \in {"register", "finish"} /\ ~Pending(n)
        /\ Pending(n) => task[n].kind = "register"

OrchestratorTypes ==
    /\ DOMAIN request = Nodes /\ DOMAIN reply = Nodes
    /\ numPeers \in Nat
    /\ DOMAIN registered \subseteq Nodes

ProgramTypes ==
    /\ program \in Programs
    /\ \A p \in Peers : calls[p] <= Len(program[p])

(* The callers of an operation, in order. *)
CallersOf(n, kind) ==
    /\ ops[n][kind] \in Seq(IF kind = "reduce" THEN Peers ELSE peers[n])
    /\ IsInjective(ops[n][kind])

MoreServerTypes ==
    /\ peers \in [Nodes -> SUBSET Peers]
    /\ \A n \in Nodes : \A kind \in Kinds : CallersOf(n, kind)
    /\ DOMAIN client = Nodes
    /\ \A n \in Nodes : client[n] = NoClient \/ \E s : client[n] = [kind |-> "node", state |-> s]

Phases ==
    /\ phase \in [Nodes -> {"idle", "reducing", "barrier"}]
    /\ \A n \in Nodes : phase[n] # "idle" => task[n].kind = "all_reduce"

TInv ==
    /\ IInv
    /\ ProgramTypes
    /\ MoreServerTypes
    /\ OneRequest
    /\ OrchestratorTypes
    /\ Phases

LEMMA TypesFollow == TInv => TypeOK
<1> SUFFICES ASSUME TInv PROVE TypeOK
  OBVIOUS
<1>1. \A p \in Peers : calls[p] \in 0 .. Len(program[p])
  <2>1. \A p \in Peers : calls[p] \in Nat /\ calls[p] <= Len(program[p])
    BY DEF TInv, IInv, ClientTypes, ProgramTypes
  <2>2. \A p \in Peers : program[p] \in Seq(Calls)
    BY ProgramsAssumption DEF TInv, ProgramTypes
  <2> QED
    BY <2>1, <2>2
<1>2. \A n \in Nodes : client[n].kind \in {"none", "node"}
  BY DEF TInv, MoreServerTypes, NoClient
<1>3. \A n \in Nodes : task[n].kind \in {"idle", "register", "all_reduce", "finish"}
  BY DEF TInv, IInv, ServerTypes, TaskKinds
<1>4. \A n \in Nodes :
         request[n] # NoRequest \/ reply[n] # NoReply => task[n].kind \in {"register", "finish"}
  BY DEF TInv, OneRequest
<1>5. \A n \in Nodes : \A kind \in Kinds :
         /\ ops[n][kind] \in Seq(IF kind = "reduce" THEN Peers ELSE peers[n])
         /\ IsInjective(ops[n][kind])
  BY DEF TInv, MoreServerTypes, CallersOf
<1>6. /\ peers \in [Nodes -> SUBSET Peers] /\ callbacks \in [Nodes -> SUBSET Peers]
      /\ alive \in [Nodes -> BOOLEAN] /\ program \in Programs
  BY DEF TInv, IInv, ServerTypes, MoreServerTypes, ProgramTypes
<1>7. \A p \in Peers : Len(results[p]) \in {calls[p], calls[p] - 1}
  BY DEF TInv, IInv, ClientTypes
<1>8. /\ \A n \in Nodes : phase[n] # "idle" => task[n].kind = "all_reduce"
      /\ numPeers \in Nat /\ DOMAIN registered \subseteq Nodes
  BY DEF TInv, Phases, OrchestratorTypes
<1> QED
  BY <1>1, <1>2, <1>3, <1>4, <1>5, <1>6, <1>7, <1>8 DEF TypeOK

(* What the steps of a peer, and of a node, have in common. *)
LEMMA PeerStepMakes ==
    ASSUME NEW p, PeerStep(p)
    PROVE  \/ InvalidConfig(p)
           \/ \E kinds : Handle(p, kinds)
  BY DEF PeerStep, RegisterRefused, RegisterPeer, OpRefused, OpMismatch, OpWaits, Joins,
         LocalAllReduce, GlobalAllReduceStarts, GlobalAllReduceFails, LocalReduceReturns,
         LocalBroadcastReturns, FinishRefused, FinishPeer, ResetServer

LEMMA ProgramStep ==
    ASSUME TInv, [Next]_vars
    PROVE  /\ UNCHANGED program
           /\ ProgramTypes'
<1>1. ASSUME NEW p \in Peers, PeerStep(p) PROVE UNCHANGED program /\ ProgramTypes'
  <2>1. \E kinds : Makes(p, kinds)
    BY <1>1, PeerStepMakes DEF InvalidConfig, Handle
  <2> QED
    BY <2>1 DEF Makes, TInv, IInv, ClientTypes, ProgramTypes
<1>2. ASSUME NEW n \in Nodes, NodeStep(n) PROVE UNCHANGED program /\ ProgramTypes'
  BY <1>2 DEF NodeStep, GlobalRegisterReturns, GlobalFinishReturns, GlobalAllReduceMeets,
     GlobalAllReduceReturns, clientVars, TInv, ProgramTypes
<1>3. CASE UNCHANGED vars
  BY <1>3 DEF vars, clientVars, TInv, ProgramTypes
<1> QED
  BY <1>1, <1>2, <1>3 DEF Next

(* A server that handles a call awaits nothing. *)
LEMMA IdleAwaitsNothing ==
    ASSUME TInv, NEW n \in Nodes, task[n].kind = "idle"
    PROVE  request[n] = NoRequest /\ reply[n] = NoReply /\ ~Pending(n) /\ phase[n] = "idle"
  BY DEF TInv, OneRequest, Phases

LEMMA TaskChanges ==
    ASSUME IInv, NEW n \in Nodes, NEW t, task' = [task EXCEPT ![n] = t]
    PROVE  task'[n] = t /\ \A m \in Nodes \ {n} : task'[m] = task[m]
  BY DEF IInv, ServerTypes

(* A server sends a request. *)
LEMMA SendStep ==
    ASSUME TInv, NEW n \in Nodes, task[n].kind = "idle", NEW t, NEW r,
           r.kind = t.kind, r.kind \in {"register", "finish"},
           r.kind = "register" => r.peers \in Nat,
           task' = [task EXCEPT ![n] = t], Send(n, r), UNCHANGED <<reply, requests>>
    PROVE  OneRequest' /\ DOMAIN request' = Nodes
<1>1. request[n] = NoRequest /\ reply[n] = NoReply /\ ~Pending(n)
  BY IdleAwaitsNothing
<1>2. task'[n] = t /\ \A m \in Nodes \ {n} : task'[m] = task[m]
  BY TaskChanges DEF TInv
<1>3. /\ request'[n] = r /\ \A m \in Nodes \ {n} : request'[m] = request[m]
      /\ DOMAIN request' = Nodes
  BY DEF Send, TInv, OrchestratorTypes
<1>4. \A m : Pending(m)' <=> Pending(m)
  BY DEF Pending
<1>5. OneRequest
  BY DEF TInv
<1> QED
  BY <1>1, <1>2, <1>3, <1>4, <1>5 DEF OneRequest

(* A server gets the reply. *)
LEMMA GetStep ==
    ASSUME TInv, NEW n \in Nodes, task' = [task EXCEPT ![n] = Idle], reply[n] # NoReply,
           reply' = [reply EXCEPT ![n] = NoReply], UNCHANGED <<request, requests>>
    PROVE  OneRequest' /\ DOMAIN reply' = Nodes
<1>1. request[n] = NoRequest /\ ~Pending(n)
  BY DEF TInv, OneRequest
<1>2. task'[n] = Idle /\ \A m \in Nodes \ {n} : task'[m] = task[m]
  BY TaskChanges DEF TInv
<1>3. /\ reply'[n] = NoReply /\ \A m \in Nodes \ {n} : reply'[m] = reply[m]
      /\ DOMAIN reply' = Nodes
  BY DEF TInv, OrchestratorTypes
<1>4. \A m : Pending(m)' <=> Pending(m)
  BY DEF Pending
<1>5. OneRequest
  BY DEF TInv
<1> QED
  BY <1>1, <1>2, <1>3, <1>4, <1>5 DEF OneRequest

(* Nothing of it changes, or a server starts an all-reduce. *)
LEMMA SameRequests ==
    ASSUME TInv, UNCHANGED <<request, reply, requests>>,
           \A n \in Nodes : task'[n] = task[n] \/ task[n].kind \in {"idle", "all_reduce"}
    PROVE  OneRequest'
<1>1. \A m : Pending(m)' <=> Pending(m)
  BY DEF Pending
<1>2. OneRequest
  BY DEF TInv
<1> QED
  BY <1>1, <1>2 DEF OneRequest

LEMMA PeersFinite ==
    ASSUME NEW S \in SUBSET Peers PROVE IsFiniteSet(S) /\ Cardinality(S) \in Nat
  BY FS_Subset, FS_CardinalityType, PeersAssumption

LEMMA PeerRequests ==
    ASSUME TInv, NEW p \in Peers, PeerStep(p)
    PROVE  OneRequest' /\ OrchestratorTypes'
<1> DEFINE n == NodeOf[p]
<1>0. n \in Nodes /\ OrchestratorTypes
  BY PeersAssumption DEF TInv
<1>1. CASE RegisterPeer(p)
  <2>1. task[n].kind = "idle"
    BY <1>1 DEF RegisterPeer, Handle, Idle
  <2>2. UNCHANGED <<reply, requests, registered, numPeers>>
    BY <1>1 DEF RegisterPeer
  <2>3. CASE UNCHANGED <<task, request>>
    BY <2>2, <2>3, <1>0, SameRequests DEF OrchestratorTypes
  <2>4. ASSUME NEW r, r = RegisterRequest(NextCall(p).config.nodes, Cardinality(peers'[n])), Send(n, r),
               NEW t, t = [kind |-> "register", callers |-> {}], task' = [task EXCEPT ![n] = t]
        PROVE  OneRequest' /\ OrchestratorTypes'
    <3>1. peers'[n] \in SUBSET Peers
      <4>1. peers \in [Nodes -> SUBSET Peers]
        BY DEF TInv, MoreServerTypes
      <4> QED
        BY <1>0, <1>1, <4>1 DEF RegisterPeer
    <3>2. r.kind = "register" /\ r.peers \in Nat /\ t.kind = "register"
      BY <2>4, <3>1, PeersFinite DEF RegisterRequest
    <3> HIDE DEF n
    <3>3. OneRequest' /\ DOMAIN request' = Nodes
      BY <1>0, <2>1, <2>2, <2>4, <3>2, SendStep
    <3> QED
      BY <1>0, <2>2, <3>3 DEF OrchestratorTypes
  <2> QED
    BY <1>1, <2>3, <2>4 DEF RegisterPeer
<1>2. CASE FinishPeer(p)
  <2>1. task[n].kind = "idle"
    BY <1>2 DEF FinishPeer, Handle, Idle
  <2>2. UNCHANGED <<reply, requests, registered, numPeers>>
    BY <1>2 DEF FinishPeer
  <2>3. CASE UNCHANGED <<task, request>>
    BY <2>2, <2>3, <1>0, SameRequests DEF OrchestratorTypes
  <2>4. ASSUME Send(n, FinishRequest),
               NEW t, t = [kind |-> "finish", callers |-> {p}], task' = [task EXCEPT ![n] = t]
        PROVE  OneRequest' /\ OrchestratorTypes'
    <3>1. FinishRequest.kind = "finish" /\ t.kind = "finish"
      BY <2>4 DEF FinishRequest
    <3> HIDE DEF n
    <3>2. OneRequest' /\ DOMAIN request' = Nodes
      BY <1>0, <2>1, <2>2, <2>4, <3>1, SendStep
    <3> QED
      BY <1>0, <2>2, <3>2 DEF OrchestratorTypes
  <2> QED
    BY <1>2, <2>3, <2>4 DEF FinishPeer
<1>3. CASE GlobalAllReduceStarts(p)
  <2>1. task[n].kind = "idle"
    BY <1>3 DEF GlobalAllReduceStarts, Joins, Handle, Idle
  <2>2. UNCHANGED orchestratorVars
    BY <1>3 DEF GlobalAllReduceStarts
  <2>3. \A m \in Nodes \ {n} : task'[m] = task[m]
    BY <1>3, <1>0, TaskChanges DEF GlobalAllReduceStarts, TInv
  <2>4. OneRequest'
    BY <2>1, <2>2, <2>3, SameRequests DEF orchestratorVars
  <2> QED
    BY <1>0, <2>2, <2>4 DEF OrchestratorTypes, orchestratorVars
<1>4. CASE UNCHANGED <<task, orchestratorVars>>
  BY <1>0, <1>4, SameRequests DEF OrchestratorTypes, orchestratorVars
<1>5. \/ RegisterPeer(p) \/ FinishPeer(p) \/ GlobalAllReduceStarts(p)
      \/ UNCHANGED <<task, orchestratorVars>>
  BY DEF PeerStep, InvalidConfig, RegisterRefused, OpRefused, OpMismatch, OpWaits, LocalAllReduce,
     GlobalAllReduceFails, LocalReduceReturns, LocalBroadcastReturns, FinishRefused, ResetServer,
     Reply, Execute, serverVars
<1> QED
  BY <1>1, <1>2, <1>3, <1>4, <1>5

LEMMA NodeRequests ==
    ASSUME TInv, NEW n \in Nodes, NodeStep(n)
    PROVE  OneRequest' /\ OrchestratorTypes'
<1>0. OrchestratorTypes /\ OneRequest
  BY DEF TInv
<1>1. CASE GlobalRegisterReturns(n) \/ GlobalFinishReturns(n)
  BY <1>0, <1>1, GetStep DEF GlobalRegisterReturns, GlobalFinishReturns, OrchestratorTypes
<1>2. CASE GlobalAllReduceMeets(n)
  BY <1>0, <1>2, SameRequests DEF GlobalAllReduceMeets, OrchestratorTypes, orchestratorVars,
     serverVars
<1>3. CASE GlobalAllReduceReturns(n)
  <2>1. \A m \in Nodes \ {n} : task'[m] = task[m]
    BY <1>3, TaskChanges DEF GlobalAllReduceReturns, TInv
  <2> QED
    BY <1>0, <1>3, <2>1, SameRequests DEF GlobalAllReduceReturns, OrchestratorTypes,
       orchestratorVars
<1>4. ASSUME request[n] # NoRequest, NEW a, a # NoReply, DOMAIN registered' \subseteq Nodes,
             reply' = [reply EXCEPT ![n] = a], numPeers' \in Nat,
             request' = [request EXCEPT ![n] = NoRequest], UNCHANGED task,
             \A r \in requests' : r \in requests
      PROVE  OneRequest' /\ OrchestratorTypes'
  <2>1. \A m : Pending(m)' => Pending(m)
    BY <1>4 DEF Pending
  <2>2. /\ reply'[n] = a /\ request'[n] = NoRequest
        /\ \A m \in Nodes \ {n} : reply'[m] = reply[m] /\ request'[m] = request[m]
        /\ DOMAIN reply' = Nodes /\ DOMAIN request' = Nodes
    BY <1>0, <1>4 DEF OrchestratorTypes
  <2> QED
    BY <1>0, <1>4, <2>1, <2>2 DEF OneRequest, OrchestratorTypes
<1>5. ASSUME RegisterMismatch(n) \/ FinishStranger(n), UNCHANGED task
      PROVE  OneRequest' /\ OrchestratorTypes'
  <2>1. request[n] # NoRequest
    BY <1>5 DEF RegisterMismatch, FinishStranger, NoRequest
  <2>2. PICK e : Refuse(n, e)
    BY <1>5 DEF RegisterMismatch, FinishStranger
  <2>3. Error(e) # NoReply
    BY DEF Error, NoReply
  <2>4. UNCHANGED <<registered, numPeers, requests>>
    BY <1>5 DEF RegisterMismatch, FinishStranger
  <2> QED
    BY <1>0, <1>4, <1>5, <2>1, <2>2, <2>3, <2>4 DEF Refuse, OrchestratorTypes
<1>6. ASSUME RegisterDouble(n), UNCHANGED task PROVE OneRequest' /\ OrchestratorTypes'
  <2>1. request[n] # NoRequest /\ request[n].peers \in Nat
    BY <1>0, <1>6 DEF RegisterDouble, NoRequest, OneRequest
  <2>2. Error("DoubleRegister") # NoReply
    BY DEF Error, NoReply
  <2>3. numPeers' \in Nat
    BY <1>0, <1>6, <2>1 DEF RegisterDouble, OrchestratorTypes
  <2>4. DOMAIN registered' \subseteq Nodes
    BY <1>0, <1>6 DEF RegisterDouble, OrchestratorTypes, With
  <2> QED
    BY <1>4, <1>6, <2>1, <2>2, <2>3, <2>4 DEF RegisterDouble, Refuse
<1>7. ASSUME FinishNode(n), UNCHANGED task PROVE OneRequest' /\ OrchestratorTypes'
  <2>1. request[n] # NoRequest
    BY <1>7 DEF FinishNode, NoRequest
  <2>2. DOMAIN registered' \subseteq Nodes
    BY <1>0, <1>7 DEF FinishNode, OrchestratorTypes, Without
  <2>3. \A r \in requests' : r \in requests
    BY <1>7 DEF FinishNode
  <2>4. numPeers' \in Nat
    BY <1>7 DEF FinishNode
  <2>5. [kind |-> "finished"] # NoReply
    BY DEF NoReply
  <2> QED
    BY <1>4, <1>7, <2>1, <2>2, <2>3, <2>4, <2>5 DEF FinishNode
<1>8. ASSUME RegisterNode(n), UNCHANGED task PROVE OneRequest' /\ OrchestratorTypes'
  <2> DEFINE waiting == requests \cup {[node |-> n, id |-> NextId]}
  <2>0. \A m : (\E r \in waiting : r.node = m) <=> (\E r \in requests : r.node = m) \/ m = n
    <3>1. [node |-> n, id |-> NextId].node = n
      OBVIOUS
    <3> DEFINE new == [node |-> n, id |-> NextId]
    <3> HIDE DEF new
    <3> QED
      BY <3>1 DEF new
  <2>1. /\ request[n] # NoRequest /\ request[n].kind = "register" /\ request[n].peers \in Nat
        /\ task[n].kind = "register" /\ reply[n] = NoReply
    BY <1>0, <1>8 DEF RegisterNode, NoRequest, OneRequest
  <2>2. numPeers' \in Nat /\ DOMAIN registered' \subseteq Nodes
    BY <1>0, <1>8, <2>1 DEF RegisterNode, OrchestratorTypes, With
  <2>3. /\ request'[n] = NoRequest /\ \A m \in Nodes \ {n} : request'[m] = request[m]
        /\ DOMAIN request' = Nodes
    BY <1>0, <1>8 DEF RegisterNode, OrchestratorTypes
  <2>4. CASE requests' = waiting /\ UNCHANGED reply
    <3>1. \A m \in Nodes : Pending(m)' <=> Pending(m) \/ m = n
      BY <2>0, <2>4 DEF Pending
    <3>2. OneRequest'
      BY <1>0, <1>8, <2>1, <2>3, <2>4, <3>1 DEF OneRequest
    <3> QED
      BY <1>0, <2>2, <2>3, <2>4, <3>2 DEF OrchestratorTypes
  <2>5. ASSUME requests' = {},
               \A m \in Nodes : IF \E r \in waiting : r.node = m THEN TRUE
                                ELSE reply'[m] = reply[m],
               DOMAIN reply' = Nodes
        PROVE  OneRequest' /\ OrchestratorTypes'
    <3>1. \A m \in Nodes : (\E r \in waiting : r.node = m) <=> Pending(m) \/ m = n
      BY <2>0 DEF Pending
    <3>2. \A m \in Nodes : reply'[m] = reply[m] \/ Pending(m) \/ m = n
      BY <2>5, <3>1
    <3>3. \A m : ~Pending(m)'
      BY <2>5 DEF Pending
    <3>4. OneRequest'
      BY <1>0, <1>8, <2>1, <2>3, <3>2, <3>3 DEF OneRequest
    <3> QED
      BY <1>0, <2>2, <2>3, <2>5, <3>4 DEF OrchestratorTypes
  <2> HIDE DEF waiting
  <2>6. \/ requests' = waiting /\ UNCHANGED reply
        \/ /\ requests' = {}
           /\ reply' = [m \in Nodes |->
                           IF \E r \in waiting : r.node = m
                           THEN LET r == CHOOSE r \in waiting : r.node = m
                                IN  Topology(r.id, addresses', numPeers')
                           ELSE reply[m]]
    BY <1>8 DEF RegisterNode, waiting
  <2> QED
    BY <2>4, <2>5, <2>6
<1> QED
  BY <1>1, <1>2, <1>3, <1>5, <1>6, <1>7, <1>8 DEF NodeStep, OrchestratorStep, serverVars

(* The callers of an operation. *)
LEMMA InjectiveAppend ==
    ASSUME NEW S, NEW s \in Seq(S), IsInjective(s), NEW x, x \notin Range(s)
    PROVE  IsInjective(Append(s, x))
<1> DEFINE t == Append(s, x)
<1>1. /\ \A i \in 1 .. Len(s) : t[i] = s[i]
      /\ t[Len(s) + 1] = x /\ DOMAIN t = 1 .. Len(s) + 1 /\ DOMAIN s = 1 .. Len(s)
      /\ Len(s) \in Nat
  OBVIOUS
<1>2. \A i \in 1 .. Len(s) : t[i] # x
  BY <1>1 DEF Range
<1>3. \A i \in DOMAIN t : i \in 1 .. Len(s) \/ i = Len(s) + 1
  BY <1>1
<1> HIDE DEF t
<1>4. ASSUME NEW i \in DOMAIN t, NEW j \in DOMAIN t, t[i] = t[j] PROVE i = j
  BY <1>1, <1>2, <1>3, <1>4 DEF IsInjective
<1>5. IsInjective(t)
  BY <1>4 DEF IsInjective
<1> QED
  BY <1>5 DEF t

LEMMA EmptyCallers == \A S : <<>> \in Seq(S) /\ IsInjective(<<>>)
  BY DEF IsInjective

LEMMA NarrowCallers ==
    ASSUME NEW S, NEW s \in Seq(S), NEW T, Range(s) \subseteq T
    PROVE  s \in Seq(T)
  BY DEF Range

(* Who calls an operation is not yet among its callers. *)
LEMMA NotACaller ==
    ASSUME IInv, NEW p \in Peers, NEW kinds, Handle(p, kinds), NEW kind \in Kinds
    PROVE  p \notin Range(ops[NodeOf[p]][kind])
<1>1. Handles(NodeOf[p], p)
  BY HandlesCall
<1> QED
  BY <1>1, HeldAtIs, PlacesAre DEF Handles, Parted

(* The operations of a node get fewer, and its peers no other, or a caller  *)
(* joins one.                                                              *)
LEMMA CallersStep ==
    ASSUME TInv, NEW n \in Nodes, peers' \in [Nodes -> SUBSET Peers], DOMAIN client' = Nodes,
           ServerTypes',
           \A m \in Nodes \ {n} : ops'[m] = ops[m] /\ peers'[m] = peers[m] /\ client'[m] = client[m],
           client'[n] = NoClient \/ \E s : client'[n] = [kind |-> "node", state |-> s],
           \A kind \in Kinds :
              \/ CallersOf(n, kind)'
              \/ ops'[n][kind] = <<>>
              \/ ops'[n][kind] = ops[n][kind] /\ (peers[n] \ peers'[n]) \cap Range(ops[n][kind]) = {}
    PROVE  MoreServerTypes'
<1>1. ASSUME NEW kind \in Kinds PROVE CallersOf(n, kind)'
  <2>1. CASE ops'[n][kind] = <<>>
    BY <2>1, EmptyCallers DEF CallersOf
  <2>2. CASE ops'[n][kind] = ops[n][kind] /\ (peers[n] \ peers'[n]) \cap Range(ops[n][kind]) = {}
    <3>1. CallersOf(n, kind)
      BY DEF TInv, MoreServerTypes
    <3>2. CASE kind = "reduce"
      BY <2>2, <3>1, <3>2 DEF CallersOf
    <3>3. CASE kind # "reduce"
      <4>1. ops[n][kind] \in Seq(peers[n])
        BY <3>1, <3>3 DEF CallersOf
      <4>2. Range(ops[n][kind]) \subseteq peers'[n]
        BY <2>2, <4>1, RangeOfSequence
      <4>3. ops[n][kind] \in Seq(peers'[n])
        BY <4>1, <4>2, NarrowCallers
      <4> QED
        BY <2>2, <3>1, <3>3, <4>3 DEF CallersOf
    <3> QED
      BY <3>2, <3>3
  <2> QED
    BY <2>1, <2>2
<1>2. ASSUME NEW m \in Nodes \ {n}, NEW kind \in Kinds PROVE CallersOf(m, kind)'
  <2>1. CallersOf(m, kind) /\ ops'[m] = ops[m] /\ peers'[m] = peers[m]
    BY DEF TInv, MoreServerTypes
  <2> QED
    BY <2>1 DEF CallersOf
<1>3. \A m \in Nodes : client'[m] = NoClient \/ \E s : client'[m] = [kind |-> "node", state |-> s]
  BY DEF TInv, MoreServerTypes
<1> QED
  BY <1>1, <1>2, <1>3 DEF MoreServerTypes

LEMMA SameServer ==
    ASSUME TInv, UNCHANGED <<peers, ops, client>> PROVE MoreServerTypes'
  BY DEF TInv, MoreServerTypes, CallersOf

(* The step ends an operation, or lets it fail. *)
LEMMA OperationGone ==
    ASSUME TInv, IInv', NEW n \in Nodes, NEW kind \in Kinds, UNCHANGED <<peers, client>>,
           ops' = [ops EXCEPT ![n][kind] = <<>>]
    PROVE  MoreServerTypes'
<1>1. /\ ops'[n][kind] = <<>> /\ \A k \in Kinds \ {kind} : ops'[n][k] = ops[n][k]
      /\ \A m \in Nodes \ {n} : ops'[m] = ops[m]
  <2>1. <<>> \in Seq(Peers)
    OBVIOUS
  <2> QED
    BY <2>1, OpsChanged DEF TInv, IInv
<1>2. /\ peers' \in [Nodes -> SUBSET Peers] /\ DOMAIN client' = Nodes
      /\ client'[n] = NoClient \/ \E s : client'[n] = [kind |-> "node", state |-> s]
  BY DEF TInv, MoreServerTypes
<1> QED
  BY <1>1, <1>2, CallersStep DEF IInv

LEMMA OpWaitsServer ==
    ASSUME TInv, IInv', NEW p \in Peers, OpWaits(p)
    PROVE  MoreServerTypes'
<1> DEFINE n == NodeOf[p]
<1>0. n \in Nodes /\ IInv /\ MoreServerTypes /\ ServerTypes'
  BY PeersAssumption DEF TInv, IInv
<1> SUFFICES ASSUME NEW kind, kind = NextCall(p).kind PROVE MoreServerTypes'
  OBVIOUS
<1> DEFINE joined == Append(ops[n][kind], p)
<1>1. /\ Handle(p, Kinds) /\ kind \in Kinds /\ Accepted(n, p)
      /\ ops' = [ops EXCEPT ![n][kind] = joined] /\ UNCHANGED <<peers, client>>
  BY DEF OpWaits, Joins, Handle, Makes
<1>2. CallersOf(n, kind) /\ p \notin Range(ops[n][kind])
  BY <1>0, <1>1, NotACaller DEF MoreServerTypes
<1>3. IsInjective(joined)
  BY <1>2, InjectiveAppend DEF CallersOf
<1>4. kind # "reduce" => p \in peers[n]
  BY <1>1 DEF Accepted
<1>5. joined \in Seq(IF kind = "reduce" THEN Peers ELSE peers[n])
  <2> DEFINE S == IF kind = "reduce" THEN Peers ELSE peers[n]
  <2>1. p \in S /\ ops[n][kind] \in Seq(S)
    BY <1>2, <1>4 DEF CallersOf
  <2> HIDE DEF S
  <2>2. joined \in Seq(S)
    BY <2>1
  <2> QED
    BY <2>2 DEF S
<1>6. joined \in Seq(Peers)
  <2>1. ops[n][kind] \in Seq(Peers)
    BY <1>0, <1>1 DEF IInv, ServerTypes
  <2> QED
    BY <2>1
<1> HIDE DEF n, joined
<1>7. /\ ops'[n][kind] = joined /\ \A k \in Kinds \ {kind} : ops'[n][k] = ops[n][k]
      /\ \A m \in Nodes \ {n} : ops'[m] = ops[m]
  <2>1. ServerTypes
    BY <1>0 DEF IInv
  <2>2. ops \in [Nodes -> [Kinds -> Seq(Peers)]]
    BY <2>1 DEF ServerTypes
  <2> QED
    BY <1>0, <1>1, <2>2
<1>8. CallersOf(n, kind)'
  BY <1>1, <1>3, <1>5, <1>7 DEF CallersOf
<1>9. /\ peers' \in [Nodes -> SUBSET Peers] /\ DOMAIN client' = Nodes
      /\ client'[n] = NoClient \/ \E s : client'[n] = [kind |-> "node", state |-> s]
  BY <1>0, <1>1 DEF MoreServerTypes
<1> HIDE DEF n, joined
<1>10. \A k \in Kinds : CallersOf(n, k)' \/ ops'[n][k] = ops[n][k]
  BY <1>7, <1>8
<1> QED
  BY <1>0, <1>1, <1>7, <1>9, <1>10, CallersStep

LEMMA PeerServer ==
    ASSUME TInv, IInv', NEW p \in Peers, PeerStep(p)
    PROVE  MoreServerTypes'
<1> DEFINE n == NodeOf[p]
           kind == NextCall(p).kind
<1>0. n \in Nodes /\ IInv /\ MoreServerTypes /\ ServerTypes'
  BY PeersAssumption DEF TInv, IInv
<1>1. CASE InvalidConfig(p) \/ RegisterRefused(p) \/ OpRefused(p) \/ FinishRefused(p)
  BY <1>1, SameServer DEF InvalidConfig, RegisterRefused, OpRefused, FinishRefused, Reply,
     serverVars
<1>2. CASE RegisterPeer(p)
  <2> DEFINE node == [kind |-> "node", state |-> NoState]
  <2>1. /\ peers' = [peers EXCEPT ![n] = @ \cup {p}] /\ UNCHANGED ops
        /\ client' = [client EXCEPT ![n] = node] \/ UNCHANGED client
    BY <1>2 DEF RegisterPeer
  <2>2. /\ peers' \in [Nodes -> SUBSET Peers] /\ peers'[n] = peers[n] \cup {p}
        /\ \A m \in Nodes \ {n} : peers'[m] = peers[m]
    BY <1>0, <2>1 DEF MoreServerTypes
  <2>3. /\ DOMAIN client' = Nodes /\ \A m \in Nodes \ {n} : client'[m] = client[m]
        /\ client'[n] = NoClient \/ \E s : client'[n] = [kind |-> "node", state |-> s]
    BY <1>0, <2>1 DEF MoreServerTypes
  <2> HIDE DEF n
  <2>4. \A k \in Kinds : (peers[n] \ peers'[n]) \cap Range(ops[n][k]) = {}
    BY <2>2
  <2> QED
    BY <1>0, <2>1, <2>2, <2>3, <2>4, CallersStep
<1>3. CASE OpMismatch(p)
  BY <1>0, <1>3, OperationGone, HandlesCall DEF OpMismatch, OpFails
<1>4. CASE LocalAllReduce(p) \/ GlobalAllReduceFails(p) \/ LocalReduceReturns(p)
           \/ LocalBroadcastReturns(p)
  <2>1. /\ ops' = [ops EXCEPT ![n][kind] = <<>>] /\ UNCHANGED <<peers, client>>
    BY <1>4 DEF LocalAllReduce, GlobalAllReduceFails, LocalReduceReturns, LocalBroadcastReturns,
       Execute
  <2>2. kind \in Kinds
    BY <1>4 DEF LocalAllReduce, GlobalAllReduceFails, LocalReduceReturns, LocalBroadcastReturns,
       Joins, Handle, Makes, Kinds
  <2> QED
    BY <1>0, <2>1, <2>2, OperationGone
<1>5. CASE GlobalAllReduceStarts(p)
  BY <1>0, <1>5, OperationGone DEF GlobalAllReduceStarts, Kinds
<1>6. CASE OpWaits(p)
  BY <1>6, OpWaitsServer
<1>7. CASE FinishPeer(p)
  <2>1. /\ Handle(p, {"finish"}) /\ peers' = [peers EXCEPT ![n] = @ \ {p}]
        /\ UNCHANGED <<ops, client>>
    BY <1>7 DEF FinishPeer
  <2>2. /\ peers' \in [Nodes -> SUBSET Peers] /\ peers'[n] = peers[n] \ {p}
        /\ \A m \in Nodes \ {n} : peers'[m] = peers[m]
    BY <1>0, <2>1 DEF MoreServerTypes
  <2>3. /\ DOMAIN client' = Nodes
        /\ client'[n] = NoClient \/ \E s : client'[n] = [kind |-> "node", state |-> s]
    BY <1>0, <2>1 DEF MoreServerTypes
  <2>4. \A k \in Kinds : (peers[n] \ peers'[n]) \cap Range(ops[n][k]) = {}
    BY <1>0, <2>1, <2>2, NotACaller
  <2> HIDE DEF n
  <2> QED
    BY <1>0, <2>1, <2>2, <2>3, <2>4, CallersStep
<1>8. CASE ResetServer(p)
  <2>1. /\ peers' = [peers EXCEPT ![n] = {}] /\ ops' = [ops EXCEPT ![n] = NoOps]
        /\ UNCHANGED client
    BY <1>8 DEF ResetServer, OpsLeft
  <2>2. /\ peers' \in [Nodes -> SUBSET Peers]
        /\ \A m \in Nodes \ {n} : peers'[m] = peers[m] /\ ops'[m] = ops[m]
        /\ ops'[n] = NoOps
    BY <1>0, <2>1 DEF MoreServerTypes, IInv, ServerTypes
  <2>3. \A k \in Kinds : ops'[n][k] = <<>>
    BY <2>2 DEF NoOps
  <2>4. /\ DOMAIN client' = Nodes
        /\ client'[n] = NoClient \/ \E s : client'[n] = [kind |-> "node", state |-> s]
    BY <1>0, <2>1 DEF MoreServerTypes
  <2> HIDE DEF n
  <2> QED
    BY <1>0, <2>1, <2>2, <2>3, <2>4, CallersStep
<1> QED
  BY <1>1, <1>2, <1>3, <1>4, <1>5, <1>6, <1>7, <1>8 DEF PeerStep

LEMMA NodeServer ==
    ASSUME TInv, NEW n \in Nodes, NodeStep(n)
    PROVE  MoreServerTypes'
<1>1. CASE UNCHANGED <<peers, ops, client>>
  BY <1>1, SameServer
<1>2. ASSUME UNCHANGED <<peers, ops>>, NEW x, \/ client' = [client EXCEPT ![n].state = x]
                                             \/ client' = [client EXCEPT ![n] = NoClient]
      PROVE  MoreServerTypes'
  <2>1. MoreServerTypes
    BY DEF TInv
  <2>2. /\ DOMAIN client' = Nodes /\ \A m \in Nodes \ {n} : client'[m] = client[m]
        /\ client'[n] \in {NoClient, [client[n] EXCEPT !.state = x]}
    BY <1>2, <2>1 DEF MoreServerTypes
  <2>3. client'[n] = NoClient \/ \E s : client'[n] = [kind |-> "node", state |-> s]
    <3>1. CASE client[n] = NoClient
      <4>1. [NoClient EXCEPT !.state = x] = NoClient
        BY DEF NoClient
      <4> QED
        BY <2>2, <3>1, <4>1
    <3>2. ASSUME NEW s, client[n] = [kind |-> "node", state |-> s]
          PROVE  client'[n] = NoClient \/ client'[n] = [kind |-> "node", state |-> x]
      BY <2>2, <3>2
    <3> QED
      BY <2>1, <3>1, <3>2 DEF MoreServerTypes
  <2>4. \A m \in Nodes : client'[m] = NoClient \/ \E s : client'[m] = [kind |-> "node", state |-> s]
    BY <2>1, <2>2, <2>3 DEF MoreServerTypes
  <2> QED
    BY <1>2, <2>1, <2>2, <2>4 DEF MoreServerTypes, CallersOf
<1>3. CASE GlobalRegisterReturns(n)
  BY <1>1, <1>2, <1>3 DEF GlobalRegisterReturns
<1>4. CASE GlobalFinishReturns(n)
  BY <1>2, <1>4 DEF GlobalFinishReturns
<1>5. CASE GlobalAllReduceMeets(n) \/ GlobalAllReduceReturns(n)
  BY <1>1, <1>5 DEF GlobalAllReduceMeets, GlobalAllReduceReturns, serverVars
<1>6. CASE OrchestratorStep(n) /\ UNCHANGED <<clientVars, serverVars, globalVars>>
  BY <1>1, <1>6 DEF serverVars
<1> QED
  BY <1>3, <1>4, <1>5, <1>6 DEF NodeStep

(* A server is in the global all-reduce only while it awaits it. *)
LEMMA PeerPhases ==
    ASSUME TInv, NEW p \in Peers, PeerStep(p) PROVE Phases'
<1> DEFINE n == NodeOf[p]
<1>0. n \in Nodes /\ Phases /\ IInv
  BY PeersAssumption DEF TInv
<1>1. CASE GlobalAllReduceStarts(p)
  <2>1. Global!Enter(n)
    BY <1>1 DEF GlobalAllReduceStarts
  <2> DEFINE t == [kind |-> "all_reduce", callers |-> Range(AllCallers(p))]
  <2>2. task' = [task EXCEPT ![n] = t] /\ t.kind = "all_reduce"
    BY <1>1 DEF GlobalAllReduceStarts
  <2> HIDE DEF t
  <2>3. task'[n].kind = "all_reduce" /\ \A m \in Nodes \ {n} : task'[m] = task[m]
    BY <1>0, <2>2, TaskChanges
  <2> QED
    BY <1>0, <2>1, <2>3 DEF Phases, Global!Enter
<1>2. ASSUME UNCHANGED phase, NEW t, UNCHANGED task \/ task' = [task EXCEPT ![n] = t],
             task[n].kind = "idle" \/ UNCHANGED task
      PROVE  Phases'
  <2>1. \A m \in Nodes \ {n} : task'[m] = task[m]
    BY <1>0, <1>2, TaskChanges
  <2> QED
    BY <1>0, <1>2, <2>1 DEF Phases
<1>3. CASE RegisterPeer(p)
  BY <1>2, <1>3 DEF RegisterPeer, Handle, Idle, globalVars
<1>4. CASE FinishPeer(p)
  BY <1>2, <1>4 DEF FinishPeer, Handle, Idle, globalVars
<1>5. \/ RegisterPeer(p) \/ FinishPeer(p) \/ GlobalAllReduceStarts(p)
      \/ UNCHANGED <<task, phase>>
  BY DEF PeerStep, InvalidConfig, RegisterRefused, OpRefused, OpMismatch, OpWaits, LocalAllReduce,
     GlobalAllReduceFails, LocalReduceReturns, LocalBroadcastReturns, FinishRefused, ResetServer,
     Reply, Execute, serverVars, globalVars
<1> QED
  BY <1>1, <1>2, <1>3, <1>4, <1>5

LEMMA NodePhases ==
    ASSUME TInv, NEW n \in Nodes, NodeStep(n) PROVE Phases'
<1>0. Phases /\ IInv
  BY DEF TInv
<1>1. CASE GlobalRegisterReturns(n) \/ GlobalFinishReturns(n)
  <2>1. UNCHANGED phase /\ task[n].kind # "all_reduce" /\ task' = [task EXCEPT ![n] = Idle]
    BY <1>1 DEF GlobalRegisterReturns, GlobalFinishReturns, globalVars
  <2>2. \A m \in Nodes \ {n} : task'[m] = task[m]
    BY <1>0, <2>1, TaskChanges
  <2> QED
    BY <1>0, <2>1, <2>2 DEF Phases
<1>2. CASE GlobalAllReduceMeets(n)
  <2>1. Global!Arrive(n) /\ UNCHANGED task
    BY <1>2 DEF GlobalAllReduceMeets, serverVars
  <2> QED
    BY <1>0, <2>1 DEF Phases, Global!Arrive
<1>3. CASE GlobalAllReduceReturns(n)
  <2>1. Global!Leave(n) /\ task' = [task EXCEPT ![n] = Idle]
    BY <1>3 DEF GlobalAllReduceReturns
  <2>2. \A m \in Nodes \ {n} : task'[m] = task[m]
    BY <1>0, <2>1, TaskChanges
  <2> QED
    BY <1>0, <2>1, <2>2 DEF Phases, Global!Leave
<1>4. CASE OrchestratorStep(n) /\ UNCHANGED <<clientVars, serverVars, globalVars>>
  BY <1>0, <1>4 DEF Phases, serverVars, globalVars
<1> QED
  BY <1>1, <1>2, <1>3, <1>4 DEF NodeStep

-----------------------------------------------------------------------------
LEMMA TypesStart == Init => TInv
<1> SUFFICES ASSUME Init PROVE TInv
  OBVIOUS
<1>1. IInv
  BY InitHolds
<1>2. ProgramTypes
  <2>1. \A p \in Peers : program[p] \in Seq(Calls)
    BY ProgramsAssumption DEF Init
  <2> QED
    BY <2>1 DEF Init, ProgramTypes
<1>3. MoreServerTypes
  <2>1. \A n \in Nodes, kind \in Kinds : ops[n][kind] = <<>>
    BY DEF Init, NoOps
  <2> QED
    BY <2>1, EmptyCallers DEF Init, MoreServerTypes, CallersOf
<1>4. OneRequest /\ OrchestratorTypes
  BY DEF Init, InitOrchestrator, OneRequest, OrchestratorTypes, Pending
<1>5. Phases
  BY DEF Init, Global!InitBarrier, Phases
<1> QED
  BY <1>1, <1>2, <1>3, <1>4, <1>5 DEF TInv

LEMMA TypesStay == TInv /\ [Next]_vars => TInv'
<1> SUFFICES ASSUME TInv, [Next]_vars PROVE TInv'
  OBVIOUS
<1>0. IInv /\ ProgramTypes'
  BY ProgramStep DEF TInv
<1>1. ASSUME NEW p \in Peers, PeerStep(p) PROVE TInv'
  BY <1>0, <1>1, PeerStepKeeps, PeerRequests, PeerServer, PeerPhases DEF TInv
<1>2. ASSUME NEW n \in Nodes, NodeStep(n) PROVE TInv'
  BY <1>0, <1>2, NodeStepKeeps, NodeRequests, NodeServer, NodePhases DEF TInv
<1>3. CASE UNCHANGED vars
  <2>1. IInv'
    BY <1>0, <1>3, OtherStep DEF vars, clientVars, serverVars
  <2>2. MoreServerTypes'
    BY <1>3, SameServer DEF vars, serverVars
  <2>3. OneRequest' /\ OrchestratorTypes'
    BY <1>3, SameRequests DEF vars, serverVars, orchestratorVars, TInv, OrchestratorTypes
  <2>4. Phases'
    BY <1>3 DEF vars, serverVars, globalVars, TInv, Phases
  <2> QED
    BY <1>0, <2>1, <2>2, <2>3, <2>4 DEF TInv
<1> QED
  BY <1>1, <1>2, <1>3 DEF Next

LEMMA TypesInductive == Spec => []TInv
  BY TypesStart, TypesStay, PTL DEF Spec

(* Whatever the peers call: a peer has at most one call that is not        *)
(* answered, the callers of an operation are different peers, registered   *)
(* unless they reduce (server.rs 329-377), and a server awaits one answer  *)
(* of the orchestrator at a time.                                          *)
THEOREM TypesAlwaysCorrect == Spec => []TypeOK
  BY TypesInductive, TypesFollow, PTL

-----------------------------------------------------------------------------
(* What is combined, whatever the peers call.  The callers of an operation *)
(* have asked for the same, and no two of them broadcast a tensor.         *)
AskedAlike(c, d) == c.op = d.op /\ c.size = d.size /\ c.root = d.root

AlikeAt(n, kind) ==
    /\ \A p \in Callers(n, kind) : CallOf(p).kind = kind
    /\ IF kind = "broadcast"
       THEN \A p, q \in Callers(n, kind) : CallOf(p).tensor /\ CallOf(q).tensor => p = q
       ELSE \A p, q \in Callers(n, kind) : AskedAlike(CallOf(p), CallOf(q))

OperationsAlike == \A n \in Nodes : alive[n] => \A kind \in Kinds : AlikeAt(n, kind)

CombinesAlike ==
    \A p \in Peers : LocalAllReduce(p) \/ GlobalAllReduceStarts(p) \/ LocalReduceReturns(p) =>
        \A q \in Callers(NodeOf[p], NextCall(p).kind) :
            CallOf(q).kind = NextCall(p).kind /\ AskedAlike(CallOf(q), NextCall(p))

LEMMA CallersWait ==
    ASSUME IInv, NEW n \in Nodes, alive[n], NEW kind \in Kinds, NEW q \in Callers(n, kind)
    PROVE  q \in Peers /\ NodeOf[q] = n /\ Waiting(q)
<1>1. HeldAt(n)[kind] = Callers(n, kind) /\ kind \in Places
  BY HeldAtIs, PlacesAre DEF Callers
<1>2. q \in Peers
  <2>1. ops[n][kind] \in Seq(Peers)
    BY DEF IInv, ServerTypes
  <2> QED
    BY <2>1, RangeOfSequence DEF Callers
<1>3. q \in WaitingAt(n)
  BY <1>1, <1>2 DEF IInv, Parted
<1> QED
  BY <1>2, <1>3 DEF WaitingAt

(* Only OpWaits adds a caller; and no server comes to life again. *)
LEMMA OpsGetFewer ==
    ASSUME TInv, NEW p \in Peers, PeerStep(p), ~OpWaits(p)
    PROVE  \A n \in Nodes : /\ alive'[n] => alive[n]
                            /\ \A kind \in Kinds : ops'[n][kind] \in {ops[n][kind], <<>>}
<1> DEFINE n == NodeOf[p]
<1>0. n \in Nodes /\ ServerTypes
  BY PeersAssumption DEF TInv, IInv
<1>1. ASSUME NEW kind \in Kinds, ops' = [ops EXCEPT ![n][kind] = <<>>]
      PROVE  \A m \in Nodes : \A k \in Kinds : ops'[m][k] \in {ops[m][k], <<>>}
  <2>1. <<>> \in Seq(Peers)
    OBVIOUS
  <2> QED
    BY <1>0, <1>1, <2>1, OpsChanged
<1>2. ASSUME UNCHANGED <<ops, alive>>
      PROVE  \A m \in Nodes : /\ alive'[m] => alive[m]
                              /\ \A kind \in Kinds : ops'[m][kind] \in {ops[m][kind], <<>>}
  BY <1>2
<1>3. CASE InvalidConfig(p) \/ RegisterRefused(p) \/ OpRefused(p) \/ FinishRefused(p)
           \/ RegisterPeer(p) \/ FinishPeer(p)
  BY <1>2, <1>3 DEF InvalidConfig, RegisterRefused, OpRefused, FinishRefused, RegisterPeer,
     FinishPeer, Reply, serverVars
<1>4. CASE OpMismatch(p)
  <2>1. /\ NextCall(p).kind \in Kinds /\ UNCHANGED alive
        /\ ops' = [ops EXCEPT ![n][NextCall(p).kind] = <<>>]
    BY <1>4 DEF OpMismatch, OpFails, Handle, Makes
  <2> QED
    BY <1>1, <2>1
<1>5. CASE LocalAllReduce(p) \/ GlobalAllReduceFails(p) \/ LocalReduceReturns(p)
           \/ LocalBroadcastReturns(p)
  <2>1. /\ NextCall(p).kind \in Kinds /\ alive[n]
        /\ ops' = [ops EXCEPT ![n][NextCall(p).kind] = <<>>]
        /\ \E x : alive' = [alive EXCEPT ![n] = x]
    BY <1>5 DEF LocalAllReduce, GlobalAllReduceFails, LocalReduceReturns, LocalBroadcastReturns,
       Joins, Handle, Makes, Execute, Kinds
  <2>2. \A m \in Nodes : alive'[m] => alive[m]
    BY <1>0, <2>1 DEF ServerTypes
  <2> QED
    BY <1>1, <2>1, <2>2
<1>6. CASE GlobalAllReduceStarts(p)
  <2>1. "all_reduce" \in Kinds /\ ops' = [ops EXCEPT ![n]["all_reduce"] = <<>>] /\ UNCHANGED alive
    BY <1>6 DEF GlobalAllReduceStarts, Kinds
  <2> QED
    BY <1>1, <2>1
<1>7. CASE ResetServer(p)
  <2>1. ops' = [ops EXCEPT ![n] = NoOps] /\ UNCHANGED alive
    BY <1>7 DEF ResetServer, OpsLeft
  <2> QED
    BY <1>0, <2>1 DEF ServerTypes, NoOps
<1> QED
  BY <1>3, <1>4, <1>5, <1>6, <1>7 DEF PeerStep

(* Who waits stays with its call. *)
LEMMA AlikeStays ==
    ASSUME NEW n, NEW kind, AlikeAt(n, kind), ops'[n][kind] \in {ops[n][kind], <<>>},
           \A q \in Callers(n, kind) : CallOf(q)' = CallOf(q)
    PROVE  AlikeAt(n, kind)'
<1>1. Callers(n, kind)' = Callers(n, kind) \/ Callers(n, kind)' = {}
  BY RangeOfEmpty DEF Callers
<1> QED
  BY <1>1 DEF AlikeAt, AskedAlike

(* A call joins an operation if it is like the first one. *)
LEMMA JoinsAlike ==
    ASSUME TInv, OperationsAlike, NEW p \in Peers, NEW kinds, kinds \subseteq Kinds,
           Joins(p, kinds), NEW q \in Callers(NodeOf[p], NextCall(p).kind)
    PROVE  /\ CallOf(q).kind = NextCall(p).kind
           /\ IF NextCall(p).kind = "broadcast" THEN ~(NextCall(p).tensor /\ CallOf(q).tensor)
              ELSE AskedAlike(CallOf(q), NextCall(p))
<1> DEFINE n == NodeOf[p]
           kind == NextCall(p).kind
<1>1. n \in Nodes /\ alive[n] /\ kind \in Kinds /\ Mismatch(n, p) = "none"
  BY PeersAssumption DEF Joins, Handle, Makes
<1>2. AlikeAt(n, kind)
  BY <1>1 DEF OperationsAlike
<1>3. ops[n][kind] \in Seq(Peers)
  BY <1>1 DEF TInv, IInv, ServerTypes
<1>4. ops[n][kind] # <<>> /\ Head(ops[n][kind]) \in Callers(n, kind)
  BY <1>3, RangeOfSequence, RangeOfEmpty DEF Callers, Range
<1>5. kind # "broadcast" => AskedAlike(CallOf(Head(ops[n][kind])), NextCall(p))
  BY <1>1, <1>4 DEF Mismatch, First, AskedAlike
<1>6. kind = "broadcast" => ~(NextCall(p).tensor /\ CallOf(q).tensor)
  BY <1>1 DEF Mismatch
<1> QED
  BY <1>2, <1>4, <1>5, <1>6 DEF AlikeAt, AskedAlike

LEMMA OpWaitsAlike ==
    ASSUME TInv, OperationsAlike, NEW p \in Peers, OpWaits(p)
    PROVE  OperationsAlike'
<1> SUFFICES ASSUME NEW kind, kind = NextCall(p).kind PROVE OperationsAlike'
  OBVIOUS
<1> DEFINE n == NodeOf[p]
<1>0. n \in Nodes /\ IInv /\ ServerTypes
  BY PeersAssumption DEF TInv, IInv
<1>1. /\ Joins(p, Kinds) /\ Handle(p, Kinds) /\ kind \in Kinds /\ UNCHANGED <<alive, program>>
      /\ ops' = [ops EXCEPT ![n][kind] = Append(ops[n][kind], p)] /\ ~Waiting(p)
      /\ calls' = [calls EXCEPT ![p] = @ + 1]
  BY DEF OpWaits, Joins, Handle, Makes
<1>2. ops[n][kind] \in Seq(Peers) /\ Append(ops[n][kind], p) \in Seq(Peers)
  BY <1>0, <1>1 DEF ServerTypes
<1>3. /\ ops'[n][kind] = Append(ops[n][kind], p)
      /\ \A k \in Kinds \ {kind} : ops'[n][k] = ops[n][k]
      /\ \A m \in Nodes \ {n} : ops'[m] = ops[m]
  <2> DEFINE s == Append(ops[n][kind], p)
  <2>1. s \in Seq(Peers) /\ ops' = [ops EXCEPT ![n][kind] = s]
    BY <1>1, <1>2
  <2> HIDE DEF s, n
  <2>2. /\ ops'[n][kind] = s
        /\ \A k \in Kinds \ {kind} : ops'[n][k] = ops[n][k]
        /\ \A m \in Nodes \ {n} : ops'[m] = ops[m]
    <3>1. ops \in [Nodes -> [Kinds -> Seq(Peers)]]
      BY <1>0 DEF ServerTypes
    <3> QED
      BY <1>0, <1>1, <2>1, <3>1
  <2> QED
    BY <2>2 DEF s
<1>4. Callers(n, kind)' = Callers(n, kind) \cup {p}
  BY <1>2, <1>3, RangeOfAppend DEF Callers
<1>5. CallOf(p)' = NextCall(p) /\ \A q \in Peers : Waiting(q) => CallOf(q)' = CallOf(q)
  BY <1>0, <1>1 DEF CallOf, NextCall, IInv, ClientTypes
<1>6. ASSUME NEW m \in Nodes, alive[m], NEW k \in Kinds, NEW q \in Callers(m, k)
      PROVE  CallOf(q)' = CallOf(q)
  BY <1>0, <1>5, <1>6, CallersWait
<1>7. AlikeAt(n, kind)'
  <2>1. /\ alive[n] /\ AlikeAt(n, kind)
        /\ \A q \in Callers(n, kind) : CallOf(q)' = CallOf(q)
    BY <1>0, <1>1, <1>6 DEF OperationsAlike, Handle
  <2>2. ASSUME NEW q \in Callers(n, kind)
        PROVE  /\ CallOf(q).kind = kind
               /\ IF kind = "broadcast" THEN ~(NextCall(p).tensor /\ CallOf(q).tensor)
                  ELSE AskedAlike(CallOf(q), NextCall(p))
    BY <1>1, <2>2, JoinsAlike
  <2> QED
    BY <1>4, <1>5, <2>1, <2>2 DEF AlikeAt, AskedAlike
<1>8. ASSUME NEW m \in Nodes, alive'[m], NEW k \in Kinds, m # n \/ k # kind PROVE AlikeAt(m, k)'
  <2>1. AlikeAt(m, k) /\ alive[m]
    BY <1>1, <1>8 DEF OperationsAlike
  <2>2. \A q \in Callers(m, k) : CallOf(q)' = CallOf(q)
    BY <1>6, <2>1
  <2>3. ops'[m][k] = ops[m][k]
    BY <1>3, <1>8
  <2> QED
    BY <2>1, <2>2, <2>3, AlikeStays
<1> QED
  BY <1>7, <1>8 DEF OperationsAlike

LEMMA AlikeStep == ASSUME TInv, OperationsAlike, [Next]_vars PROVE OperationsAlike'
<1>1. ASSUME \A n \in Nodes : /\ alive'[n] => alive[n]
                              /\ \A kind \in Kinds : ops'[n][kind] \in {ops[n][kind], <<>>},
             \A q \in Peers : Waiting(q) => CallOf(q)' = CallOf(q)
      PROVE  OperationsAlike'
  <2>1. ASSUME NEW n \in Nodes, alive'[n], NEW kind \in Kinds PROVE AlikeAt(n, kind)'
    <3>1. alive[n] /\ AlikeAt(n, kind)
      BY <1>1, <2>1 DEF OperationsAlike
    <3>2. \A q \in Callers(n, kind) : CallOf(q)' = CallOf(q)
      BY <1>1, <3>1, CallersWait DEF TInv
    <3> QED
      BY <1>1, <3>1, <3>2, AlikeStays
  <2> QED
    BY <2>1 DEF OperationsAlike
<1>2. ASSUME UNCHANGED <<program, calls, ops, alive>> PROVE OperationsAlike'
  BY <1>1, <1>2 DEF CallOf
<1>3. ASSUME NEW p \in Peers, PeerStep(p) PROVE OperationsAlike'
  <2>1. \E kinds : Makes(p, kinds)
    BY <1>3, PeerStepMakes DEF InvalidConfig, Handle
  <2>2. \A q \in Peers : Waiting(q) => CallOf(q)' = CallOf(q)
    BY <2>1 DEF Makes, CallOf, TInv, IInv, ClientTypes
  <2>3. CASE ~OpWaits(p)
    BY <1>1, <1>3, <2>2, <2>3, OpsGetFewer
  <2> QED
    BY <2>3, OpWaitsAlike
<1>4. ASSUME NEW n \in Nodes, NodeStep(n) PROVE OperationsAlike'
  BY <1>2, <1>4 DEF NodeStep, GlobalRegisterReturns, GlobalFinishReturns, GlobalAllReduceMeets,
     GlobalAllReduceReturns, clientVars, serverVars
<1> QED
  BY <1>2, <1>3, <1>4 DEF Next, vars, clientVars, serverVars

LEMMA AlikeInductive == Spec => [](TInv /\ OperationsAlike)
<1>1. Init => OperationsAlike
  BY RangeOfEmpty DEF Init, NoOps, OperationsAlike, AlikeAt, Callers
<1>2. TInv /\ OperationsAlike /\ [Next]_vars => OperationsAlike'
  BY AlikeStep
<1> QED
  BY <1>1, <1>2, TypesInductive, PTL DEF Spec

(* The sums of NoMixedSums, for any programs: a step that combines tensors *)
(* combines those of calls of one kind that asked for the same operation,  *)
(* size and root (a call is compared with the first one of the operation   *)
(* when it arrives, local/all_reduce/op.rs 62-67 and local/reduce/op.rs    *)
(* 61-69, and no caller goes on before it is answered).                    *)
THEOREM OnlyAlikeCombined == Spec => [][CombinesAlike]_vars
<1>1. TInv /\ OperationsAlike => CombinesAlike
  <2> SUFFICES ASSUME TInv, OperationsAlike, NEW p \in Peers,
                      LocalAllReduce(p) \/ GlobalAllReduceStarts(p) \/ LocalReduceReturns(p),
                      NEW q \in Callers(NodeOf[p], NextCall(p).kind)
               PROVE  CallOf(q).kind = NextCall(p).kind /\ AskedAlike(CallOf(q), NextCall(p))
    BY DEF CombinesAlike
  <2>1. \E kinds \in {{"all_reduce"}, {"reduce"}} : Joins(p, kinds) /\ kinds \subseteq Kinds
    BY DEF LocalAllReduce, GlobalAllReduceStarts, LocalReduceReturns, Kinds
  <2>2. NextCall(p).kind # "broadcast"
    BY <2>1 DEF Joins, Handle, Makes
  <2> QED
    BY <2>1, <2>2, JoinsAlike
<1> QED
  BY <1>1, AlikeInductive, PTL

-----------------------------------------------------------------------------
(* What is returned, whatever the peers call.  A registered peer has a     *)
(* configuration, and so has its server.                                   *)
ConfigsKnown ==
    /\ DOMAIN config = Nodes
    /\ \A n \in Nodes : peers[n] # {} => config[n] \in Configs

LEMMA NextCallType ==
    ASSUME TInv, NEW p \in Peers, NEW kinds, Makes(p, kinds)
    PROVE  /\ NextCall(p) \in Calls
           /\ calls[p] + 1 \in DOMAIN program[p]
<1>1. program[p] \in Seq(Calls)
  BY ProgramsAssumption DEF TInv, ProgramTypes
<1>2. calls[p] \in Nat /\ calls[p] < Len(program[p])
  BY DEF TInv, IInv, ClientTypes, Makes
<1>3. calls[p] + 1 \in 1 .. Len(program[p])
  BY <1>1, <1>2
<1> QED
  BY <1>1, <1>3 DEF NextCall

LEMMA ConfigsStep == ASSUME TInv, ConfigsKnown, [Next]_vars PROVE ConfigsKnown'
<1>0. peers \in [Nodes -> SUBSET Peers]
  BY DEF TInv, MoreServerTypes
<1>1. ASSUME UNCHANGED config, \A n \in Nodes : peers'[n] \subseteq peers[n]
      PROVE  ConfigsKnown'
  BY <1>0, <1>1 DEF ConfigsKnown
<1>2. ASSUME NEW p \in Peers, PeerStep(p) PROVE ConfigsKnown'
  <2> DEFINE n == NodeOf[p]
  <2>0. n \in Nodes
    BY PeersAssumption
  <2>1. CASE RegisterPeer(p)
    <3> DEFINE c == NextCall(p).config
    <3>1. /\ Makes(p, {"register"}) /\ config' = [config EXCEPT ![n] = c]
          /\ peers' = [peers EXCEPT ![n] = @ \cup {p}]
      BY <2>1 DEF RegisterPeer, Handle
    <3>2. c \in Configs
      <4>1. NextCall(p) \in Calls /\ NextCall(p).kind = "register"
        BY <3>1, NextCallType DEF Makes
      <4> QED
        BY <4>1 DEF Calls, Kinds
    <3> HIDE DEF c, n
    <3>3. \A m \in Nodes \ {n} : config'[m] = config[m] /\ peers'[m] = peers[m]
      BY <1>0, <3>1
    <3>4. config'[n] = c /\ DOMAIN config' = Nodes
      BY <2>0, <3>1 DEF ConfigsKnown
    <3> QED
      BY <3>2, <3>3, <3>4 DEF ConfigsKnown
  <2>2. CASE FinishPeer(p)
    BY <1>0, <1>1, <2>0, <2>2 DEF FinishPeer
  <2>3. CASE ResetServer(p)
    BY <1>0, <1>1, <2>0, <2>3 DEF ResetServer
  <2>4. CASE UNCHANGED <<config, peers>>
    BY <1>1, <2>4
  <2>5. RegisterPeer(p) \/ FinishPeer(p) \/ ResetServer(p) \/ UNCHANGED <<config, peers>>
    BY <1>2 DEF PeerStep, InvalidConfig, RegisterRefused, OpRefused, OpMismatch, OpWaits,
       LocalAllReduce, GlobalAllReduceStarts, GlobalAllReduceFails, LocalReduceReturns,
       LocalBroadcastReturns, FinishRefused, Reply, Execute, serverVars
  <2> QED
    BY <2>1, <2>2, <2>3, <2>4, <2>5
<1>3. ASSUME NEW n \in Nodes, NodeStep(n) PROVE ConfigsKnown'
  BY <1>1, <1>3 DEF NodeStep, GlobalRegisterReturns, GlobalFinishReturns, GlobalAllReduceMeets,
     GlobalAllReduceReturns, serverVars
<1>4. CASE UNCHANGED vars
  BY <1>1, <1>4 DEF vars, serverVars
<1> QED
  BY <1>2, <1>3, <1>4 DEF Next

(* The tensors of the callers of an operation: those of different calls    *)
(* that asked for the same.                                                *)
Inputs(callers) == {<<q, calls'[q]>> : q \in Range(callers)}
InputSets(callers) == [i \in DOMAIN callers |-> {<<callers[i], calls'[callers[i]]>>}]

LEMMA InputsAre ==
    ASSUME NEW callers \in Seq(Peers), IsInjective(callers), Len(callers) > 0,
           NEW size \in Nat, \A q \in Range(callers) : program[q][calls'[q]].size = size
    PROVE  /\ Parts(Tensors(callers), InputSets(callers), size)
           /\ Len(Tensors(callers)) = Len(callers) /\ DOMAIN Tensors(callers) = 1 .. Len(callers)
           /\ FirstSets(InputSets(callers), Len(callers)) = Inputs(callers)
           /\ Cardinality(Inputs(callers)) = Len(callers)
<1> DEFINE n == Len(callers)
           S == InputSets(callers)
           t == Tensors(callers)
<1>1. n \in Nat \ {0} /\ DOMAIN callers = 1 .. n /\ \A i \in 1 .. n : callers[i] \in Range(callers)
  BY DEF Range
<1>2. t = [i \in 1 .. n |-> TensorOf(callers[i])]
  BY <1>1 DEF Tensors
<1>3. S = [i \in 1 .. n |-> {<<callers[i], calls'[callers[i]]>>}]
  BY <1>1 DEF InputSets
<1> HIDE DEF n, S, t
<1>4. \A i \in 1 .. n : t[i] = Of(S[i], size)
  <2> TAKE i \in 1 .. n
  <2>1. TensorOf(callers[i]) = Whole(<<callers[i], calls'[callers[i]]>>, size)
    BY <1>1 DEF TensorOf
  <2> QED
    BY <1>2, <1>3, <2>1, WholeIsOf
<1>5. ASSUME NEW i \in 1 .. n, NEW j \in 1 .. n, i # j PROVE S[i] \cap S[j] = {}
  <2>1. callers[i] # callers[j]
    BY <1>1, <1>5 DEF IsInjective
  <2> QED
    BY <1>3, <2>1
<1>6. Len(t) = n /\ DOMAIN t = 1 .. n
  BY <1>1, <1>2
<1>7. Parts(t, S, size)
  BY <1>1, <1>4, <1>5, <1>6 DEF Parts
<1>8. FirstSets(S, n) = Inputs(callers)
  <2>1. ASSUME NEW x PROVE x \in FirstSets(S, n) <=> \E i \in 1 .. n : x = <<callers[i], calls'[callers[i]]>>
    BY <1>3 DEF FirstSets
  <2>2. ASSUME NEW x PROVE x \in Inputs(callers) <=> \E i \in 1 .. n : x = <<callers[i], calls'[callers[i]]>>
    BY <1>1 DEF Inputs, Range
  <2> QED
    BY <2>1, <2>2
<1>9. Cardinality(Inputs(callers)) = n
  <2> DEFINE u == [i \in 1 .. n |-> <<callers[i], calls'[callers[i]]>>]
             T == {<<q, calls'[q]>> : q \in Peers}
  <2>1. u \in Seq(T) /\ Len(u) = n
    BY <1>1
  <2>2. IsInjective(u)
    BY <1>1 DEF IsInjective
  <2>3. Range(u) = Inputs(callers)
    BY <1>1 DEF Inputs, Range
  <2> HIDE DEF u, T
  <2> QED
    BY <2>1, <2>2, <2>3, SizeOfRange
<1> QED
  BY <1>6, <1>7, <1>8, <1>9 DEF n, S, t

LEMMA CallersAsked ==
    ASSUME TInv, OperationsAlike, NEW p \in Peers, NEW kinds, kinds \subseteq Kinds, Joins(p, kinds)
    PROVE  LET all == AllCallers(p)
               call == NextCall(p)
           IN  /\ all \in Seq(Peers) /\ IsInjective(all) /\ Len(all) > 0 /\ p \in Range(all)
               /\ call \in Calls /\ call.kind \in kinds
               /\ \A q \in Range(all) :
                     /\ q \in Peers /\ NodeOf[q] = NodeOf[p] /\ calls'[q] = Len(results[q]) + 1
                     /\ program[q][calls'[q]].kind = call.kind
                     /\ call.kind # "broadcast" => AskedAlike(program[q][calls'[q]], call)
<1> DEFINE n == NodeOf[p]
           kind == NextCall(p).kind
           s == ops[n][kind]
           all == AllCallers(p)
<1>1. /\ n \in Nodes /\ alive[n] /\ kind \in kinds /\ Handle(p, kinds) /\ Makes(p, kinds)
      /\ IInv /\ calls' = [calls EXCEPT ![p] = @ + 1] /\ ~Waiting(p)
  BY PeersAssumption DEF Joins, Handle, Makes, TInv
<1>2. s \in Seq(Peers) /\ IsInjective(s)
  <2> HIDE DEF kind, n
  <2>1. s \in Seq(Peers)
    BY <1>1 DEF TInv, IInv, ServerTypes
  <2>2. CallersOf(n, kind)
    BY <1>1 DEF TInv, MoreServerTypes
  <2> QED
    BY <2>1, <2>2 DEF CallersOf
<1>3. p \notin Range(s)
  BY <1>1, NotACaller
<1>4. all = Append(s, p)
  BY DEF AllCallers
<1>5. NextCall(p) \in Calls
  BY <1>1, NextCallType
<1> HIDE DEF s, all
<1>6. /\ all \in Seq(Peers) /\ IsInjective(all) /\ Len(all) = Len(s) + 1 /\ Len(s) \in Nat
      /\ Range(all) = Range(s) \cup {p}
  BY <1>2, <1>3, <1>4, InjectiveAppend, RangeOfAppend
<1>7. ClientTypes
  BY <1>1 DEF IInv
<1>8. ASSUME NEW q \in Range(s)
      PROVE  /\ q \in Peers /\ NodeOf[q] = n /\ calls'[q] = Len(results[q]) + 1
             /\ program[q][calls'[q]].kind = kind
             /\ kind # "broadcast" => AskedAlike(program[q][calls'[q]], NextCall(p))
  <2>1. q \in Callers(n, kind)
    BY <1>8 DEF Callers, s
  <2>2. q \in Peers /\ NodeOf[q] = n /\ Waiting(q)
    BY <1>1, <2>1, CallersWait
  <2>3. calls'[q] = calls[q] /\ calls[q] = Len(results[q]) + 1
    BY <1>1, <1>3, <1>7, <1>8, <2>2 DEF ClientTypes, Waiting
  <2>4. /\ CallOf(q).kind = kind
        /\ kind # "broadcast" => AskedAlike(CallOf(q), NextCall(p))
    BY <1>1, <2>1, JoinsAlike
  <2> QED
    BY <2>2, <2>3, <2>4 DEF CallOf
<1>9. /\ calls'[p] = Len(results[p]) + 1
      /\ program[p][calls'[p]] = NextCall(p)
  <2>1. calls'[p] = calls[p] + 1 /\ Len(results[p]) = calls[p]
    BY <1>1, <1>7 DEF ClientTypes, Waiting
  <2> QED
    BY <2>1 DEF NextCall
<1>10. \A q \in Range(all) :
          /\ q \in Peers /\ NodeOf[q] = n /\ calls'[q] = Len(results[q]) + 1
          /\ program[q][calls'[q]].kind = kind
          /\ kind # "broadcast" => AskedAlike(program[q][calls'[q]], NextCall(p))
  BY <1>6, <1>8, <1>9 DEF AskedAlike
<1> QED
  BY <1>1, <1>5, <1>6, <1>10 DEF all

(* What NoMixedSums says of the k-th result of p. *)
Unmixed(p, k, result) ==
    \A i \in DOMAIN result.tensor :
        LET call == program[p][k]
            element == result.tensor[i]
            same(c) ==
                /\ c.kind = call.kind
                /\ call.kind # "broadcast" =>
                      c.op = call.op /\ c.size = call.size /\ c.root = call.root
        IN  /\ \A x \in DOMAIN element : element[x] = 1 /\ same(program[x[1]][x[2]])
            /\ call.kind # "broadcast" => <<p, k>> \in DOMAIN element
            /\ call.op = "mean" => result.by = Cardinality(DOMAIN element)

LEMMA UnmixedResults ==
    NoMixedSums <=> \A p \in Peers : \A k \in DOMAIN results[p] : Unmixed(p, k, results[p][k])
  BY DEF NoMixedSums, Unmixed

LEMMA NothingMixed ==
    ASSUME NEW p, NEW k, NEW result, result.tensor = <<>>
    PROVE  Unmixed(p, k, result)
  BY DEF Unmixed

LEMMA NothingInFailed ==
    /\ \A e : Failed(e).tensor = <<>>
    /\ Ok.tensor = <<>>
  BY DEF Failed, Ok, Returned

LEMMA UnmixedNext ==
    ASSUME UNCHANGED program,
           \A p \in Peers : \A k \in DOMAIN results'[p] : Unmixed(p, k, results'[p][k])
    PROVE  NoMixedSums'
<1> DEFINE Same(call, c) ==
               /\ c.kind = call.kind
               /\ call.kind # "broadcast" =>
                     c.op = call.op /\ c.size = call.size /\ c.root = call.root
           Says(prog, p, k, result, i) ==
               /\ \A x \in DOMAIN result.tensor[i] :
                     result.tensor[i][x] = 1 /\ Same(prog[p][k], prog[x[1]][x[2]])
               /\ prog[p][k].kind # "broadcast" => <<p, k>> \in DOMAIN result.tensor[i]
               /\ prog[p][k].op = "mean" => result.by = Cardinality(DOMAIN result.tensor[i])
<1>1. \A p \in Peers : \A k \in DOMAIN results'[p] : \A i \in DOMAIN results'[p][k].tensor :
         Says(program, p, k, results'[p][k], i)
  BY Zenon DEF Unmixed
<1>2. NoMixedSums' <=>
         \A p \in Peers : \A k \in DOMAIN results'[p] : \A i \in DOMAIN results'[p][k].tensor :
            Says(program', p, k, results'[p][k], i)
  BY Zenon DEF NoMixedSums
<1> HIDE DEF Says
<1> QED
  BY <1>1, <1>2

LEMMA UnmixedAnswers ==
    ASSUME TInv, NoMixedSums, UNCHANGED program, NEW to, NEW r,
           results' = [q \in Peers |-> IF q \in to THEN Append(results[q], r[q]) ELSE results[q]],
           \A q \in to \cap Peers : Unmixed(q, Len(results[q]) + 1, r[q])
    PROVE  NoMixedSums'
<1> SUFFICES ASSUME NEW q \in Peers, NEW k \in DOMAIN results'[q]
             PROVE  Unmixed(q, k, results'[q][k])
  BY UnmixedNext
<1>1. PICK S : results[q] \in Seq(S)
  BY DEF TInv, IInv, ClientTypes, IsSequence
<1>2. \A j \in DOMAIN results[q] : Unmixed(q, j, results[q][j])
  BY UnmixedResults
<1>3. CASE q \in to
  <2> DEFINE n == Len(results[q])
  <2>1. n \in Nat /\ DOMAIN results[q] = 1 .. n
    BY <1>1
  <2>2. results'[q] = Append(results[q], r[q])
    BY <1>3
  <2>3. results[q] \in Seq(S \cup {r[q]})
    BY <1>1
  <2>4. /\ DOMAIN results'[q] = 1 .. n + 1 /\ results'[q][n + 1] = r[q]
        /\ \A j \in 1 .. n : results'[q][j] = results[q][j]
    BY <2>1, <2>2, <2>3
  <2>5. k \in 1 .. n \/ k = n + 1
    BY <2>1, <2>4
  <2> QED
    BY <1>2, <1>3, <2>1, <2>4, <2>5
<1>4. CASE q \notin to
  BY <1>2, <1>4
<1> QED
  BY <1>3, <1>4

(* A sum of the tensors of all callers is a result of each of them. *)
LEMMA SumUnmixed ==
    ASSUME TInv, OperationsAlike, UNCHANGED program, NEW p \in Peers,
           NEW kinds, kinds \in {{"all_reduce"}, {"reduce"}}, Joins(p, kinds),
           NEW sum, sum = Of(Inputs(AllCallers(p)), NextCall(p).size),
           NEW q \in Range(AllCallers(p))
    PROVE  Unmixed(q, Len(results[q]) + 1,
                   Returned(sum, Divisor(NextCall(p).op, Len(AllCallers(p)))))
<1> DEFINE all == AllCallers(p)
           call == NextCall(p)
           k == Len(results[q]) + 1
           r == Returned(sum, Divisor(call.op, Len(all)))
<1>1. /\ all \in Seq(Peers) /\ IsInjective(all) /\ Len(all) > 0
      /\ call \in Calls /\ call.kind \in kinds
      /\ \A x \in Range(all) :
            /\ x \in Peers /\ calls'[x] = Len(results[x]) + 1
            /\ program[x][calls'[x]].kind = call.kind
            /\ call.kind # "broadcast" => AskedAlike(program[x][calls'[x]], call)
  BY CallersAsked DEF Kinds
<1>2. call.kind # "broadcast" /\ call.size \in Nat
  BY <1>1 DEF Calls, Kinds
<1>3. \A x \in Range(all) :
         /\ program[x][calls'[x]].kind = call.kind /\ program[x][calls'[x]].op = call.op
         /\ program[x][calls'[x]].size = call.size /\ program[x][calls'[x]].root = call.root
  BY <1>1, <1>2 DEF AskedAlike
<1>4. Cardinality(Inputs(all)) = Len(all)
  BY <1>1, <1>2, <1>3, InputsAre
<1>5. calls'[q] = k
  BY <1>1
<1>6. /\ r.tensor = [i \in 1 .. call.size |-> SetToBag(Inputs(all))]
      /\ r.by = Divisor(call.op, Len(all))
  BY DEF Returned, Of
<1> HIDE DEF k, r, call, all
<1>7. ASSUME NEW i \in DOMAIN r.tensor
      PROVE  /\ DOMAIN r.tensor[i] = Inputs(all)
             /\ \A x \in Inputs(all) : r.tensor[i][x] = 1
  BY <1>6 DEF SetToBag
<1>8. \A x \in Inputs(all) :
         LET c == program[x[1]][x[2]]
         IN  c.kind = call.kind /\ c.op = call.op /\ c.size = call.size /\ c.root = call.root
  BY <1>3 DEF Inputs
<1>9. <<q, k>> \in Inputs(all)
  BY <1>5 DEF Inputs, all
<1>10. LET c == program[q][k]
       IN  c.kind = call.kind /\ c.op = call.op /\ c.size = call.size /\ c.root = call.root
  BY <1>8, <1>9
<1>11. call.op = "mean" => r.by = Cardinality(Inputs(all))
  BY <1>4, <1>6 DEF Divisor
<1>12. Unmixed(q, k, r)
  BY <1>7, <1>8, <1>9, <1>10, <1>11, Zenon DEF Unmixed
<1> QED
  BY <1>12 DEF k, r, call, all

LEMMA IndexOf ==
    ASSUME NEW T, NEW s \in Seq(T), NEW e \in Range(s)
    PROVE  SelectInSeq(s, LAMBDA c : c = e) \in 1 .. Len(s)
<1> DEFINE I == {i \in 1 .. Len(s) : s[i] = e}
<1>1. Len(s) \in Nat /\ DOMAIN s = 1 .. Len(s)
  OBVIOUS
<1>2. I # {} /\ I \in SUBSET Nat
  BY <1>1 DEF Range
<1>3. \E m \in I : \A n \in I : m <= n
  <2> HIDE DEF I
  <2> QED
    BY <1>2, NatMinimum
<1>4. Min(I) \in I
  BY <1>3 DEF Min
<1>5. SelectInSeq(s, LAMBDA c : c = e) = Min(I)
  BY <1>2 DEF SelectInSeq
<1> QED
  BY <1>4, <1>5

(* Each place of an all-reduce of a node holds the sum over all callers.   *)
LEMMA SumsOfCallers ==
    ASSUME TInv, OperationsAlike, ConfigsKnown, NEW p \in Peers,
           Joins(p, {"all_reduce"}), ~RingPanics(p),
           NEW i \in 1 .. Len(AllCallers(p))
    PROVE  AllReduceSum(config[NodeOf[p]].strategy, Tensors(AllCallers(p)))[i]
             = Of(Inputs(AllCallers(p)), NextCall(p).size)
<1> DEFINE all == AllCallers(p)
           call == NextCall(p)
           n == NodeOf[p]
<1>1. /\ all \in Seq(Peers) /\ IsInjective(all) /\ Len(all) > 0
      /\ call \in Calls /\ call.kind \in {"all_reduce"}
      /\ \A x \in Range(all) : AskedAlike(program[x][calls'[x]], call)
  BY CallersAsked DEF Kinds
<1>2. call.size \in Nat
  BY <1>1 DEF Calls, Kinds
<1>3. \A x \in Range(all) : program[x][calls'[x]].size = call.size
  BY <1>1 DEF AskedAlike
<1> HIDE DEF all, call
<1>4. /\ Parts(Tensors(all), InputSets(all), call.size)
      /\ Len(Tensors(all)) = Len(all) /\ DOMAIN Tensors(all) = 1 .. Len(all)
      /\ FirstSets(InputSets(all), Len(all)) = Inputs(all)
  BY <1>1, <1>2, <1>3, InputsAre
<1>5. config[n].strategy \in {"ring", "tree", "centralized"}
  <2>1. n \in Nodes /\ p \in peers[n]
    BY <1>1, PeersAssumption DEF Joins, Accepted, call
  <2>2. config[n] \in Configs
    BY <2>1 DEF ConfigsKnown
  <2> QED
    BY <2>2 DEF Configs
<1>6. config[n].strategy = "ring" => CanCut(Tensors(all))
  BY DEF RingPanics, all
<1>7. i \in 1 .. Len(Tensors(all))
  BY <1>4 DEF all
<1> HIDE DEF n
<1>8. AllReduceSum(config[n].strategy, Tensors(all))[i]
        = Of(FirstSets(InputSets(all), Len(Tensors(all))), call.size)
  BY <1>2, <1>4, <1>5, <1>6, <1>7, AllDevicesGetTheSum
<1> QED
  BY <1>4, <1>8 DEF n, all, call

(* What fails is mixed with nothing. *)
LEMMA NothingMixedAnswers ==
    ASSUME TInv, NoMixedSums, UNCHANGED program, NEW to, NEW r,
           results' = [q \in Peers |-> IF q \in to THEN Append(results[q], r[q]) ELSE results[q]],
           \A q \in to \cap Peers : r[q].tensor = <<>>
    PROVE  NoMixedSums'
BY NothingMixed, UnmixedAnswers

LEMMA LocalAllReduceUnmixed ==
    ASSUME TInv, OperationsAlike, ConfigsKnown, NoMixedSums, NEW p \in Peers, LocalAllReduce(p)
    PROVE  NoMixedSums'
<1> DEFINE n == NodeOf[p]
           all == AllCallers(p)
           call == NextCall(p)
           sums == AllReduceSum(config[n].strategy, Tensors(all))
           at(q) == SelectInSeq(all, LAMBDA c : c = q)
           r == [q \in Peers |-> Returned(sums[at(q)], Divisor(call.op, Len(all)))]
           e == [q \in Peers |-> Failed("LocalServerMissing")]
           to == {q \in Peers : NodeOf[q] = n /\ (Waiting(q) \/ q = p)}
<1>1. Joins(p, {"all_reduce"})
  BY DEF LocalAllReduce
<1>2. UNCHANGED program
  BY <1>1 DEF Joins, Handle, Makes
<1>3. CASE RingPanics(p)
  <2>1. results' = [q \in Peers |-> IF q \in to THEN Append(results[q], e[q]) ELSE results[q]]
    BY <1>3 DEF LocalAllReduce, Execute, Answer
  <2>2. \A q \in to \cap Peers : e[q].tensor = <<>>
    BY NothingInFailed
  <2> HIDE DEF to, e
  <2> QED
    BY <1>2, <2>1, <2>2, NothingMixedAnswers
<1>4. CASE ~RingPanics(p)
  <2>1. results' = [q \in Peers |-> IF q \in Range(all) THEN Append(results[q], r[q])
                                    ELSE results[q]]
    BY <1>4 DEF LocalAllReduce, Execute, Answer
  <2>2. ASSUME NEW q \in Range(all) \cap Peers PROVE Unmixed(q, Len(results[q]) + 1, r[q])
    <3>1. all \in Seq(Peers)
      BY <1>1, CallersAsked DEF Kinds
    <3>2. at(q) \in 1 .. Len(all)
      BY <2>2, <3>1, IndexOf
    <3>3. sums[at(q)] = Of(Inputs(all), call.size)
      BY <1>1, <1>4, <3>2, SumsOfCallers
    <3>4. r[q] = Returned(sums[at(q)], Divisor(call.op, Len(all)))
      BY <2>2
    <3>5. Unmixed(q, Len(results[q]) + 1, Returned(sums[at(q)], Divisor(call.op, Len(all))))
      <4> HIDE DEF at, sums
      <4> QED
        BY <1>1, <1>2, <2>2, <3>3, SumUnmixed
    <3> QED
      BY <3>4, <3>5
  <2> HIDE DEF all, r
  <2> QED
    BY <1>2, <2>1, <2>2, UnmixedAnswers
<1> QED
  BY <1>3, <1>4

LEMMA LocalReduceUnmixed ==
    ASSUME TInv, OperationsAlike, NoMixedSums, NEW p \in Peers, LocalReduceReturns(p)
    PROVE  NoMixedSums'
<1> DEFINE n == NodeOf[p]
           all == AllCallers(p)
           call == NextCall(p)
           sum == TreeSum(Tensors(all), 2)
           r == [q \in Peers |-> IF q = call.root THEN Returned(sum, Divisor(call.op, Len(all)))
                                 ELSE Ok]
           e == [q \in Peers |-> Failed("LocalServerMissing")]
           to == {q \in Peers : NodeOf[q] = n /\ (Waiting(q) \/ q = p)}
           panics == client[n] # NoClient \/ call.root \notin Range(all)
<1>1. Joins(p, {"reduce"})
  BY DEF LocalReduceReturns
<1>2. UNCHANGED program
  BY <1>1 DEF Joins, Handle, Makes
<1>3. CASE panics
  <2>1. results' = [q \in Peers |-> IF q \in to THEN Append(results[q], e[q]) ELSE results[q]]
    BY <1>3 DEF LocalReduceReturns, Execute, Answer
  <2>2. \A q \in to \cap Peers : e[q].tensor = <<>>
    BY NothingInFailed
  <2> HIDE DEF to, e
  <2> QED
    BY <1>2, <2>1, <2>2, NothingMixedAnswers
<1>4. CASE ~panics
  <2>1. results' = [q \in Peers |-> IF q \in Range(all) THEN Append(results[q], r[q])
                                    ELSE results[q]]
    BY <1>4 DEF LocalReduceReturns, Execute, Answer
  <2>2. sum = Of(Inputs(all), call.size)
    <3>1. /\ all \in Seq(Peers) /\ IsInjective(all) /\ Len(all) > 0
          /\ call \in Calls /\ call.kind \in {"reduce"}
          /\ \A x \in Range(all) : AskedAlike(program[x][calls'[x]], call)
      BY <1>1, CallersAsked DEF Kinds
    <3>2. call.size \in Nat
      BY <3>1 DEF Calls, Kinds
    <3>3. \A x \in Range(all) : program[x][calls'[x]].size = call.size
      BY <3>1 DEF AskedAlike
    <3> HIDE DEF all, call
    <3>4. /\ Parts(Tensors(all), InputSets(all), call.size)
          /\ Len(Tensors(all)) = Len(all)
          /\ FirstSets(InputSets(all), Len(all)) = Inputs(all)
      BY <3>1, <3>2, <3>3, InputsAre
    <3> QED
      BY <3>2, <3>4, TreeSumOf
  <2>3. ASSUME NEW q \in Range(all) \cap Peers PROVE Unmixed(q, Len(results[q]) + 1, r[q])
    <3>1. CASE q = call.root
      <4>1. r[q] = Returned(sum, Divisor(call.op, Len(all)))
        BY <2>3, <3>1
      <4>2. Unmixed(q, Len(results[q]) + 1, Returned(sum, Divisor(call.op, Len(all))))
        <5> HIDE DEF sum
        <5> QED
          BY <1>1, <1>2, <2>2, <2>3, SumUnmixed
      <4> QED
        BY <4>1, <4>2
    <3>2. CASE q # call.root
      BY <2>3, <3>2, NothingInFailed, NothingMixed
    <3> QED
      BY <3>1, <3>2
  <2> HIDE DEF all, r
  <2> QED
    BY <1>2, <2>1, <2>3, UnmixedAnswers
<1> QED
  BY <1>3, <1>4

LEMMA LocalBroadcastUnmixed ==
    ASSUME TInv, OperationsAlike, NoMixedSums, NEW p \in Peers, LocalBroadcastReturns(p)
    PROVE  NoMixedSums'
<1> DEFINE n == NodeOf[p]
           all == AllCallers(p)
           senders == {q \in Range(all) : program[q][calls'[q]].tensor}
           s == CHOOSE x \in senders : TRUE
           sent == IF senders = {} THEN Failed("BroadcastNoTensor")
                   ELSE Returned(TensorOf(s), 1)
           r == [q \in Peers |-> sent]
           e == [q \in Peers |-> Failed("LocalServerMissing")]
           to == {q \in Peers : NodeOf[q] = n /\ (Waiting(q) \/ q = p)}
<1>1. Joins(p, {"broadcast"})
  BY DEF LocalBroadcastReturns
<1>2. UNCHANGED program
  BY <1>1 DEF Joins, Handle, Makes
<1>3. CASE client[n] # NoClient
  <2>1. results' = [q \in Peers |-> IF q \in to THEN Append(results[q], e[q]) ELSE results[q]]
    BY <1>3 DEF LocalBroadcastReturns, Execute, Answer
  <2>2. \A q \in to \cap Peers : e[q].tensor = <<>>
    BY NothingInFailed
  <2> HIDE DEF to, e
  <2> QED
    BY <1>2, <2>1, <2>2, NothingMixedAnswers
<1>4. CASE client[n] = NoClient
  <2>1. results' = [q \in Peers |-> IF q \in Range(all) THEN Append(results[q], r[q])
                                    ELSE results[q]]
    BY <1>4 DEF LocalBroadcastReturns, Execute, Answer
  <2>2. ASSUME NEW q \in Range(all) \cap Peers PROVE Unmixed(q, Len(results[q]) + 1, r[q])
    <3>1. CASE senders = {}
      <4>1. r[q].tensor = <<>>
        BY <2>2, <3>1, NothingInFailed
      <4> QED
        BY <4>1, NothingMixed
    <3>2. CASE senders # {}
      <4> DEFINE k == Len(results[q]) + 1
                 size == program[s][calls'[s]].size
                 x == <<s, calls'[s]>>
                 c == program[q][k]
      <4>1. s \in senders
        BY <3>2
      <4>2. r[q] = Returned(Of({x}, size), 1)
        BY <2>2, <3>2, WholeIsOf DEF TensorOf
      <4>3. \A y \in Range(all) :
               calls'[y] = Len(results[y]) + 1 /\ program[y][calls'[y]].kind = NextCall(p).kind
        BY <1>1, CallersAsked DEF Kinds
      <4>4. c.kind = "broadcast" /\ program[s][calls'[s]].kind = "broadcast"
        <5>1. NextCall(p).kind = "broadcast"
          BY <1>1, CallersAsked DEF Kinds
        <5>2. s \in Range(all) /\ q \in Range(all)
          BY <2>2, <4>1
        <5> HIDE DEF s, all
        <5> QED
          BY <4>3, <5>1, <5>2
      <4> HIDE DEF s, senders, r, all, n
      <4>5. /\ r[q].tensor = [i \in 1 .. size |-> SetToBag({x})] /\ r[q].by = 1
        BY <4>2 DEF Returned, Of
      <4> HIDE DEF k, size
      <4>6. ASSUME NEW i \in DOMAIN r[q].tensor
            PROVE  DOMAIN r[q].tensor[i] = {x} /\ r[q].tensor[i][x] = 1
        BY <4>5 DEF SetToBag
      <4>7. program[x[1]][x[2]].kind = "broadcast"
        BY <4>4
      <4>8. Cardinality({x}) = 1
        BY FS_Singleton
      <4> HIDE DEF x
      <4> QED
        BY <4>4, <4>5, <4>6, <4>7, <4>8, Zenon DEF Unmixed, k
    <3> QED
      BY <3>1, <3>2
  <2> HIDE DEF all, r
  <2> QED
    BY <1>2, <2>1, <2>2, UnmixedAnswers
<1> QED
  BY <1>3, <1>4

(* Who is answered, if anyone, gets no tensor. *)
NoTensors ==
    \/ UNCHANGED results
    \/ \E to : \E r :
          /\ results' = [q \in Peers |-> IF q \in to THEN Append(results[q], r[q]) ELSE results[q]]
          /\ \A q \in Peers : r[q].tensor = <<>>

LEMMA NoTensorsReply ==
    ASSUME NEW to, NEW r, r.tensor = <<>>,
           results' = [q \in Peers |-> IF q \in to THEN Append(results[q], r) ELSE results[q]]
    PROVE  NoTensors
<1> DEFINE f == [q \in Peers |-> r]
<1>1. results' = [q \in Peers |-> IF q \in to THEN Append(results[q], f[q]) ELSE results[q]]
  OBVIOUS
<1>2. \A q \in Peers : f[q].tensor = <<>>
  OBVIOUS
<1>3. \E g : /\ results' = [q \in Peers |-> IF q \in to THEN Append(results[q], g[q])
                                           ELSE results[q]]
             /\ \A q \in Peers : g[q].tensor = <<>>
  <2> HIDE DEF f
  <2> QED
    BY <1>1, <1>2
<1> QED
  BY <1>3, Zenon DEF NoTensors

LEMMA NoTensorsAnswers ==
    ASSUME TInv, NEW p \in Peers,
           \/ InvalidConfig(p) \/ RegisterRefused(p) \/ RegisterPeer(p)
           \/ OpRefused(p) \/ OpMismatch(p) \/ OpWaits(p)
           \/ GlobalAllReduceStarts(p) \/ GlobalAllReduceFails(p)
           \/ FinishRefused(p) \/ FinishPeer(p) \/ ResetServer(p)
    PROVE  NoTensors
<1>1. CASE OpWaits(p) \/ GlobalAllReduceStarts(p)
  BY <1>1 DEF NoTensors, OpWaits, GlobalAllReduceStarts
<1>2. CASE InvalidConfig(p) \/ RegisterRefused(p) \/ OpRefused(p) \/ FinishRefused(p)
  <2>1. \E e : Reply(p, Failed(e))
    BY <1>2 DEF InvalidConfig, RegisterRefused, OpRefused, FinishRefused
  <2>2. PICK e : Reply(p, Failed(e))
    BY <2>1
  <2>3. results' = [q \in Peers |-> IF q \in {p} THEN Append(results[q], Failed(e))
                                    ELSE results[q]]
    BY <2>2 DEF Reply, Answer
  <2> QED
    BY <2>3, NothingInFailed, NoTensorsReply
<1>3. CASE RegisterPeer(p)
  <2>1. UNCHANGED results \/ \E to :
         results' = [q \in Peers |-> IF q \in to THEN Append(results[q], Ok) ELSE results[q]]
    BY <1>3 DEF RegisterPeer, Answer
  <2> QED
    BY <2>1, NothingInFailed, NoTensorsReply DEF NoTensors
<1>4. CASE FinishPeer(p)
  <2>1. \/ UNCHANGED results
        \/ results' = [q \in Peers |-> IF q \in {p} THEN Append(results[q], Ok) ELSE results[q]]
    BY <1>4 DEF FinishPeer, Answer
  <2> QED
    BY <2>1, NothingInFailed, NoTensorsReply DEF NoTensors
<1>5. CASE GlobalAllReduceFails(p)
  <2>1. results' = [q \in Peers |-> IF q \in Range(AllCallers(p)) THEN Append(results[q], Failed("AllReduceBeforeRegister"))
                                    ELSE results[q]]
    BY <1>5 DEF GlobalAllReduceFails, Execute, Answer
  <2> QED
    BY <2>1, NothingInFailed, NoTensorsReply
<1>6. CASE OpMismatch(p)
  <2> DEFINE n == NodeOf[p]
             to == Callers(n, NextCall(p).kind) \cup {p}
             f == [q \in Peers |->
                      Failed(IF q = p THEN "LocalServerMissing" ELSE Mismatch(n, p))]
  <2>1. results' = [q \in Peers |-> IF q \in to THEN Append(results[q], f[q]) ELSE results[q]]
    BY <1>6 DEF OpMismatch, Answer
  <2>2. \A q \in Peers : f[q].tensor = <<>>
    BY NothingInFailed
  <2> HIDE DEF f, to
  <2> QED
    BY <2>1, <2>2 DEF NoTensors
<1>7. CASE ResetServer(p)
  <2> DEFINE to == {p} \cup UNION {Callers(NodeOf[p], kind) : kind \in Kinds}
             f == [q \in Peers |-> IF q = p THEN Ok ELSE Failed("LocalServerMissing")]
  <2>1. results' = [q \in Peers |-> IF q \in to THEN Append(results[q], f[q]) ELSE results[q]]
    BY <1>7 DEF ResetServer, Answer
  <2>2. \A q \in Peers : f[q].tensor = <<>>
    BY NothingInFailed
  <2> HIDE DEF f, to
  <2> QED
    BY <2>1, <2>2 DEF NoTensors
<1> QED
  BY <1>1, <1>2, <1>3, <1>4, <1>5, <1>6, <1>7

LEMMA NoTensorsReturned ==
    ASSUME TInv, NEW n \in Nodes, NodeStep(n), ~GlobalAllReduceReturns(n)
    PROVE  NoTensors
<1>1. CASE GlobalRegisterReturns(n)
  <2> DEFINE to == callbacks[n]
             f == [q \in Peers |-> IF reply[n].kind = "topology" THEN Ok
                                   ELSE Failed(reply[n].error)]
  <2>1. results' = [q \in Peers |-> IF q \in to THEN Append(results[q], f[q]) ELSE results[q]]
    BY <1>1 DEF GlobalRegisterReturns, Answer
  <2>2. \A q \in Peers : f[q].tensor = <<>>
    BY NothingInFailed
  <2> HIDE DEF f, to
  <2> QED
    BY <2>1, <2>2 DEF NoTensors
<1>2. CASE GlobalFinishReturns(n)
  <2>1. results' = [q \in Peers |-> IF q \in task[n].callers THEN Append(results[q], Ok)
                                    ELSE results[q]]
    BY <1>2 DEF GlobalFinishReturns, Answer
  <2> QED
    BY <2>1, NothingInFailed, NoTensorsReply
<1>3. CASE GlobalAllReduceMeets(n)
  BY <1>3 DEF NoTensors, GlobalAllReduceMeets, clientVars
<1>4. CASE OrchestratorStep(n) /\ UNCHANGED <<clientVars, serverVars, globalVars>>
  BY <1>4 DEF NoTensors, clientVars
<1> QED
  BY <1>1, <1>2, <1>3, <1>4 DEF NodeStep

(* Only the sums of several nodes are of calls that nobody compares. *)
LEMMA UnmixedStep ==
    ASSUME TInv, OperationsAlike, ConfigsKnown, NoMixedSums, [Next]_vars,
           \A n \in Nodes : ~GlobalAllReduceReturns(n)
    PROVE  NoMixedSums'
<1>1. ASSUME NoTensors, UNCHANGED program PROVE NoMixedSums'
  <2>1. CASE UNCHANGED results
    <3>1. \A p \in Peers : \A k \in DOMAIN results'[p] : Unmixed(p, k, results'[p][k])
      BY <2>1, UnmixedResults
    <3> QED
      BY <1>1, <3>1, UnmixedNext
  <2>2. CASE \E to : \E r :
                /\ results' = [q \in Peers |-> IF q \in to THEN Append(results[q], r[q])
                                              ELSE results[q]]
                /\ \A q \in Peers : r[q].tensor = <<>>
    BY <1>1, <2>2, NothingMixedAnswers
  <2> QED
    BY <1>1, <2>1, <2>2 DEF NoTensors
<1>2. ASSUME NEW p \in Peers, PeerStep(p) PROVE NoMixedSums'
  <2>1. CASE LocalAllReduce(p)
    BY <2>1, LocalAllReduceUnmixed
  <2>2. CASE LocalReduceReturns(p)
    BY <2>2, LocalReduceUnmixed
  <2>3. CASE LocalBroadcastReturns(p)
    BY <2>3, LocalBroadcastUnmixed
  <2>4. CASE ~LocalAllReduce(p) /\ ~LocalReduceReturns(p) /\ ~LocalBroadcastReturns(p)
    <3>1. UNCHANGED program
      BY <1>2, PeerStepMakes DEF Makes, InvalidConfig, Handle
    <3> QED
      BY <1>1, <1>2, <2>4, <3>1, NoTensorsAnswers DEF PeerStep
  <2> QED
    BY <2>1, <2>2, <2>3, <2>4
<1>3. ASSUME NEW n \in Nodes, NodeStep(n) PROVE NoMixedSums'
  <2>1. UNCHANGED program
    BY <1>3 DEF NodeStep, GlobalRegisterReturns, GlobalFinishReturns, GlobalAllReduceMeets,
       GlobalAllReduceReturns, clientVars
  <2> QED
    BY <1>1, <1>3, <2>1, NoTensorsReturned
<1>4. CASE UNCHANGED vars
  BY <1>1, <1>4 DEF NoTensors, vars, clientVars
<1> QED
  BY <1>2, <1>3, <1>4 DEF Next

-----------------------------------------------------------------------------
(* Calls of which none configures a global collective, and a system that   *)
(* runs them: no server has a client.                                      *)
LocalCalls ==
    \A p \in Peers : \A k \in DOMAIN program[p] :
        program[p][k].kind = "register" => program[p][k].config.nodes = 0

NoGlobal == \A n \in Nodes : client[n] = NoClient /\ task[n] = Idle

LEMMA LocalCallsStep == ASSUME TInv, LocalCalls, NoGlobal, [Next]_vars PROVE LocalCalls' /\ NoGlobal'
<1>1. UNCHANGED program
  BY PeerStepMakes DEF Next, NodeStep, Makes, InvalidConfig, Handle, GlobalRegisterReturns,
     GlobalFinishReturns, GlobalAllReduceMeets, GlobalAllReduceReturns, clientVars, vars
<1>2. ASSUME NEW p \in Peers, PeerStep(p) PROVE UNCHANGED <<client, task>>
  <2>1. CASE RegisterPeer(p)
    <3>1. Makes(p, {"register"})
      BY <2>1 DEF RegisterPeer, Handle
    <3>2. calls[p] + 1 \in DOMAIN program[p] /\ NextCall(p).kind = "register"
      BY <3>1, NextCallType DEF Makes
    <3>3. NextCall(p).config.nodes = 0
      BY <3>2 DEF LocalCalls, NextCall
    <3> QED
      BY <2>1, <3>3 DEF RegisterPeer
  <2>2. CASE FinishPeer(p)
    BY <2>2, PeersAssumption DEF FinishPeer, NoGlobal
  <2>3. CASE GlobalAllReduceStarts(p)
    BY <2>3, PeersAssumption DEF GlobalAllReduceStarts, NoGlobal
  <2> QED
    BY <1>2, <2>1, <2>2, <2>3 DEF PeerStep, InvalidConfig, RegisterRefused, OpRefused, OpMismatch,
       OpWaits, LocalAllReduce, GlobalAllReduceFails, LocalReduceReturns, LocalBroadcastReturns,
       FinishRefused, ResetServer, Reply, Execute, serverVars
<1>3. ASSUME NEW n \in Nodes, NodeStep(n) PROVE UNCHANGED <<client, task>>
  <2>1. task[n].kind = "idle"
    BY DEF NoGlobal, Idle
  <2> QED
    BY <1>3, <2>1 DEF NodeStep, GlobalRegisterReturns, GlobalFinishReturns, GlobalAllReduceMeets,
       GlobalAllReduceReturns, serverVars
<1>4. UNCHANGED <<client, task>>
  BY <1>2, <1>3 DEF Next, vars, serverVars
<1> QED
  BY <1>1, <1>4 DEF LocalCalls, NoGlobal

LEMMA UnmixedLocally ==
    Spec => [](TInv /\ OperationsAlike /\ ConfigsKnown
               /\ (LocalCalls => NoGlobal /\ NoMixedSums))
<1> DEFINE Inv == /\ TInv /\ OperationsAlike /\ ConfigsKnown
                  /\ LocalCalls => NoGlobal /\ NoMixedSums
<1>1. Init => Inv
  <2> SUFFICES ASSUME Init PROVE Inv
    OBVIOUS
  <2>1. TInv /\ OperationsAlike
    <3>1. OperationsAlike
      BY RangeOfEmpty DEF Init, NoOps, OperationsAlike, AlikeAt, Callers
    <3> QED
      BY <3>1, TypesStart
  <2>2. ConfigsKnown
    BY DEF Init, ConfigsKnown
  <2>3. NoGlobal
    BY DEF Init, NoGlobal
  <2>4. NoMixedSums
    <3>1. \A p \in Peers : DOMAIN results[p] = {}
      BY DEF Init
    <3> QED
      BY <3>1 DEF NoMixedSums
  <2> QED
    BY <2>1, <2>2, <2>3, <2>4
<1>2. Inv /\ [Next]_vars => Inv'
  <2> SUFFICES ASSUME Inv, [Next]_vars PROVE Inv'
    OBVIOUS
  <2>1. TInv' /\ OperationsAlike' /\ ConfigsKnown'
    BY TypesStay, AlikeStep, ConfigsStep
  <2>2. ASSUME LocalCalls' PROVE NoGlobal' /\ NoMixedSums'
    <3>1. UNCHANGED program
      BY PeerStepMakes DEF Next, NodeStep, Makes, InvalidConfig, Handle, GlobalRegisterReturns,
         GlobalFinishReturns, GlobalAllReduceMeets, GlobalAllReduceReturns, clientVars, vars
    <3>2. LocalCalls
      BY <2>2, <3>1 DEF LocalCalls
    <3>3. NoGlobal /\ NoMixedSums
      BY <3>2
    <3>4. \A n \in Nodes : ~GlobalAllReduceReturns(n)
      BY <3>3 DEF GlobalAllReduceReturns, NoGlobal, Idle
    <3> QED
      BY <3>2, <3>3, <3>4, LocalCallsStep, UnmixedStep
  <2> QED
    BY <2>1, <2>2
<1> QED
  BY <1>1, <1>2, PTL DEF Spec

(* On a node (local/server.rs and its op.rs files), whatever the peers     *)
(* call, with resets, calls that do not match and peers that do not        *)
(* register: a tensor that is returned is computed from calls that asked   *)
(* for the same, each once, and its own; a mean is over the tensors in it. *)
(* Between nodes the code compares nothing.                                *)
THEOREM NothingMixedOnANode == Spec => [](LocalCalls => NoMixedSums)
BY UnmixedLocally, PTL

-----------------------------------------------------------------------------
(* Where any program may fail.                                             *)

(* Nobody is left alone with an operation but by a finish. *)
LEMMA OnlyFinishLeaves ==
    ASSUME TInv, [Next]_vars, NEW n \in Nodes, NEW kind \in Kinds,
           ~AllWait(n, kind), AllWait(n, kind)'
    PROVE  \E p \in Peers : calls'[p] # calls[p] /\ NodeOf[p] = n /\ NextCall(p).kind = "finish"
<1>0. /\ peers \in [Nodes -> SUBSET Peers] /\ ops \in [Nodes -> [Kinds -> Seq(Peers)]]
      /\ IInv /\ calls \in [Peers -> Nat]
  BY DEF TInv, IInv, ServerTypes, MoreServerTypes, ClientTypes
<1>1. ASSUME ops'[n][kind] \in {ops[n][kind], <<>>}, peers'[n] = peers[n] PROVE FALSE
  BY <1>1 DEF AllWait, Callers
<1>2. ASSUME NEW p \in Peers, PeerStep(p), ~FinishPeer(p) PROVE FALSE
  <2> DEFINE m == NodeOf[p]
  <2>0. m \in Nodes
    BY PeersAssumption
  <2>1. CASE RegisterPeer(p)
    <3>1. Handle(p, {"register"}) /\ UNCHANGED ops /\ peers' = [peers EXCEPT ![m] = @ \cup {p}]
      BY <2>1 DEF RegisterPeer
    <3>2. n = m
      BY <1>0, <1>1, <3>1
    <3>3. p \in peers'[n]
      BY <1>0, <3>1, <3>2
    <3>4. p \notin Callers(n, kind)
      BY <1>0, <3>1, <3>2, NotACaller DEF Callers
    <3> QED
      BY <3>1, <3>3, <3>4 DEF AllWait, Callers
  <2>2. CASE OpWaits(p)
    <3> DEFINE k == NextCall(p).kind
               s == ops[m][k]
    <3>1. /\ Handle(p, Kinds) /\ k \in Kinds /\ ~AllCalled(p) /\ UNCHANGED peers
          /\ ops' = [ops EXCEPT ![m][k] = Append(@, p)]
      BY <2>2 DEF OpWaits, Joins, Handle, Makes
    <3>2. s \in Seq(Peers) /\ IsInjective(s) /\ p \notin Range(s)
      BY <1>0, <2>0, <3>1, NotACaller DEF TInv, MoreServerTypes, CallersOf
    <3>3. n = m /\ kind = k
      <4> HIDE DEF m, k
      <4>1. n # m \/ kind # k => ops'[n][kind] = ops[n][kind]
        BY <1>0, <2>0, <3>1
      <4> QED
        BY <1>1, <3>1, <4>1
    <3>4. ops'[n][kind] = Append(s, p)
      BY <1>0, <2>0, <3>1, <3>3
    <3>5. peers[n] = Range(Append(s, p))
      BY <3>1, <3>4 DEF AllWait, Callers
    <3>6. Append(s, p) \in Seq(Peers) /\ IsInjective(Append(s, p)) /\ Len(Append(s, p)) = Len(s) + 1
      BY <3>2, InjectiveAppend
    <3>7. Cardinality(peers[n]) = Len(s) + 1
      BY <3>5, <3>6, SizeOfRange
    <3> QED
      BY <3>1, <3>3, <3>7 DEF AllCalled
  <2>3. CASE ~RegisterPeer(p) /\ ~OpWaits(p)
    <3>1. ops'[n][kind] \in {ops[n][kind], <<>>}
      BY <1>2, <2>3, OpsGetFewer
    <3>2. CASE ResetServer(p)
      <4>1. n # m
        <5>1. ops' = [ops EXCEPT ![m] = NoOps]
          BY <3>2 DEF ResetServer, OpsLeft
        <5>2. n = m => ops'[n][kind] = <<>>
          BY <1>0, <5>1 DEF NoOps
        <5> QED
          BY <5>2 DEF AllWait
      <4>2. peers'[n] = peers[n]
        BY <1>0, <3>2, <4>1 DEF ResetServer
      <4> QED
        BY <1>1, <3>1, <4>2
    <3>3. CASE ~ResetServer(p)
      <4>1. UNCHANGED peers
        BY <1>2, <2>3, <3>3 DEF PeerStep, InvalidConfig, RegisterRefused, OpRefused, OpMismatch,
           LocalAllReduce, GlobalAllReduceStarts, GlobalAllReduceFails, LocalReduceReturns,
           LocalBroadcastReturns, FinishRefused, Reply, Execute, serverVars
      <4> QED
        BY <1>1, <3>1, <4>1
    <3> QED
      BY <3>2, <3>3
  <2> QED
    BY <2>1, <2>2, <2>3
<1>3. ASSUME NEW p \in Peers, FinishPeer(p) PROVE NodeOf[p] = n /\ calls'[p] # calls[p] /\ NextCall(p).kind = "finish"
  <2>1. /\ Makes(p, {"finish"}) /\ UNCHANGED ops
        /\ peers' = [peers EXCEPT ![NodeOf[p]] = @ \ {p}]
    BY <1>3 DEF FinishPeer, Handle
  <2>2. NodeOf[p] = n
    BY <1>0, <1>1, <2>1
  <2> QED
    BY <1>0, <2>1, <2>2 DEF Makes
<1>4. ASSUME UNCHANGED <<ops, peers>> PROVE FALSE
  BY <1>1, <1>4
<1>5. ASSUME NEW m \in Nodes, NodeStep(m) PROVE FALSE
  BY <1>4, <1>5 DEF NodeStep, GlobalRegisterReturns, GlobalFinishReturns, GlobalAllReduceMeets,
     GlobalAllReduceReturns, serverVars
<1> QED
  BY <1>2, <1>3, <1>4, <1>5 DEF Next, vars, serverVars

(* Whatever the peers call (local/server.rs 320-460): an operation that    *)
(* all registered peers have called is executed with the last call; that   *)
(* they wait with nobody left to call comes from a finish (server.rs:483), *)
(* that does not look at the operations.                                   *)
THEOREM StrandedByFinishOnly == Spec => OnlyFinishStrands
<1> DEFINE A == \A n \in Nodes : \A kind \in Kinds :
                   ~AllWait(n, kind) /\ AllWait(n, kind)' =>
                      \E p \in Peers : calls'[p] # calls[p] /\ NodeOf[p] = n /\ NextCall(p).kind = "finish"
<1>1. TInv /\ [Next]_vars => A
  BY OnlyFinishLeaves
<1> QED
  BY <1>1, TypesInductive, PTL DEF Spec, OnlyFinishStrands

(* A ring can cut a tensor if the last slice begins within it. *)
LEMMA SlicesFit ==
    ASSUME NEW size \in Nat, NEW count \in Nat, count > 0, RingFits(size, count)
    PROVE  CanSlice(size, count)
<1> DEFINE width == (size + count - 1) \div count
<1>1. width \in Nat /\ (count - 1) * width <= size
  <2>1. size + count - 1 \in Nat
    OBVIOUS
  <2> QED
    BY <2>1 DEF RingFits
<1>2. SliceRanges(size, count) =
         [i \in 1 .. count |-> [start |-> (i - 1) * width,
                               end |-> IF i = count THEN size ELSE i * width]]
  BY DEF SliceRanges
<1> HIDE DEF width
<1>3. \A i, j \in Nat : i <= j => i * width <= j * width
  BY <1>1
<1>4. ASSUME NEW i \in 1 .. count
      PROVE  LET r == SliceRanges(size, count)[i] IN r.start <= r.end /\ r.end <= size
  <2>1. CASE i = count
    BY <1>1, <1>2, <2>1
  <2>2. CASE i # count
    <3>1. i \in Nat /\ count - 1 \in Nat /\ i - 1 \in Nat /\ i <= count - 1
      BY <2>2
    <3>2. i * width <= (count - 1) * width /\ (i - 1) * width <= i * width
      BY <1>3, <3>1
    <3>3. SliceRanges(size, count)[i] = [start |-> (i - 1) * width, end |-> i * width]
      BY <1>2, <2>2
    <3>4. i * width \in Nat /\ (count - 1) * width \in Nat
      BY <1>1, <3>1
    <3> QED
      BY <1>1, <3>2, <3>3, <3>4
  <2> QED
    BY <2>1, <2>2
<1> QED
  BY <1>4 DEF CanSlice


(* A server has a global client if it was asked for one. *)
ClientsAsked == \A n \in Nodes : client[n] # NoClient => AskedGlobal(n)

LEMMA ClientsAskedStep == ASSUME TInv, ClientsAsked, [Next]_vars PROVE ClientsAsked'
<1>0. calls \in [Peers -> Nat] /\ DOMAIN client = Nodes
  BY DEF TInv, IInv, ClientTypes, MoreServerTypes
<1>1. UNCHANGED program
  BY ProgramStep
<1>2. ASSUME \A p \in Peers : calls'[p] \in Nat /\ calls[p] <= calls'[p],
             NEW n \in Nodes, client[n] # NoClient
      PROVE  AskedGlobal(n)'
  <2>1. PICK p \in Peers : NodeOf[p] = n /\ \E k \in 1 .. calls[p] :
           program[p][k].kind = "register" /\ program[p][k].config.nodes > 0
    BY <1>2 DEF ClientsAsked, AskedGlobal
  <2>2. 1 .. calls[p] \subseteq 1 .. calls'[p]
    BY <1>0, <1>2
  <2> QED
    BY <1>1, <2>1, <2>2 DEF AskedGlobal
<1>3. ASSUME NEW p \in Peers, PeerStep(p) PROVE ClientsAsked'
  <2> DEFINE m == NodeOf[p]
  <2>0. \E kinds : Makes(p, kinds)
    BY <1>3, PeerStepMakes DEF InvalidConfig, Handle
  <2>1. calls' = [calls EXCEPT ![p] = @ + 1]
    BY <2>0 DEF Makes
  <2>2. \A q \in Peers : calls'[q] \in Nat /\ calls[q] <= calls'[q]
    BY <1>0, <2>1
  <2>3. CASE UNCHANGED client
    BY <1>2, <2>2, <2>3 DEF ClientsAsked
  <2>4. CASE RegisterPeer(p) /\ client' # client
    <3>1. /\ Makes(p, {"register"}) /\ NextCall(p).config.nodes > 0
          /\ client' = [client EXCEPT ![m] = [kind |-> "node", state |-> NoState]]
      BY <2>4 DEF RegisterPeer, Handle
    <3>2. calls'[p] = calls[p] + 1 /\ calls'[p] \in 1 .. calls'[p]
      BY <1>0, <2>1
    <3>3. AskedGlobal(m)'
      BY <1>1, <3>1, <3>2 DEF AskedGlobal, Makes, NextCall
    <3>4. \A n \in Nodes \ {m} : client'[n] = client[n]
      BY <1>0, <3>1
    <3> QED
      BY <1>2, <2>2, <3>3, <3>4 DEF ClientsAsked
  <2>5. RegisterPeer(p) \/ UNCHANGED client
    BY <1>3 DEF PeerStep, InvalidConfig, RegisterRefused, OpRefused, OpMismatch, OpWaits,
       LocalAllReduce, GlobalAllReduceStarts, GlobalAllReduceFails, LocalReduceReturns,
       LocalBroadcastReturns, FinishRefused, FinishPeer, ResetServer, Reply, Execute, serverVars
  <2> QED
    BY <2>3, <2>4, <2>5
<1>4. ASSUME NEW m \in Nodes, NodeStep(m) PROVE ClientsAsked'
  <2>1. UNCHANGED calls
    BY <1>4 DEF NodeStep, GlobalRegisterReturns, GlobalFinishReturns, GlobalAllReduceMeets,
       GlobalAllReduceReturns, clientVars
  <2>2. \A n \in Nodes : client'[n] # NoClient => client[n] # NoClient
    <3>1. CASE GlobalRegisterReturns(m)
      <4>1. \A n \in Nodes \ {m} : client'[n] = client[n]
        BY <1>0, <3>1 DEF GlobalRegisterReturns
      <4>2. ASSUME client[m] = NoClient PROVE client'[m] = NoClient
        <5>1. client'[m] = client[m] \/ \E s : client'[m] = [client[m] EXCEPT !.state = s]
          BY <1>0, <3>1 DEF GlobalRegisterReturns
        <5>2. \A s : [NoClient EXCEPT !.state = s] = NoClient
          BY DEF NoClient
        <5> QED
          BY <4>2, <5>1, <5>2
      <4> QED
        BY <4>1, <4>2
    <3>2. CASE GlobalFinishReturns(m)
      BY <1>0, <3>2 DEF GlobalFinishReturns
    <3>3. CASE UNCHANGED client
      BY <3>3
    <3> QED
      BY <1>4, <3>1, <3>2, <3>3 DEF NodeStep, GlobalAllReduceMeets, GlobalAllReduceReturns, serverVars
  <2> QED
    BY <1>0, <1>2, <2>1, <2>2 DEF ClientsAsked
<1>5. CASE UNCHANGED vars
  BY <1>1, <1>5 DEF ClientsAsked, AskedGlobal, vars, clientVars, serverVars
<1> QED
  BY <1>3, <1>4, <1>5 DEF Next

(* Why a handler panics. *)
LEMMA RingPanicsUnfit ==
    ASSUME TInv, OperationsAlike, NEW p \in Peers, Joins(p, {"all_reduce"}), AllCalled(p),
           RingPanics(p)
    PROVE  Unfit(p)
<1> DEFINE n == NodeOf[p]
           all == AllCallers(p)
           call == NextCall(p)
           devices == Cardinality(peers[n])
<1>1. /\ all \in Seq(Peers) /\ IsInjective(all) /\ Len(all) > 0
      /\ call \in Calls /\ call.kind \in {"all_reduce"}
      /\ \A x \in Range(all) : AskedAlike(program[x][calls'[x]], call)
  BY CallersAsked DEF Kinds
<1>2. call.size \in Nat
  BY <1>1 DEF Calls, Kinds
<1>3. \A x \in Range(all) : program[x][calls'[x]].size = call.size
  BY <1>1 DEF AskedAlike
<1>4. Len(all) = devices
  <2>1. n \in Nodes /\ call.kind \in Kinds
    BY <1>1, PeersAssumption DEF Kinds
  <2>2. ops[n][call.kind] \in Seq(Peers)
    BY <2>1 DEF TInv, IInv, ServerTypes
  <2> QED
    BY <2>2 DEF AllCalled, AllCallers
<1> HIDE DEF all, call, n, devices
<1>5. /\ Parts(Tensors(all), InputSets(all), call.size) /\ Len(Tensors(all)) = Len(all)
      /\ DOMAIN Tensors(all) = 1 .. Len(all)
  BY <1>1, <1>2, <1>3, InputsAre
<1>6. Len(Head(Tensors(all))) = call.size
  <2>1. 1 \in 1 .. Len(all) /\ Len(all) \in Nat
    BY <1>1
  <2>2. Head(Tensors(all)) = Tensors(all)[1]
    OBVIOUS
  <2>3. Tensors(all)[1] = Of(InputSets(all)[1], call.size)
    BY <1>5, <2>1 DEF Parts
  <2> QED
    BY <1>2, <2>2, <2>3 DEF Of
<1>7. config[n].strategy = "ring" /\ ~(call.size < Len(all)) /\ ~CanSlice(call.size, Len(all))
  BY <1>5, <1>6 DEF RingPanics, CanCut, all, n
<1>8. ~RingFits(call.size, Len(all))
  BY <1>1, <1>2, <1>7, SlicesFit
<1>9. call.size >= Len(all)
  BY <1>1, <1>2, <1>7
<1> QED
  BY <1>1, <1>4, <1>7, <1>8, <1>9 DEF Unfit, call, n, devices

LEMMA ReducePanicsUnfit ==
    ASSUME TInv, ClientsAsked, NEW p \in Peers, Joins(p, {"reduce"}), AllCalled(p),
           client[NodeOf[p]] # NoClient \/ NextCall(p).root \notin Range(AllCallers(p))
    PROVE  Unfit(p)
<1> DEFINE n == NodeOf[p]
           s == ops[n]["reduce"]
           all == AllCallers(p)
<1>1. n \in Nodes /\ NextCall(p).kind = "reduce" /\ Handle(p, {"reduce"})
  BY PeersAssumption DEF Joins, Handle, Makes
<1>2. CASE client[n] # NoClient
  BY <1>1, <1>2 DEF ClientsAsked, Unfit
<1>3. CASE NextCall(p).root \notin Range(all)
  <2>1. all = Append(s, p) /\ Len(s) + 1 = Cardinality(peers[n])
    BY <1>1 DEF AllCallers, AllCalled
  <2>2. s \in Seq(Peers) /\ IsInjective(s) /\ p \notin Range(s)
    <3>1. "reduce" \in Kinds /\ IInv
      BY DEF Kinds, TInv
    <3>2. p \notin Range(ops[NodeOf[p]]["reduce"])
      BY <1>1, <3>1, NotACaller
    <3> QED
      BY <1>1, <3>1, <3>2 DEF TInv, IInv, ServerTypes, MoreServerTypes, CallersOf
  <2>3. all \in Seq(Peers) /\ IsInjective(all) /\ Len(all) = Len(s) + 1
    BY <2>1, <2>2, InjectiveAppend
  <2>4. Range(all) = Callers(n, "reduce") \cup {p}
    BY <2>1, <2>2, RangeOfAppend DEF Callers
  <2>5. NextCall(p).root \in peers[n] /\ peers[n] \in SUBSET Peers
    BY <1>1 DEF Joins, Accepted, TInv, MoreServerTypes
  <2>6. Cardinality(Range(all)) = Cardinality(peers[n])
    BY <2>1, <2>3, SizeOfRange
  <2>7. ~(Range(all) \subseteq peers[n])
    <3> SUFFICES ASSUME Range(all) \subseteq peers[n] PROVE FALSE
      OBVIOUS
    <3>1. IsFiniteSet(peers[n]) /\ Range(all) # peers[n]
      BY <1>3, <2>5, PeersFinite
    <3> HIDE DEF all, n
    <3> QED
      BY <2>6, <3>1, FS_Subset
  <2> QED
    BY <1>1, <2>4, <2>7 DEF Unfit
<1> QED
  BY <1>2, <1>3

LEMMA OnlyUnfitStops ==
    ASSUME TInv, OperationsAlike, ClientsAsked, [Next]_vars, NEW n \in Nodes, alive[n], ~alive'[n]
    PROVE  \E p \in Peers : calls'[p] # calls[p] /\ NodeOf[p] = n /\ Unfit(p)
<1>0. alive \in [Nodes -> BOOLEAN] /\ calls \in [Peers -> Nat]
  BY DEF TInv, IInv, ServerTypes, ClientTypes
<1>1. ASSUME NEW p \in Peers, PeerStep(p) PROVE calls'[p] # calls[p] /\ NodeOf[p] = n /\ Unfit(p)
  <2> DEFINE m == NodeOf[p]
  <2>1. calls'[p] # calls[p]
    <3>1. \E kinds : Makes(p, kinds)
      BY <1>1, PeerStepMakes DEF InvalidConfig, Handle
    <3> QED
      BY <1>0, <3>1 DEF Makes
  <2>2. ASSUME NEW panics, alive' = [alive EXCEPT ![m] = ~panics] PROVE n = m /\ panics
    BY <1>0, <2>2
  <2>3. CASE LocalAllReduce(p)
    <3>1. Joins(p, {"all_reduce"}) /\ AllCalled(p) /\ alive' = [alive EXCEPT ![m] = ~RingPanics(p)]
      BY <2>3 DEF LocalAllReduce, Execute
    <3> QED
      BY <2>1, <2>2, <3>1, RingPanicsUnfit
  <2>4. CASE LocalReduceReturns(p)
    <3> DEFINE panics == client[m] # NoClient \/ NextCall(p).root \notin Range(AllCallers(p))
    <3>1. Joins(p, {"reduce"}) /\ AllCalled(p) /\ alive' = [alive EXCEPT ![m] = ~panics]
      BY <2>4 DEF LocalReduceReturns, Execute
    <3> QED
      BY <2>1, <2>2, <3>1, ReducePanicsUnfit
  <2>5. CASE LocalBroadcastReturns(p)
    <3> DEFINE panics == client[m] # NoClient
    <3>1. Joins(p, {"broadcast"}) /\ alive' = [alive EXCEPT ![m] = ~panics]
      BY <2>5 DEF LocalBroadcastReturns, Execute
    <3>2. NextCall(p).kind = "broadcast"
      BY <3>1 DEF Joins, Handle, Makes
    <3> QED
      BY <2>1, <2>2, <3>1, <3>2 DEF ClientsAsked, Unfit
  <2>6. CASE GlobalAllReduceFails(p)
    <3>1. alive' = [alive EXCEPT ![m] = ~FALSE]
      BY <2>6 DEF GlobalAllReduceFails, Execute
    <3> QED
      BY <2>2, <3>1
  <2>7. ~LocalAllReduce(p) /\ ~LocalReduceReturns(p) /\ ~LocalBroadcastReturns(p)
        /\ ~GlobalAllReduceFails(p) => UNCHANGED alive
    BY <1>1 DEF PeerStep, InvalidConfig, RegisterRefused, RegisterPeer, OpRefused, OpMismatch,
       OpWaits, GlobalAllReduceStarts, FinishRefused, FinishPeer, ResetServer, Reply, serverVars
  <2> QED
    BY <2>3, <2>4, <2>5, <2>6, <2>7
<1>2. ASSUME NEW m \in Nodes, NodeStep(m) PROVE FALSE
  BY <1>2 DEF NodeStep, GlobalRegisterReturns, GlobalFinishReturns, GlobalAllReduceMeets,
     GlobalAllReduceReturns, serverVars
<1> QED
  BY <1>1, <1>2 DEF Next, vars, serverVars

(* Whatever the peers call (the handlers of local/server.rs): a server     *)
(* panics in an all-reduce only if its ring cannot cut what its devices    *)
(* have, in a reduce or a broadcast only if a global collective was asked  *)
(* for, and in a reduce also if somebody calls who has not registered: the *)
(* root, which the code expects among the callers, is one otherwise.       *)
THEOREM PanicsUnfitOnly == Spec => OnlyUnfitPanics
<1> DEFINE A == \A n \in Nodes : alive[n] /\ ~alive'[n] =>
                   \E p \in Peers : calls'[p] # calls[p] /\ NodeOf[p] = n /\ Unfit(p)
<1>1. Init => ClientsAsked
  BY DEF Init, ClientsAsked
<1>2. TInv /\ ClientsAsked /\ [Next]_vars => ClientsAsked'
  BY ClientsAskedStep
<1>3. TInv /\ OperationsAlike /\ ClientsAsked /\ [Next]_vars => A
  BY OnlyUnfitStops
<1> QED
  BY <1>1, <1>2, <1>3, AlikeInductive, PTL DEF Spec, OnlyUnfitPanics
=============================================================================
