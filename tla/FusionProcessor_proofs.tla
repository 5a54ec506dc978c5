------------------------ MODULE FusionProcessor_proofs ------------------------
(***************************************************************************)
(* Proofs about FusionProcessor, for every number of streams, kinds,       *)
(* tensors and operations: first its invariants and its refinement of      *)
(* FusionStream, then that the relative form of a queue is its canonical   *)
(* renaming, and that with one stream the policy finds every plan of the   *)
(* cache that applies, so that no operations are ever explored and stored  *)
(* twice.                                                                  *)
(***************************************************************************)
EXTENDS FusionProcessor, TLAPS, WellFoundedInduction, SequenceTheorems,
        FiniteSetTheorems, FunctionTheorems

-----------------------------------------------------------------------------
(* The order of `availables'.                                              *)

(* A non-empty set of naturals has a least element. *)
LEMMA NatMinimum ==
    ASSUME NEW S \in SUBSET Nat, S # {}
    PROVE  \E m \in S : \A n \in S : m <= n
<1> DEFINE R == {ss \in Nat \X Nat : ss[1] < ss[2]}
<1>1. IsWellFoundedOn(R, Nat)
  <2>1. OpToRel(<, Nat) = R
    BY DEF OpToRel
  <2> QED BY <2>1, NatLessThanWellFounded
<1>2. \A a, b \in Nat : a < b => <<a, b>> \in R
  OBVIOUS
<1> HIDE DEF R
<1>3. PICK m \in S : \A n \in S : ~(<<n, m>> \in R)
  BY <1>1, WFMin
<1>4. ASSUME NEW n \in S PROVE m <= n
  <2>1. n \in Nat /\ m \in Nat
    OBVIOUS
  <2>2. ~(n < m)
    BY <1>2, <1>3, <2>1
  <2> QED BY <2>1, <2>2
<1> QED BY <1>4

(* A non-empty set of items has a first one in the order (size, id). *)
LEMMA FirstItemIsMember ==
    ASSUME NEW items \in SUBSET AvailableItem, items # {}
    PROVE  FirstItem(items) \in items
<1>1. PICK m \in {i.size : i \in items} : \A n \in {i.size : i \in items} : m <= n
  <2>1. {i.size : i \in items} \in SUBSET Nat
    BY DEF AvailableItem
  <2>2. {i.size : i \in items} # {}
    OBVIOUS
  <2> QED BY <2>1, <2>2, NatMinimum
<1> DEFINE smallest == {i \in items : i.size = m}
<1>2. PICK d \in {i.id : i \in smallest} : \A n \in {i.id : i \in smallest} : d <= n
  <2>1. {i.id : i \in smallest} \in SUBSET Nat
    BY DEF AvailableItem
  <2>2. {i.id : i \in smallest} # {}
    BY <1>1
  <2> QED BY <2>1, <2>2, NatMinimum
<1>3. PICK i \in items : i.size = m /\ i.id = d
  BY <1>2
<1>4. \A j \in items : i.size < j.size \/ (i.size = j.size /\ i.id <= j.id)
  <2> SUFFICES ASSUME NEW j \in items
               PROVE  i.size < j.size \/ (i.size = j.size /\ i.id <= j.id)
    OBVIOUS
  <2>1. m <= j.size
    BY <1>1
  <2>2. j.size = m => d <= j.id
    BY <1>2
  <2>3. m \in Nat /\ j.size \in Nat
    BY <1>3 DEF AvailableItem
  <2> QED BY <1>3, <2>1, <2>2, <2>3
<1> QED BY <1>3, <1>4 DEF FirstItem

-----------------------------------------------------------------------------
(* Types of the policy.                                                    *)

LEMMA UpdateValidatorType ==
    ASSUME NEW v \in Validator, NEW ops, NEW op
    PROVE  UpdateValidator(v, ops, op) \in Validator
<1>1. CASE v.kind # "OnOperations"
  BY <1>1 DEF UpdateValidator
<1>2. CASE v.kind = "OnOperations" /\ v.progress = NotInit
  BY <1>2 DEF UpdateValidator, Validator
<1>3. CASE v.kind = "OnOperations" /\ v.progress # NotInit
  <2>1. UpdateMatching(v, ops, op) \in {"Validating", "Found", "Invalidated"}
    BY DEF UpdateMatching, Validator
  <2>2. v.progress \in Nat /\ v.progress + 1 \in Nat
    BY <1>3 DEF Validator
  <2> QED BY <1>3, <2>1, <2>2 DEF UpdateValidator, Validator
<1> QED BY <1>1, <1>2, <1>3

LEMMA PlanType ==
    ASSUME plans \in Seq(Plan), NEW id \in 1..Len(plans)
    PROVE  /\ plans[id] \in Plan
           /\ plans[id].operations \in Seq(RelOp)
           /\ plans[id].triggers \in Seq(Trigger)
           /\ Size(id) \in Nat
           /\ Len(plans[id].triggers) \in Nat
           /\ \A j \in 1..Len(plans[id].triggers) :
                    plans[id].triggers[j] \in Trigger
<1>1. plans[id] \in Plan
  BY ElementOfSeq
<1>2. /\ plans[id].triggers \in Seq(Trigger)
      /\ plans[id].operations \in Seq(RelOp)
  BY <1>1 DEF Plan
<1>3. Len(plans[id].triggers) \in Nat /\ Size(id) \in Nat
  BY <1>2, LenProperties DEF Size
<1>4. \A j \in 1..Len(plans[id].triggers) : plans[id].triggers[j] \in Trigger
  BY <1>2, ElementOfSeq
<1> QED BY <1>1, <1>2, <1>3, <1>4

LEMMA NewItemType ==
    ASSUME plans \in Seq(Plan), NEW id \in 1..Len(plans)
    PROVE  /\ NewItem(id) \in AvailableItem
           /\ Len(NewItem(id).triggers) = Len(plans[id].triggers)
<1>3. Len(plans[id].triggers) \in Nat /\ Size(id) \in Nat
  BY PlanType
<1>4. \A j \in 1..Len(plans[id].triggers) : plans[id].triggers[j] \in Trigger
  BY PlanType
<1>5. NewValidators(id) \in [1..Len(plans[id].triggers) -> Validator]
  BY <1>3, <1>4 DEF NewValidators, Validator, Trigger, NotInit
<1>6. NewValidators(id) \in Seq(Validator) /\ Len(NewValidators(id)) = Len(plans[id].triggers)
  BY <1>3, <1>5
<1> QED BY <1>3, <1>6 DEF NewItem, AvailableItem

LEMMA UpdateItemType ==
    ASSUME NEW item \in AvailableItem, NEW op
    PROVE  /\ UpdateItem(item, op) \in AvailableItem
           /\ UpdateItem(item, op).id = item.id
           /\ UpdateItem(item, op).size = item.size
           /\ Len(UpdateItem(item, op).triggers) = Len(item.triggers)
           /\ \A j \in 1..Len(item.triggers) :
                UpdateItem(item, op).triggers[j] =
                    UpdateValidator(item.triggers[j],
                                    plans[item.id].triggers[j].ops, op)
<1> DEFINE f == [j \in 1..Len(item.triggers) |->
                    UpdateValidator(item.triggers[j],
                                    plans[item.id].triggers[j].ops, op)]
<1>1. item.triggers \in Seq(Validator) /\ Len(item.triggers) \in Nat
  BY LenProperties DEF AvailableItem
<1>2. \A j \in 1..Len(item.triggers) : item.triggers[j] \in Validator
  BY <1>1, ElementOfSeq
<1>3. f \in [1..Len(item.triggers) -> Validator]
  BY <1>2, UpdateValidatorType
<1>4. f \in Seq(Validator) /\ Len(f) = Len(item.triggers)
  BY <1>1, <1>3
<1> HIDE DEF f
<1>5. UpdateItem(item, op) = [item EXCEPT !.triggers = f]
  BY DEF UpdateItem, f
<1>6. \A j \in 1..Len(item.triggers) :
        f[j] = UpdateValidator(item.triggers[j], plans[item.id].triggers[j].ops, op)
  BY DEF f
<1> QED BY <1>4, <1>5, <1>6 DEF AvailableItem

LEMMA UpdatePolicyType ==
    ASSUME plans \in Seq(Plan), NEW p \in Policy, NEW op,
           p.candidates \subseteq 1..Len(plans)
    PROVE  /\ UpdatePolicy(p, op) \in Policy
           /\ StillMatching(p, op) \subseteq 1..Len(plans)
<1>1. StillMatching(p, op) \subseteq 1..Len(plans)
  BY DEF StillMatching
<1>2. Completed(p, op) \subseteq 1..Len(plans)
  BY <1>1 DEF Completed
<1>3. \A id \in Completed(p, op) : NewItem(id) \in AvailableItem
  BY <1>2, NewItemType
<1>4. UpdateAvailables(p, op) \in SUBSET AvailableItem
  BY <1>3, UpdateItemType DEF UpdateAvailables, Policy
<1>5. FoundAmong(UpdateAvailables(p, op), p.found) \in Nat
  <2> DEFINE firing == {i \in UpdateAvailables(p, op) : Fires(i)}
  <2>1. CASE firing = {}
    BY <2>1 DEF FoundAmong, Policy
  <2>2. CASE firing # {}
    <3>1. FirstItem(firing) \in AvailableItem
      BY <1>4, <2>2, FirstItemIsMember
    <3> QED BY <2>2, <3>1 DEF FoundAmong, AvailableItem
  <2> QED BY <2>1, <2>2
<1>6. StillMatching(p, op) \ Completed(p, op) \in SUBSET Nat
  <2>1. Len(plans) \in Nat
    BY LenProperties
  <2> QED BY <1>1, <2>1
<1>7. p.num + 1 \in Nat
  BY DEF Policy
<1> QED BY <1>1, <1>4, <1>5, <1>6, <1>7 DEF UpdatePolicy, Policy

-----------------------------------------------------------------------------
(* The policy judges plans and triggers as a comparison would.             *)

(* A trigger that can never match would be "OnOperations" of nothing. *)
TriggersNonEmpty ==
    \A i \in 1..Len(plans) : \A j \in 1..Len(plans[i].triggers) :
        plans[i].triggers[j].kind = "OnOperations" =>
            plans[i].triggers[j].ops # <<>>

LEMMA UpdateValidatorSound ==
    ASSUME NEW v \in Validator, NEW t \in Trigger, NEW queue,
           NEW size \in Nat, NEW num \in Nat, size <= num,
           ValidatorSound(v, t, size, num, queue)
    PROVE  ValidatorSound(UpdateValidator(v, t.ops, queue[num + 1]), t,
                          size, num + 1, queue)
<1>1. CASE v.kind # "OnOperations"
  BY <1>1 DEF UpdateValidator, ValidatorSound
<1>2. CASE v.kind = "OnOperations"
  <2> DEFINE w == UpdateValidator(v, t.ops, queue[num + 1])
  <2>1. t.ops \in Seq(RelOp) /\ Len(t.ops) \in Nat
    BY LenProperties DEF Trigger
  <2>2. v.progress = num - size /\ v.progress # NotInit /\ v.progress \in Nat
    BY <1>2 DEF ValidatorSound, NotInit
  <2>3. /\ w.kind = v.kind
        /\ w.progress = v.progress + 1
        /\ w.matching = UpdateMatching(v, t.ops, queue[num + 1])
    BY <1>2, <2>2 DEF UpdateValidator, Validator
  <2>4. size + (v.progress + 1) = num + 1
    BY <2>2
  <2>5. ASSUME w.matching = "Found"
        PROVE  /\ Len(t.ops) <= num + 1 - size
               /\ \A k \in 1..Len(t.ops) : t.ops[k] = queue[size + k]
    <3>1. CASE v.matching = "Found"
      BY <1>2, <2>1, <3>1 DEF ValidatorSound
    <3>2. CASE v.matching = "Validating"
      <4>1. v.progress + 1 = Len(t.ops) /\ t.ops[v.progress + 1] = queue[num + 1]
        BY <2>3, <2>5, <3>2, <2>1, <2>2 DEF UpdateMatching
      <4>2. \A k \in 1..v.progress : t.ops[k] = queue[size + k]
        BY <1>2, <2>2, <3>2 DEF ValidatorSound
      <4> QED BY <2>1, <2>2, <2>4, <4>1, <4>2
    <3>3. CASE v.matching = "Invalidated"
      BY <2>3, <2>5, <3>3 DEF UpdateMatching
    <3> QED BY <3>1, <3>2, <3>3 DEF Validator
  <2>6. ASSUME w.matching = "Validating"
        PROVE  /\ num + 1 - size < Len(t.ops)
               /\ \A k \in 1..(num + 1 - size) : t.ops[k] = queue[size + k]
    <3>1. v.matching = "Validating"
      BY <2>3, <2>6 DEF UpdateMatching
    <3>2. /\ v.progress + 1 <= Len(t.ops)
          /\ v.progress + 1 # Len(t.ops)
          /\ t.ops[v.progress + 1] = queue[num + 1]
      BY <2>1, <2>2, <2>3, <2>6, <3>1 DEF UpdateMatching
    <3>3. \A k \in 1..v.progress : t.ops[k] = queue[size + k]
      BY <1>2, <2>2, <3>1 DEF ValidatorSound
    <3>4. num + 1 - size = v.progress + 1 /\ size + (v.progress + 1) = num + 1
      BY <2>2
    <3>5. \A k \in 1..(v.progress + 1) : t.ops[k] = queue[size + k]
      BY <2>2, <2>4, <3>2, <3>3
    <3>6. v.progress + 1 < Len(t.ops)
      BY <2>1, <2>2, <3>2
    <3> QED BY <3>4, <3>5, <3>6
  <2> HIDE DEF w
  <2>7. ValidatorSound(w, t, size, num + 1, queue)
    BY <1>2, <2>2, <2>3, <2>5, <2>6 DEF ValidatorSound
  <2> QED BY <2>7 DEF w
<1> QED BY <1>1, <1>2

LEMMA UpdateItemSound ==
    ASSUME plans \in Seq(Plan), NEW item \in AvailableItem, NEW queue,
           NEW num \in Nat, ItemSound(item, num, queue)
    PROVE  ItemSound(UpdateItem(item, queue[num + 1]), num + 1, queue)
<1> DEFINE op == queue[num + 1]
<1>1. item.id \in 1..Len(plans) /\ item.size \in Nat
  BY DEF ItemSound, AvailableItem
<1>2. plans[item.id].triggers \in Seq(Trigger)
  BY <1>1, PlanType
<1>3. item.triggers \in Seq(Validator)
  BY DEF AvailableItem
<1>4. ASSUME NEW j \in 1..Len(item.triggers)
      PROVE  ValidatorSound(UpdateItem(item, op).triggers[j],
                            plans[item.id].triggers[j], item.size, num + 1, queue)
  <2>1. Len(item.triggers) \in Nat /\ Len(plans[item.id].triggers) \in Nat
    BY <1>2, <1>3, LenProperties
  <2>2. j \in 1..Len(plans[item.id].triggers)
    BY <2>1 DEF ItemSound
  <2>3. item.triggers[j] \in Validator /\ plans[item.id].triggers[j] \in Trigger
    BY <1>2, <1>3, <2>2, ElementOfSeq
  <2>4. ValidatorSound(item.triggers[j], plans[item.id].triggers[j],
                       item.size, num, queue)
    BY DEF ItemSound
  <2>5. item.size <= num
    BY DEF ItemSound
  <2>6. UpdateItem(item, op).triggers[j] =
            UpdateValidator(item.triggers[j], plans[item.id].triggers[j].ops, op)
    BY UpdateItemType
  <2> QED BY <1>1, <2>3, <2>4, <2>5, <2>6, UpdateValidatorSound
<1>5. /\ UpdateItem(item, op).id = item.id
      /\ UpdateItem(item, op).size = item.size
      /\ Len(UpdateItem(item, op).triggers) = Len(item.triggers)
  BY UpdateItemType
<1>6. item.size <= num + 1
  BY <1>1 DEF ItemSound
<1> HIDE DEF op
<1>7. ItemSound(UpdateItem(item, op), num + 1, queue)
  BY <1>4, <1>5, <1>6 DEF ItemSound
<1> QED BY <1>7 DEF op

(* A plan matched in full by the newest operation becomes available. *)
LEMMA NewItemSound ==
    ASSUME plans \in Seq(Plan), TriggersNonEmpty, NEW queue, NEW num \in Nat,
           NEW id \in 1..Len(plans), Size(id) = num + 1,
           \A k \in 1..(num + 1) : plans[id].operations[k] = queue[k]
    PROVE  ItemSound(UpdateItem(NewItem(id), queue[num + 1]), num + 1, queue)
<1> DEFINE op == queue[num + 1]
<1>1. /\ NewItem(id) \in AvailableItem
      /\ NewItem(id).id = id
      /\ NewItem(id).size = Size(id)
      /\ Len(NewItem(id).triggers) = Len(plans[id].triggers)
  BY NewItemType DEF NewItem
<1>2. /\ UpdateItem(NewItem(id), op).id = id
      /\ UpdateItem(NewItem(id), op).size = Size(id)
      /\ Len(UpdateItem(NewItem(id), op).triggers) = Len(plans[id].triggers)
  BY <1>1, UpdateItemType
<1>3. ASSUME NEW j \in 1..Len(plans[id].triggers)
      PROVE  ValidatorSound(UpdateItem(NewItem(id), op).triggers[j],
                            plans[id].triggers[j], num + 1, num + 1, queue)
  <2> DEFINE t == plans[id].triggers[j]
             v == NewItem(id).triggers[j]
             w == UpdateItem(NewItem(id), op).triggers[j]
  <2>1. t \in Trigger /\ (t.kind = "OnOperations" => Len(t.ops) > 0)
    <3>1. t \in Trigger
      BY PlanType
    <3>2. t.ops \in Seq(RelOp)
      BY <3>1 DEF Trigger
    <3> QED BY <3>1, <3>2, EmptySeq, LenProperties DEF TriggersNonEmpty
  <2>2. v = [kind |-> t.kind, matching |-> "Validating", progress |-> NotInit]
    BY DEF NewItem, NewValidators
  <2>3. w = UpdateValidator(v, t.ops, op)
    BY <1>1, UpdateItemType
  <2>4. CASE t.kind = "OnOperations"
    <3>1. w.kind = t.kind /\ w.matching = "Validating" /\ w.progress = 0
      BY <2>2, <2>3, <2>4 DEF UpdateValidator
    <3> QED BY <2>1, <3>1 DEF ValidatorSound
  <2>5. CASE t.kind # "OnOperations"
    <3>1. w.kind = t.kind
      BY <2>2, <2>3, <2>5 DEF UpdateValidator
    <3> QED BY <2>5, <3>1 DEF ValidatorSound
  <2> QED BY <2>4, <2>5
<1> HIDE DEF op
<1>4. Len(plans[id].triggers) \in Nat
  BY PlanType
<1>5. ItemSound(UpdateItem(NewItem(id), op), num + 1, queue)
  BY <1>2, <1>3, <1>4 DEF ItemSound
<1> QED BY <1>5 DEF op

(* A trigger that fires keeps firing. *)
LEMMA FiringStays ==
    ASSUME NEW item \in AvailableItem, NEW op, Fires(item)
    PROVE  Fires(UpdateItem(item, op))
<1>1. PICK j \in 1..Len(item.triggers) :
        \/ item.triggers[j].kind = "Always"
        \/ item.triggers[j].kind = "OnOperations" /\ item.triggers[j].matching = "Found"
  BY DEF Fires
<1> DEFINE v == item.triggers[j]
           w == UpdateItem(item, op).triggers[j]
<1>2. w = UpdateValidator(v, plans[item.id].triggers[j].ops, op)
  BY UpdateItemType
<1>3. v \in Validator
  BY ElementOfSeq DEF AvailableItem
<1>4. w.kind = v.kind /\ (v.matching = "Found" => w.matching = "Found")
  BY <1>2, <1>3 DEF UpdateValidator, UpdateMatching, Validator
<1>5. j \in 1..Len(UpdateItem(item, op).triggers)
  BY UpdateItemType
<1> QED BY <1>1, <1>4, <1>5 DEF Fires

LEMMA UpdatePolicySound ==
    ASSUME plans \in Seq(Plan), TriggersNonEmpty, NEW queue,
           NEW p \in Policy, PolicySoundFor(p, queue)
    PROVE  PolicySoundFor(UpdatePolicy(p, queue[p.num + 1]), queue)
<1> DEFINE op == queue[p.num + 1]
           q == UpdatePolicy(p, op)
           items == p.availables \cup {NewItem(id) : id \in Completed(p, op)}
<1>1. /\ p.num \in Nat /\ p.availables \in SUBSET AvailableItem
      /\ p.found \in Nat /\ p.candidates \subseteq 1..Len(plans)
      /\ Len(plans) \in Nat
  BY LenProperties DEF Policy, PolicySoundFor, CandidateSound
<1>2. ASSUME NEW i \in StillMatching(p, op)
      PROVE  /\ i \in 1..Len(plans)
             /\ Size(i) \in Nat
             /\ Size(i) > p.num
             /\ \A k \in 1..(p.num + 1) : plans[i].operations[k] = queue[k]
  <2>1. i \in 1..Len(plans)
    BY <1>1, UpdatePolicyType
  <2>2. Size(i) > p.num /\ plans[i].operations[p.num + 1] = queue[p.num + 1]
    BY DEF StillMatching
  <2>3. \A k \in 1..p.num : plans[i].operations[k] = queue[k]
    <3>1. CASE p.num = 0
      BY <3>1
    <3>2. CASE p.num # 0
      BY <3>2 DEF StillMatching, PolicySoundFor, CandidateSound
    <3> QED BY <3>1, <3>2
  <2>4. Size(i) \in Nat
    BY <2>1, PlanType
  <2> QED BY <1>1, <2>1, <2>2, <2>3, <2>4
<1>3. /\ q.candidates = StillMatching(p, op) \ Completed(p, op)
      /\ q.availables = {UpdateItem(item, op) : item \in items}
      /\ q.found = FoundAmong(q.availables, p.found)
      /\ q.num = p.num + 1
  BY DEF UpdatePolicy, UpdateAvailables
<1>4. items \in SUBSET AvailableItem
  BY <1>1, <1>2, NewItemType DEF Completed
<1>5. \A i \in q.candidates : CandidateSound(i, q.num, queue)
  <2> SUFFICES ASSUME NEW i \in q.candidates PROVE CandidateSound(i, p.num + 1, queue)
    BY <1>3
  <2>1. i \in StillMatching(p, op) /\ Size(i) # p.num + 1
    BY <1>3 DEF Completed
  <2>2. Size(i) > p.num + 1
    BY <1>1, <1>2, <2>1
  <2> QED BY <1>2, <2>1, <2>2 DEF CandidateSound
<1>6. \A item \in q.availables : ItemSound(item, q.num, queue)
  <2> SUFFICES ASSUME NEW item \in items
               PROVE  ItemSound(UpdateItem(item, op), p.num + 1, queue)
    BY <1>3
  <2>1. CASE item \in p.availables
    BY <1>1, <2>1, UpdateItemSound DEF PolicySoundFor
  <2>2. CASE item \in {NewItem(id) : id \in Completed(p, op)}
    <3>1. PICK id \in Completed(p, op) : item = NewItem(id)
      BY <2>2
    <3>2. id \in StillMatching(p, op) /\ Size(id) = p.num + 1
      BY DEF Completed
    <3> QED BY <1>1, <1>2, <3>1, <3>2, NewItemSound
  <2> QED BY <2>1, <2>2
<1>7. FoundSound(q)
  <2> SUFFICES ASSUME q.found # 0
               PROVE  \E item \in q.availables : item.id = q.found /\ Fires(item)
    BY DEF FoundSound
  <2> DEFINE firing == {i \in q.availables : Fires(i)}
  <2>1. q.availables \in SUBSET AvailableItem
    BY <1>3, <1>4, UpdateItemType
  <2>2. CASE firing # {}
    <3>1. FirstItem(firing) \in firing
      BY <2>1, <2>2, FirstItemIsMember
    <3>2. q.found = FirstItem(firing).id
      BY <1>3, <2>2 DEF FoundAmong
    <3> QED BY <3>1, <3>2
  <2>3. CASE firing = {}
    <3>1. q.found = p.found
      BY <1>3, <2>3 DEF FoundAmong
    <3>2. PICK item \in p.availables : item.id = p.found /\ Fires(item)
      BY <3>1 DEF PolicySoundFor, FoundSound
    <3>3. Fires(UpdateItem(item, op)) /\ UpdateItem(item, op) \in q.availables
      BY <1>1, <1>3, <3>2, FiringStays
    <3> QED BY <2>3, <3>3
  <2> QED BY <2>2, <2>3
<1> QED BY <1>5, <1>6, <1>7 DEF PolicySoundFor

-----------------------------------------------------------------------------
(* The plan store.                                                         *)

PlansNonEmpty == \A i \in 1..Len(plans) : Size(i) > 0

LEMMA AddTriggerGrows ==
    ASSUME plans \in Seq(Plan), NEW id \in 1..Len(plans), NEW t \in Trigger,
           t.kind = "OnOperations" => t.ops # <<>>,
           TriggersNonEmpty, PlansNonEmpty,
           plans' = AddTrigger(id, t)
    PROVE  /\ plans' \in Seq(Plan)
           /\ Len(plans') = Len(plans)
           /\ StoreGrows
           /\ TriggersNonEmpty'
           /\ PlansNonEmpty'
           /\ \E j \in 1..Len(plans'[id].triggers) : plans'[id].triggers[j] = t
<1>1. /\ plans[id].triggers \in Seq(Trigger)
      /\ plans[id] \in Plan
      /\ Len(plans[id].triggers) \in Nat
      /\ Len(plans) \in Nat
  BY PlanType, LenProperties
<1>2. \A i \in 1..Len(plans) : Len(plans[i].triggers) \in Nat
  BY PlanType
<1>3. CASE \E j \in 1..Len(plans[id].triggers) : plans[id].triggers[j] = t
  <2>1. plans' = plans
    BY <1>3 DEF AddTrigger
  <2>2. StoreGrows
    BY <1>1, <1>2, <2>1 DEF StoreGrows, StandsAt
  <2> QED BY <1>3, <2>1, <2>2 DEF TriggersNonEmpty, PlansNonEmpty, Size
<1>4. CASE ~\E j \in 1..Len(plans[id].triggers) : plans[id].triggers[j] = t
  <2> DEFINE ts == Append(plans[id].triggers, t)
             new == [plans[id] EXCEPT !.triggers = ts]
  <2>1. plans' = [plans EXCEPT ![id] = new]
    BY <1>4 DEF AddTrigger
  <2>2. /\ ts \in Seq(Trigger)
        /\ Len(ts) = Len(plans[id].triggers) + 1
        /\ \A j \in 1..Len(plans[id].triggers) : ts[j] = plans[id].triggers[j]
        /\ ts[Len(ts)] = t
    BY <1>1, AppendProperties
  <2> HIDE DEF ts
  <2>3. new \in Plan /\ new.triggers = ts /\ new.operations = plans[id].operations
    BY <1>1, <2>2 DEF Plan
  <2> HIDE DEF new
  <2>4. /\ plans' \in Seq(Plan)
        /\ Len(plans') = Len(plans)
        /\ \A i \in 1..Len(plans) : plans'[i] = IF i = id THEN new ELSE plans[i]
    BY <2>1, <2>3, ExceptSeq
  <2>5. StoreGrows
    BY <1>1, <1>2, <2>2, <2>3, <2>4 DEF StoreGrows, StandsAt
  <2>6. PlansNonEmpty'
    BY <2>3, <2>4 DEF PlansNonEmpty, Size
  <2>7. \A j \in 1..Len(ts) : j \in 1..Len(plans[id].triggers) \/ j = Len(ts)
    BY <1>1, <2>2
  <2>8. TriggersNonEmpty'
    <3> SUFFICES ASSUME NEW i \in 1..Len(plans), NEW j \in 1..Len(plans'[i].triggers),
                        plans'[i].triggers[j].kind = "OnOperations"
                 PROVE  plans'[i].triggers[j].ops # <<>>
      BY <2>4 DEF TriggersNonEmpty
    <3>1. CASE i # id
      BY <2>4, <3>1 DEF TriggersNonEmpty
    <3>2. CASE i = id
      <4>1. plans'[i].triggers = ts
        BY <2>3, <2>4, <3>2
      <4>2. CASE j = Len(ts)
        BY <2>2, <4>1, <4>2
      <4>3. CASE j \in 1..Len(plans[id].triggers)
        BY <2>2, <4>1, <4>3 DEF TriggersNonEmpty
      <4> QED BY <2>7, <4>1, <4>2, <4>3
    <3> QED BY <3>1, <3>2
  <2>9. Len(ts) \in 1..Len(plans'[id].triggers)
    BY <1>1, <2>2, <2>3, <2>4
  <2> QED BY <2>2, <2>3, <2>4, <2>5, <2>6, <2>8, <2>9
<1> QED BY <1>3, <1>4

LEMMA AddPlanGrows ==
    ASSUME plans \in Seq(Plan), NEW ops \in Seq(RelOp), ops # <<>>,
           NEW t \in Trigger, t.kind = "OnOperations" => t.ops # <<>>,
           TriggersNonEmpty, PlansNonEmpty,
           plans' = AddPlan(ops, t)
    PROVE  /\ plans' \in Seq(Plan)
           /\ Len(plans') = Len(plans) + 1
           /\ StoreGrows
           /\ TriggersNonEmpty'
           /\ PlansNonEmpty'
           /\ plans'[Len(plans')].operations = ops
           /\ plans'[Len(plans')].triggers = <<t>>
<1> DEFINE new == [operations |-> ops, triggers |-> <<t>>]
<1>1. new \in Plan /\ new.operations = ops /\ new.triggers = <<t>>
  BY DEF Plan
<1>2. plans' = Append(plans, new)
  BY DEF AddPlan
<1> HIDE DEF new
<1>3. /\ plans' \in Seq(Plan)
      /\ Len(plans') = Len(plans) + 1
      /\ \A i \in 1..Len(plans) : plans'[i] = plans[i]
      /\ plans'[Len(plans')] = new
  BY <1>1, <1>2, AppendProperties
<1>4. Len(plans) \in Nat /\ Len(ops) \in Nat /\ Len(ops) > 0
  BY LenProperties, EmptySeq
<1>5. \A i \in 1..Len(plans') : i \in 1..Len(plans) \/ i = Len(plans')
  BY <1>3, <1>4
<1>6. \A i \in 1..Len(plans) : Len(plans[i].triggers) \in Nat
  BY PlanType
<1>7. StoreGrows
  BY <1>3, <1>4, <1>6 DEF StoreGrows, StandsAt
<1>8. PlansNonEmpty'
  BY <1>1, <1>3, <1>4, <1>5 DEF PlansNonEmpty, Size
<1>9. TriggersNonEmpty'
  <2>1. Len(<<t>>) = 1 /\ <<t>>[1] = t
    OBVIOUS
  <2>2. \A j \in 1..Len(<<t>>) : <<t>>[j] = t
    BY <2>1
  <2> QED BY <1>1, <1>3, <1>5, <2>2 DEF TriggersNonEmpty
<1> QED BY <1>1, <1>3, <1>7, <1>8, <1>9

(* What a policy knows stays right when the store grows ... *)
LEMMA SoundWhenStoreGrows ==
    ASSUME plans \in Seq(Plan), plans' \in Seq(Plan), StoreGrows,
           NEW queue, NEW p \in Policy, PolicySoundFor(p, queue)
    PROVE  PolicySoundFor(p, queue)'
<1>1. /\ \A i \in 1..Len(plans) : i \in 1..Len(plans')
      /\ \A i \in 1..Len(plans) : plans'[i].operations = plans[i].operations
  <2>1. Len(plans) \in Nat /\ Len(plans') \in Nat
    BY LenProperties
  <2> QED BY <2>1 DEF StoreGrows
<1>2. \A i \in p.candidates : CandidateSound(i, p.num, queue)'
  BY <1>1 DEF PolicySoundFor, CandidateSound, Size
<1>3. ASSUME NEW item \in p.availables PROVE ItemSound(item, p.num, queue)'
  <2>1. ItemSound(item, p.num, queue)
    BY DEF PolicySoundFor
  <2>2. item.id \in 1..Len(plans)
    BY <2>1 DEF ItemSound
  <2> DEFINE ts == plans[item.id].triggers
             us == plans'[item.id].triggers
  <2>3. Len(item.triggers) \in Nat /\ Len(ts) \in Nat /\ Len(us) \in Nat
    <3>1. plans[item.id] \in Plan /\ plans'[item.id] \in Plan
      BY <1>1, <2>2, ElementOfSeq
    <3>2. ts \in Seq(Trigger) /\ us \in Seq(Trigger)
      BY <3>1 DEF Plan
    <3>3. item.triggers \in Seq(Validator)
      BY DEF Policy, AvailableItem
    <3> QED BY <3>2, <3>3, LenProperties
  <2>4. /\ Len(ts) <= Len(us)
        /\ \A j \in 1..Len(ts) : us[j] = ts[j]
    <3>1. StandsAt(ts, us, 0)
      BY <2>2 DEF StoreGrows
    <3> HIDE DEF ts, us
    <3>2. 0 + Len(ts) <= Len(us) /\ \A j \in 1..Len(ts) : ts[j] = us[0 + j]
      BY <3>1 DEF StandsAt
    <3>3. ASSUME NEW j \in 1..Len(ts) PROVE us[j] = ts[j]
      <4>1. 0 + j = j
        BY <2>3
      <4> QED BY <3>2, <4>1
    <3> QED BY <2>3, <3>2, <3>3
  <2>5. Len(item.triggers) <= Len(ts)
    BY <2>1 DEF ItemSound
  <2>6. Len(item.triggers) <= Len(us)
    BY <2>3, <2>4, <2>5
  <2>7. \A j \in 1..Len(item.triggers) : us[j] = ts[j]
    BY <2>3, <2>4, <2>5
  <2>8. \A j \in 1..Len(item.triggers) :
            ValidatorSound(item.triggers[j], us[j], item.size, p.num, queue)
    BY <2>1, <2>7 DEF ItemSound
  <2> QED BY <1>1, <2>1, <2>2, <2>6, <2>8 DEF ItemSound, Size
<1> QED BY <1>2, <1>3 DEF PolicySoundFor, FoundSound

(* ... and when the queue grows behind what the policy has seen. *)
LEMMA SoundWhenQueueGrows ==
    ASSUME NEW queue, NEW longer, NEW p \in Policy,
           \A k \in 1..p.num : longer[k] = queue[k],
           plans \in Seq(Plan), PolicySoundFor(p, queue)
    PROVE  PolicySoundFor(p, longer)
<1>1. \A i \in p.candidates : CandidateSound(i, p.num, longer)
  BY DEF PolicySoundFor, CandidateSound
<1>2. ASSUME NEW item \in p.availables PROVE ItemSound(item, p.num, longer)
  <2>1. ItemSound(item, p.num, queue)
    BY DEF PolicySoundFor
  <2>2. item.size \in Nat /\ p.num \in Nat /\ item.size <= p.num
    BY <2>1 DEF ItemSound, Policy, AvailableItem
  <2>3. \A j \in 1..Len(item.triggers) :
            ValidatorSound(item.triggers[j], plans[item.id].triggers[j],
                           item.size, p.num, longer)
    <3> SUFFICES ASSUME NEW j \in 1..Len(item.triggers)
                 PROVE  ValidatorSound(item.triggers[j], plans[item.id].triggers[j],
                                       item.size, p.num, longer)
      OBVIOUS
    <3> DEFINE t == plans[item.id].triggers[j]
    <3>1. ValidatorSound(item.triggers[j], t, item.size, p.num, queue)
      BY <2>1 DEF ItemSound
    <3>2. item.triggers \in Seq(Validator) /\ plans[item.id].triggers \in Seq(Trigger)
      BY <2>1, PlanType DEF ItemSound, Policy, AvailableItem
    <3>3. Len(item.triggers) \in Nat /\ Len(plans[item.id].triggers) \in Nat
      BY <3>2, LenProperties
    <3>4. t \in Trigger
      BY <2>1, <3>2, <3>3, ElementOfSeq DEF ItemSound
    <3>5. t.ops \in Seq(RelOp) /\ Len(t.ops) \in Nat
      BY <3>4, LenProperties DEF Trigger
    <3>6. \A n \in Nat : n <= p.num - item.size =>
            \A k \in 1..n : longer[item.size + k] = queue[item.size + k]
      BY <2>2
    <3> HIDE DEF t
    <3>7. p.num - item.size \in Nat
      BY <2>2
    <3>8. ValidatorSound(item.triggers[j], t, item.size, p.num, longer)
      <4>1. CASE item.triggers[j].kind # "OnOperations"
        BY <3>1, <4>1 DEF ValidatorSound
      <4>2. CASE item.triggers[j].kind = "OnOperations"
        <5>1. /\ item.triggers[j].kind = t.kind
              /\ item.triggers[j].progress = p.num - item.size
          BY <3>1, <4>2 DEF ValidatorSound
        <5>2. item.triggers[j].matching = "Found" =>
                  /\ Len(t.ops) <= p.num - item.size
                  /\ \A k \in 1..Len(t.ops) : t.ops[k] = longer[item.size + k]
          BY <3>1, <3>5, <3>6, <4>2 DEF ValidatorSound
        <5>3. item.triggers[j].matching = "Validating" =>
                  /\ p.num - item.size < Len(t.ops)
                  /\ \A k \in 1..(p.num - item.size) : t.ops[k] = longer[item.size + k]
          BY <3>1, <3>6, <3>7, <4>2 DEF ValidatorSound
        <5> QED BY <5>1, <5>2, <5>3 DEF ValidatorSound
      <4> QED BY <4>1, <4>2
    <3> QED BY <3>8 DEF t
  <2>4. \A k \in 1..item.size : plans[item.id].operations[k] = longer[k]
    BY <2>1, <2>2 DEF ItemSound
  <2> QED BY <2>1, <2>3, <2>4 DEF ItemSound
<1> QED BY <1>1, <1>2 DEF PolicySoundFor, FoundSound

-----------------------------------------------------------------------------
(* The inductive invariant.                                                *)

(* A call is in progress exactly when the server is not idle. *)
Control == pc = "idle" <=> running = NoStream

(* Every queued operation is converted, except while that is being done. *)
Converted ==
    \A s \in Streams :
        /\ Len(relative[s]) <= Len(global[s])
        /\ ~(running = s /\ pc = "convert") => Len(relative[s]) = Len(global[s])

IInv ==
    /\ TypeOK
    /\ Control
    /\ Converted
    /\ PlansNonEmpty
    /\ TriggersNonEmpty
    /\ AccountsForAll
    /\ PolicySound
    /\ ChosenPlanFits
    /\ ExecutionIsTriggered

LEMMA InitInv == Init => IInv
<1> SUFFICES ASSUME Init PROVE IInv
  OBVIOUS
<1>1. NewPolicy \in Policy
  BY DEF NewPolicy, Policy
<1>2. TypeOK
  BY <1>1, MaxOpsAssumption DEF Init, TypeOK, Explorer
<1>3. Control /\ Converted /\ PlansNonEmpty /\ TriggersNonEmpty /\ AccountsForAll
  BY NoStreamAssumption DEF Init, Control, Converted, PlansNonEmpty, TriggersNonEmpty,
         AccountsForAll, NewPolicy
<1>4. PolicySound
  BY DEF Init, PolicySound, PolicySoundFor, FoundSound, NewPolicy
<1>5. ChosenPlanFits /\ ExecutionIsTriggered
  BY DEF Init, ChosenPlanFits, ExecutionIsTriggered
<1> QED BY <1>2, <1>3, <1>4, <1>5 DEF IInv

(* An operation is converted to some relative operation. *)
LEMMA ConvertType ==
    ASSUME TypeOK, NEW s \in Streams, NEW op \in Op, Convert(s, op)
    PROVE  /\ converter' \in [Streams -> Seq(Tensors)]
           /\ \E rel \in RelOp : relative' = [relative EXCEPT ![s] = Append(@, rel)]
<1> DEFINE t == op.tensor
           conv == ConverterWith(converter[s], t)
<1>1. t \in Tensors /\ op.kind \in Kinds
  BY DEF Op
<1>2. converter[s] \in Seq(Tensors)
  BY DEF TypeOK
<1>3. conv \in Seq(Tensors) /\ \E i \in 1..Len(conv) : conv[i] = t
  <2>1. CASE Known(converter[s], t)
    BY <1>2, <2>1 DEF ConverterWith, Known
  <2>2. CASE ~Known(converter[s], t)
    <3>1. /\ Append(converter[s], t) \in Seq(Tensors)
          /\ Len(Append(converter[s], t)) = Len(converter[s]) + 1
          /\ Append(converter[s], t)[Len(converter[s]) + 1] = t
      BY <1>1, <1>2, AppendProperties
    <3>2. Len(converter[s]) \in Nat
      BY <1>2, LenProperties
    <3> QED BY <2>2, <3>1, <3>2 DEF ConverterWith
  <2> QED BY <2>1, <2>2
<1>4. ToRelative(conv, op) \in RelOp
  <2>1. (CHOOSE i \in 1..Len(conv) : conv[i] = t) \in 1..Len(conv)
    BY <1>3
  <2>2. (CHOOSE i \in 1..Len(conv) : conv[i] = t) - 1 \in Nat
    <3>1. Len(conv) \in Nat
      BY <1>3, LenProperties
    <3> HIDE DEF conv, t
    <3> QED BY <2>1, <3>1
  <2> QED BY <1>1, <2>2 DEF ToRelative, RelOp
<1>5. converter' = [converter EXCEPT ![s] = conv]
  BY DEF Convert
<1>6. relative' = [relative EXCEPT ![s] = Append(@, ToRelative(conv, op))]
  BY DEF Convert
<1> HIDE DEF conv
<1> QED BY <1>3, <1>4, <1>5, <1>6 DEF TypeOK

(* The policy is shown the next operation of its queue, ... *)
LEMMA ReplaySound ==
    ASSUME plans \in Seq(Plan), TriggersNonEmpty, NEW queue, NEW p \in Policy,
           PolicySoundFor(p, queue)
    PROVE  /\ UpdatePolicy(p, queue[p.num + 1]) \in Policy
           /\ PolicySoundFor(UpdatePolicy(p, queue[p.num + 1]), queue)
           /\ UpdatePolicy(p, queue[p.num + 1]).num = p.num + 1
<1>1. p.candidates \subseteq 1..Len(plans)
  BY DEF PolicySoundFor, CandidateSound
<1> QED BY <1>1, UpdatePolicyType, UpdatePolicySound DEF UpdatePolicy

(* ... which may be one that is just being appended. *)
LEMMA AppendSound ==
    ASSUME plans \in Seq(Plan), TriggersNonEmpty, NEW queue \in Seq(RelOp),
           NEW rel \in RelOp, NEW p \in Policy, p.num = Len(queue),
           PolicySoundFor(p, queue)
    PROVE  /\ UpdatePolicy(p, rel) \in Policy
           /\ PolicySoundFor(UpdatePolicy(p, rel), Append(queue, rel))
           /\ UpdatePolicy(p, rel).num = Len(queue) + 1
<1> DEFINE longer == Append(queue, rel)
<1>1. /\ longer[p.num + 1] = rel
      /\ \A k \in 1..p.num : longer[k] = queue[k]
  BY AppendProperties
<1> HIDE DEF longer
<1>2. PolicySoundFor(p, longer)
  BY <1>1, SoundWhenQueueGrows
<1>3. /\ UpdatePolicy(p, longer[p.num + 1]) \in Policy
      /\ PolicySoundFor(UpdatePolicy(p, longer[p.num + 1]), longer)
      /\ UpdatePolicy(p, longer[p.num + 1]).num = p.num + 1
  BY <1>2, ReplaySound
<1>4. /\ UpdatePolicy(p, rel) \in Policy
      /\ PolicySoundFor(UpdatePolicy(p, rel), longer)
      /\ UpdatePolicy(p, rel).num = Len(queue) + 1
  BY <1>1, <1>3
<1> QED BY <1>4 DEF longer

(* The policy of a stream that does not change is still right. *)
LEMMA PolicySoundKept ==
    ASSUME plans \in Seq(Plan), plans' \in Seq(Plan), StoreGrows,
           NEW u \in Streams, policy[u] \in Policy,
           policy'[u] = policy[u], relative'[u] = relative[u],
           PolicySoundFor(policy[u], relative[u])
    PROVE  PolicySoundFor(policy[u], relative[u])'
<1>1. PICK p \in Policy, queue \in {relative[u]} : p = policy[u] /\ queue = relative[u]
  OBVIOUS
<1>2. PolicySoundFor(p, queue)
  BY <1>1
<1>3. PolicySoundFor(p, queue)'
  BY <1>2, SoundWhenStoreGrows
<1>4. p = policy'[u] /\ queue = relative'[u]
  BY <1>1
<1> QED
  BY <1>3, <1>4 DEF PolicySoundFor, CandidateSound, ItemSound, FoundSound, Size

LEMMA StoreKept ==
    ASSUME plans \in Seq(Plan), plans' = plans
    PROVE  StoreGrows
<1>1. Len(plans) \in Nat /\ \A i \in 1..Len(plans) : Len(plans[i].triggers) \in Nat
  BY LenProperties, PlanType
<1> QED BY <1>1 DEF StoreGrows, StandsAt

(* The new policy of a stream is right if it is for the plans there are. *)
LEMMA PolicySoundUpdated ==
    ASSUME plans' = plans, NEW u \in Streams,
           PolicySoundFor(policy'[u], relative'[u])
    PROVE  PolicySoundFor(policy[u], relative[u])'
BY DEF PolicySoundFor, CandidateSound, ItemSound, FoundSound, Size

-----------------------------------------------------------------------------
(* Each action preserves the inductive invariant.                          *)

LEMMA RegisterInv ==
    ASSUME IInv, NEW s \in Streams, NEW op \in Op, Register(s, op)
    PROVE  IInv'
<1> DEFINE r == relative[s]
           p == policy[s]
<1>1. /\ TypeOK /\ TriggersNonEmpty
      /\ pc = "idle" /\ running = NoStream
      /\ r \in Seq(RelOp) /\ Len(r) \in Nat
      /\ p \in Policy
      /\ p.num = Len(r)
      /\ PolicySoundFor(p, r)
  <2>1. TypeOK /\ TriggersNonEmpty /\ pc = "idle" /\ running = NoStream
    BY DEF IInv, Control, Register
  <2>2. r \in Seq(RelOp) /\ Len(r) \in Nat /\ p \in Policy
    BY <2>1, LenProperties DEF TypeOK
  <2>3. p.num = Len(r) /\ PolicySoundFor(p, r)
    BY <2>1, NoStreamAssumption DEF IInv, AccountsForAll, PolicySound
  <2> QED BY <2>1, <2>2, <2>3
<1>2. PICK rel \in RelOp : relative' = [relative EXCEPT ![s] = Append(r, rel)]
  BY <1>1, ConvertType DEF Register
<1>3. /\ relative' \in [Streams -> Seq(RelOp)]
      /\ relative'[s] = Append(r, rel)
      /\ relative'[s][Len(relative'[s])] = rel
      /\ Len(relative'[s]) = Len(r) + 1
      /\ \A u \in Streams : u # s => relative'[u] = relative[u]
  <2>1. /\ Append(r, rel) \in Seq(RelOp)
        /\ Len(Append(r, rel)) = Len(r) + 1
        /\ Append(r, rel)[Len(r) + 1] = rel
    BY <1>1, AppendProperties
  <2> QED BY <1>1, <1>2, <2>1 DEF TypeOK
<1>4. /\ policy' = [policy EXCEPT ![s] = UpdatePolicy(p, rel)]
      /\ global' = [global EXCEPT ![s] = Append(global[s], op)]
      /\ explorer' = [explorer EXCEPT ![s].deferred = explorer[s].deferred + 1]
      /\ submitted[s] < MaxOps
      /\ submitted' = [submitted EXCEPT ![s] = submitted[s] + 1]
      /\ Convert(s, op)
      /\ running' = s /\ mode' = "Lazy" /\ pc' = "action"
      /\ plans' = plans /\ chosen' = chosen
  BY <1>3 DEF Register
<1>5. /\ UpdatePolicy(p, rel) \in Policy
      /\ PolicySoundFor(UpdatePolicy(p, rel), Append(r, rel))
      /\ UpdatePolicy(p, rel).num = Len(r) + 1
  BY <1>1, AppendSound DEF TypeOK
<1>6. /\ policy' \in [Streams -> Policy]
      /\ policy'[s] = UpdatePolicy(p, rel)
      /\ \A u \in Streams : u # s => policy'[u] = policy[u]
  BY <1>1, <1>4, <1>5 DEF TypeOK
<1>7. /\ global' \in [Streams -> Seq(Op)]
      /\ Len(global'[s]) = Len(global[s]) + 1
      /\ \A u \in Streams : u # s => global'[u] = global[u]
  <2>1. global[s] \in Seq(Op)
    BY <1>1 DEF TypeOK
  <2>2. Append(global[s], op) \in Seq(Op) /\ Len(Append(global[s], op)) = Len(global[s]) + 1
    BY <2>1, AppendProperties
  <2> QED BY <1>1, <1>4, <2>2 DEF TypeOK
<1>8. /\ explorer' \in [Streams -> Explorer]
      /\ explorer'[s].explored + explorer'[s].deferred =
            explorer[s].explored + explorer[s].deferred + 1
      /\ \A u \in Streams : u # s => explorer'[u] = explorer[u]
  <2>1. explorer[s] \in Explorer
    BY <1>1 DEF TypeOK
  <2> DEFINE e == [explorer[s] EXCEPT !.deferred = explorer[s].deferred + 1]
  <2>2. e \in Explorer /\ e.explored + e.deferred =
            explorer[s].explored + explorer[s].deferred + 1
    BY <2>1 DEF Explorer
  <2>3. explorer' = [explorer EXCEPT ![s] = e]
    BY <1>4
  <2> HIDE DEF e
  <2> QED BY <1>1, <2>2, <2>3 DEF TypeOK
<1> HIDE DEF r, p
<1>9. TypeOK'
  <2>1. converter' \in [Streams -> Seq(Tensors)]
    BY <1>1, <1>4, ConvertType
  <2>2. submitted' \in [Streams -> 0..MaxOps]
    BY <1>1, <1>4, MaxOpsAssumption DEF TypeOK
  <2>3. chosen' \in 0..Len(plans') /\ plans' \in Seq(Plan)
    BY <1>1, <1>4 DEF TypeOK
  <2> QED BY <1>3, <1>4, <1>6, <1>7, <1>8, <2>1, <2>2, <2>3 DEF TypeOK
<1>10. Control' /\ PlansNonEmpty' /\ TriggersNonEmpty' /\ ChosenPlanFits' /\ ExecutionIsTriggered'
  BY <1>4, NoStreamAssumption DEF IInv, Control, PlansNonEmpty, TriggersNonEmpty, Size,
         ChosenPlanFits, ExecutionIsTriggered
<1>11. Converted'
  <2>1. \A u \in Streams : Len(relative[u]) = Len(global[u]) /\ Len(relative[u]) \in Nat
    BY <1>1, LenProperties, NoStreamAssumption DEF IInv, Converted, TypeOK
  <2>2. \A u \in Streams : Len(relative'[u]) = Len(global'[u]) /\ Len(relative'[u]) \in Nat
    BY <1>3, <1>7, <2>1 DEF r
  <2> QED BY <2>2 DEF Converted
<1>12. AccountsForAll'
  <2> SUFFICES ASSUME NEW u \in Streams
               PROVE  /\ explorer'[u].explored + explorer'[u].deferred = Len(relative'[u])
                      /\ policy'[u].num = Len(relative'[u])
                      /\ policy'[u].num <= Len(relative'[u])
    BY DEF AccountsForAll
  <2>1. /\ explorer[u].explored + explorer[u].deferred = Len(relative[u])
        /\ policy[u].num = Len(relative[u])
        /\ policy[u].num <= Len(relative[u])
    BY <1>1, NoStreamAssumption DEF IInv, AccountsForAll
  <2>2. CASE u # s
    BY <1>3, <1>6, <1>8, <2>1, <2>2
  <2>3. CASE u = s
    BY <1>1, <1>3, <1>5, <1>6, <1>8, <2>1, <2>3 DEF r
  <2> QED BY <2>2, <2>3
<1>13. PolicySound'
  <2> SUFFICES ASSUME NEW u \in Streams PROVE PolicySoundFor(policy[u], relative[u])'
    BY DEF PolicySound
  <2>1. CASE u = s
    BY <1>3, <1>4, <1>5, <1>6, <2>1, PolicySoundUpdated
  <2>2. CASE u # s
    <3>1. PolicySoundFor(policy[u], relative[u]) /\ policy[u] \in Policy
      BY <1>1, NoStreamAssumption DEF IInv, PolicySound, TypeOK
    <3>2. policy'[u] = policy[u] /\ relative'[u] = relative[u]
      BY <1>3, <1>6, <2>2
    <3>3. plans \in Seq(Plan) /\ plans' = plans
      BY <1>1, <1>4 DEF TypeOK
    <3> QED BY <3>1, <3>2, <3>3, StoreKept, PolicySoundKept
  <2> QED BY <2>1, <2>2
<1> QED BY <1>9, <1>10, <1>11, <1>12, <1>13 DEF IInv

(* Steps that only pass control, to the client or to the head of the loop. *)
LEMMA ControlStepInv ==
    ASSUME IInv, Control', mode' \in {"Lazy", "Sync"},
           running' \in Streams \cup {NoStream}, pc' \in {"idle", "action"},
           pc \notin {"execute", "convert"},
           \A s \in Streams : policy[s].num = Len(relative[s]),
           UNCHANGED <<global, relative, converter, plans, policy, explorer,
                       chosen, submitted>>
    PROVE  IInv'
<1>1. TypeOK'
  BY DEF IInv, TypeOK
<1>2. PlansNonEmpty' /\ TriggersNonEmpty' /\ ChosenPlanFits' /\ ExecutionIsTriggered'
  BY DEF IInv, PlansNonEmpty, TriggersNonEmpty, Size, ChosenPlanFits, ExecutionIsTriggered
<1>3. Converted'
  BY DEF IInv, Converted
<1>4. AccountsForAll'
  BY DEF IInv, AccountsForAll
<1>5. PolicySound'
  <2> SUFFICES ASSUME NEW u \in Streams PROVE PolicySoundFor(policy[u], relative[u])'
    BY DEF PolicySound
  <2>1. PolicySoundFor(policy[u], relative[u]) /\ policy[u] \in Policy
    BY DEF IInv, PolicySound, TypeOK
  <2>2. plans \in Seq(Plan)
    BY DEF IInv, TypeOK
  <2> QED BY <2>1, <2>2, StoreKept, PolicySoundKept
<1> QED BY <1>1, <1>2, <1>3, <1>4, <1>5 DEF IInv

LEMMA DrainInv ==
    ASSUME IInv, NEW s \in Streams, Drain(s)
    PROVE  IInv'
<1>1. running = NoStream /\ pc = "idle"
  BY DEF IInv, Control, Drain
<1>2. \A u \in Streams : policy[u].num = Len(relative[u])
  BY <1>1, NoStreamAssumption DEF IInv, AccountsForAll
<1>3. Control'
  BY NoStreamAssumption DEF Drain, Control
<1> QED BY <1>1, <1>2, <1>3, ControlStepInv DEF Drain

LEMMA FinishOrDeferInv ==
    ASSUME IInv, NEW s \in Streams, Finish(s) \/ Defer(s)
    PROVE  IInv'
<1>1. /\ running = s /\ pc = "action" /\ mode' = mode
      /\ running' = NoStream /\ pc' = "idle"
      /\ UNCHANGED <<global, relative, converter, plans, policy, explorer,
                     chosen, submitted>>
  BY DEF Finish, Defer, Return
<1>2. \A u \in Streams : policy[u].num = Len(relative[u])
  BY <1>1 DEF IInv, AccountsForAll
<1>3. Control' /\ mode' \in {"Lazy", "Sync"}
  BY <1>1 DEF Control, IInv, TypeOK
<1> QED BY <1>1, <1>2, <1>3, ControlStepInv

LEMMA EndReplayInv ==
    ASSUME IInv, NEW s \in Streams, EndReplay(s)
    PROVE  IInv'
<1>1. /\ running = s /\ pc = "replay" /\ mode' = mode /\ running' = s /\ pc' = "action"
      /\ policy[s].num = Len(relative[s])
      /\ UNCHANGED <<global, relative, converter, plans, policy, explorer,
                     chosen, submitted>>
  BY DEF EndReplay
<1>2. \A u \in Streams : policy[u].num = Len(relative[u])
  BY <1>1 DEF IInv, AccountsForAll
<1>3. Control' /\ mode' \in {"Lazy", "Sync"} /\ running' \in Streams \cup {NoStream}
  BY <1>1, NoStreamAssumption DEF Control, IInv, TypeOK
<1> QED BY <1>1, <1>2, <1>3, ControlStepInv

LEMMA StutterInv ==
    ASSUME IInv, UNCHANGED vars
    PROVE  IInv'
<1> USE DEF vars
<1>1. TypeOK' /\ Control'
  BY DEF IInv, TypeOK, Control
<1>2. PlansNonEmpty' /\ TriggersNonEmpty'
  BY DEF IInv, PlansNonEmpty, TriggersNonEmpty, Size
<1>3. ChosenPlanFits' /\ ExecutionIsTriggered'
  BY DEF IInv, ChosenPlanFits, ExecutionIsTriggered, StandsAt, Size
<1>4. Converted' /\ AccountsForAll'
  BY DEF IInv, Converted, AccountsForAll
<1>5. PolicySound'
  <2> SUFFICES ASSUME NEW u \in Streams, ~(running = u /\ pc = "convert")
               PROVE  PolicySoundFor(policy[u], relative[u])'
    BY DEF PolicySound
  <2>1. PolicySoundFor(policy[u], relative[u]) /\ policy[u] \in Policy /\ plans \in Seq(Plan)
    BY DEF IInv, PolicySound, TypeOK
  <2> QED BY <2>1, StoreKept, PolicySoundKept
<1> QED BY <1>1, <1>2, <1>3, <1>4, <1>5 DEF IInv

LEMMA ExploreContinueInv ==
    ASSUME IInv, NEW s \in Streams, ExploreContinue(s)
    PROVE  IInv'
<1>1. /\ running = s /\ pc = "action" /\ running' = NoStream /\ pc' = "idle"
      /\ explorer' = [explorer EXCEPT ![s] =
            [deferred |-> 0, explored |-> explorer[s].explored + explorer[s].deferred]]
      /\ UNCHANGED <<global, relative, converter, plans, policy, mode, chosen, submitted>>
  BY DEF ExploreContinue, MustExplore, Return
<1>2. /\ explorer' \in [Streams -> Explorer]
      /\ \A u \in Streams : explorer'[u].explored + explorer'[u].deferred =
                                explorer[u].explored + explorer[u].deferred
  BY <1>1 DEF IInv, TypeOK, Explorer
<1>3. TypeOK' /\ Control'
  BY <1>1, <1>2 DEF IInv, TypeOK, Control
<1>4. PlansNonEmpty' /\ TriggersNonEmpty' /\ ChosenPlanFits' /\ ExecutionIsTriggered'
  BY <1>1 DEF IInv, PlansNonEmpty, TriggersNonEmpty, Size, ChosenPlanFits, ExecutionIsTriggered
<1>5. Converted' /\ AccountsForAll'
  BY <1>1, <1>2 DEF IInv, Converted, AccountsForAll
<1>6. PolicySound'
  <2> SUFFICES ASSUME NEW u \in Streams PROVE PolicySoundFor(policy[u], relative[u])'
    BY DEF PolicySound
  <2>1. PolicySoundFor(policy[u], relative[u]) /\ policy[u] \in Policy /\ plans \in Seq(Plan)
    BY <1>1 DEF IInv, PolicySound, TypeOK
  <2> QED BY <1>1, <2>1, StoreKept, PolicySoundKept
<1> QED BY <1>3, <1>4, <1>5, <1>6 DEF IInv

LEMMA ExecutePlanInv ==
    ASSUME IInv, NEW s \in Streams, ExecutePlan(s)
    PROVE  IInv'
<1>1. /\ running = s /\ pc = "execute" /\ running' = s /\ pc' = "convert"
      /\ global' = [global EXCEPT ![s] = SubSeq(global[s], Size(chosen) + 1, Len(global[s]))]
      /\ relative' = [relative EXCEPT ![s] = <<>>]
      /\ converter' = [converter EXCEPT ![s] = <<>>]
      /\ chosen' = 0
      /\ UNCHANGED <<plans, policy, explorer, mode, submitted>>
  BY DEF ExecutePlan, ClearConverter
<1>2. TypeOK /\ chosen \in 1..Len(plans) /\ Size(chosen) \in Nat /\ Len(global[s]) \in Nat
  <2>1. TypeOK /\ chosen # 0
    BY <1>1 DEF IInv, ChosenPlanFits
  <2>2. Len(plans) \in Nat /\ Len(global[s]) \in Nat
    BY <2>1, LenProperties DEF TypeOK
  <2>3. chosen \in 1..Len(plans)
    BY <2>1, <2>2 DEF TypeOK
  <2> QED BY <2>1, <2>2, <2>3, PlanType DEF TypeOK
<1>3. SubSeq(global[s], Size(chosen) + 1, Len(global[s])) \in Seq(Op)
  <2>1. \A i \in (Size(chosen) + 1)..Len(global[s]) : global[s][i] \in Op
    BY <1>2, ElementOfSeq DEF TypeOK
  <2>2. Size(chosen) + 1 \in Int /\ Len(global[s]) \in Int
    BY <1>2
  <2> QED BY <2>1, <2>2, SubSeqProperties
<1>4. TypeOK'
  BY <1>1, <1>2, <1>3, EmptySeq, LenProperties DEF TypeOK
<1>5. Control' /\ PlansNonEmpty' /\ TriggersNonEmpty' /\ ChosenPlanFits' /\ ExecutionIsTriggered'
  BY <1>1, NoStreamAssumption DEF IInv, Control, PlansNonEmpty, TriggersNonEmpty, Size,
         ChosenPlanFits, ExecutionIsTriggered
<1>6. Converted'
  <2>1. Len(relative'[s]) = 0 /\ Len(global'[s]) \in Nat
    BY <1>1, <1>2, <1>4, EmptySeq, LenProperties DEF TypeOK
  <2>2. \A u \in Streams : u # s => relative'[u] = relative[u] /\ global'[u] = global[u]
    BY <1>1, <1>2 DEF TypeOK
  <2>3. Len(relative'[s]) <= Len(global'[s])
    BY <2>1
  <2> QED BY <1>1, <2>2, <2>3 DEF IInv, Converted
<1>7. \A u \in Streams : u # s => relative'[u] = relative[u]
  BY <1>1, <1>2 DEF TypeOK
<1>8. AccountsForAll'
  BY <1>1, <1>7 DEF IInv, AccountsForAll
<1>9. PolicySound'
  <2> SUFFICES ASSUME NEW u \in Streams, u # s
               PROVE  PolicySoundFor(policy[u], relative[u])'
    BY <1>1 DEF PolicySound
  <2>1. PolicySoundFor(policy[u], relative[u]) /\ policy[u] \in Policy /\ plans \in Seq(Plan)
    BY <1>1, <1>2 DEF IInv, PolicySound, TypeOK
  <2> QED BY <1>1, <1>7, <2>1, StoreKept, PolicySoundKept
<1> QED BY <1>4, <1>5, <1>6, <1>8, <1>9 DEF IInv

LEMMA ReconvertInv ==
    ASSUME IInv, NEW s \in Streams, Reconvert(s)
    PROVE  IInv'
<1>1. /\ running = s /\ pc = "convert" /\ running' = s /\ pc' = "convert"
      /\ Len(relative[s]) < Len(global[s])
      /\ Convert(s, global[s][Len(relative[s]) + 1])
      /\ UNCHANGED <<global, plans, policy, explorer, mode, chosen, submitted>>
  BY DEF Reconvert
<1>2. /\ TypeOK /\ Len(relative[s]) \in Nat /\ Len(global[s]) \in Nat
      /\ global[s][Len(relative[s]) + 1] \in Op
  <2>1. TypeOK /\ global[s] \in Seq(Op) /\ relative[s] \in Seq(RelOp)
    BY DEF IInv, TypeOK
  <2>2. Len(relative[s]) \in Nat /\ Len(global[s]) \in Nat
    BY <2>1, LenProperties
  <2>3. Len(relative[s]) + 1 \in 1..Len(global[s])
    BY <1>1, <2>2
  <2> QED BY <2>1, <2>2, <2>3, ElementOfSeq
<1>3. PICK rel \in RelOp : relative' = [relative EXCEPT ![s] = Append(relative[s], rel)]
  BY <1>1, <1>2, ConvertType
<1>4. /\ relative' \in [Streams -> Seq(RelOp)]
      /\ Len(relative'[s]) = Len(relative[s]) + 1
      /\ \A u \in Streams : u # s => relative'[u] = relative[u]
  <2>1. /\ Append(relative[s], rel) \in Seq(RelOp)
        /\ Len(Append(relative[s], rel)) = Len(relative[s]) + 1
    BY <1>2, AppendProperties DEF TypeOK
  <2> QED BY <1>2, <1>3, <2>1 DEF TypeOK
<1>5. TypeOK'
  <2>1. converter' \in [Streams -> Seq(Tensors)]
    BY <1>1, <1>2, ConvertType
  <2> QED BY <1>1, <1>2, <1>4, <2>1 DEF TypeOK
<1>6. Control' /\ PlansNonEmpty' /\ TriggersNonEmpty' /\ ChosenPlanFits' /\ ExecutionIsTriggered'
  BY <1>1, NoStreamAssumption DEF IInv, Control, PlansNonEmpty, TriggersNonEmpty, Size,
         ChosenPlanFits, ExecutionIsTriggered
<1>7. Converted'
  <2>1. Len(relative'[s]) <= Len(global'[s])
    BY <1>1, <1>2, <1>4
  <2> QED BY <1>1, <1>4, <2>1 DEF IInv, Converted
<1>8. AccountsForAll'
  BY <1>1, <1>4 DEF IInv, AccountsForAll
<1>9. PolicySound'
  <2> SUFFICES ASSUME NEW u \in Streams, u # s
               PROVE  PolicySoundFor(policy[u], relative[u])'
    BY <1>1 DEF PolicySound
  <2>1. PolicySoundFor(policy[u], relative[u]) /\ policy[u] \in Policy /\ plans \in Seq(Plan)
    BY <1>1, <1>2 DEF IInv, PolicySound, TypeOK
  <2> QED BY <1>1, <1>4, <2>1, StoreKept, PolicySoundKept
<1> QED BY <1>5, <1>6, <1>7, <1>8, <1>9 DEF IInv

LEMMA ResetProcessorInv ==
    ASSUME IInv, NEW s \in Streams, ResetProcessor(s)
    PROVE  IInv'
<1>1. /\ running = s /\ pc = "convert" /\ running' = s /\ pc' = "replay"
      /\ Len(relative[s]) = Len(global[s])
      /\ explorer' = [explorer EXCEPT ![s] = ResetExplorer(explorer[s], Len(relative[s]))]
      /\ policy' = [policy EXCEPT ![s] = ResetPolicy(policy[s])]
      /\ UNCHANGED <<global, relative, converter, plans, mode, chosen, submitted>>
  BY DEF ResetProcessor
<1>2. /\ TypeOK /\ Len(relative[s]) \in Nat
      /\ explorer[s] \in Explorer /\ policy[s] \in Policy
  BY LenProperties DEF IInv, TypeOK
<1>3. /\ ResetExplorer(explorer[s], Len(relative[s])) =
            [deferred |-> Len(relative[s]), explored |-> 0]
      /\ ResetPolicy(policy[s]) = NewPolicy
  BY DEF ResetExplorer, ResetPolicy
<1>4. NewPolicy \in Policy
  BY DEF NewPolicy, Policy
<1>5. /\ explorer' \in [Streams -> Explorer] /\ policy' \in [Streams -> Policy]
      /\ explorer'[s] = [deferred |-> Len(relative[s]), explored |-> 0]
      /\ policy'[s] = NewPolicy
      /\ \A u \in Streams : u # s => explorer'[u] = explorer[u] /\ policy'[u] = policy[u]
  BY <1>1, <1>2, <1>3, <1>4 DEF TypeOK, Explorer
<1>6. TypeOK'
  BY <1>1, <1>2, <1>5 DEF TypeOK
<1>7. Control' /\ PlansNonEmpty' /\ TriggersNonEmpty' /\ ChosenPlanFits' /\ ExecutionIsTriggered'
  BY <1>1, NoStreamAssumption DEF IInv, Control, PlansNonEmpty, TriggersNonEmpty, Size,
         ChosenPlanFits, ExecutionIsTriggered
<1>8. Converted'
  BY <1>1 DEF IInv, Converted
<1>9. AccountsForAll'
  <2>1. /\ explorer'[s].explored + explorer'[s].deferred = Len(relative'[s])
        /\ policy'[s].num <= Len(relative'[s])
    BY <1>1, <1>2, <1>5 DEF NewPolicy
  <2> QED BY <1>1, <1>5, <2>1 DEF IInv, AccountsForAll
<1>10. PolicySound'
  <2> SUFFICES ASSUME NEW u \in Streams PROVE PolicySoundFor(policy[u], relative[u])'
    BY DEF PolicySound
  <2>1. CASE u = s
    <3>1. PolicySoundFor(policy'[s], relative'[s])
      BY <1>5 DEF PolicySoundFor, FoundSound, NewPolicy
    <3> QED BY <1>1, <2>1, <3>1, PolicySoundUpdated
  <2>2. CASE u # s
    <3>1. PolicySoundFor(policy[u], relative[u]) /\ policy[u] \in Policy /\ plans \in Seq(Plan)
      BY <1>1, <1>2, <2>2 DEF IInv, PolicySound, TypeOK
    <3> QED BY <1>1, <1>5, <2>2, <3>1, StoreKept, PolicySoundKept
  <2> QED BY <2>1, <2>2
<1> QED BY <1>6, <1>7, <1>8, <1>9, <1>10 DEF IInv

LEMMA ReplayInv ==
    ASSUME IInv, NEW s \in Streams, Replay(s)
    PROVE  IInv'
<1> DEFINE p == policy[s]
           q == UpdatePolicy(p, relative[s][p.num + 1])
<1>1. /\ running = s /\ pc = "replay" /\ running' = s /\ pc' = "replay"
      /\ p.num < Len(relative[s])
      /\ policy' = [policy EXCEPT ![s] = q]
      /\ UNCHANGED <<global, relative, converter, plans, explorer, mode, chosen, submitted>>
  BY DEF Replay
<1>2. /\ TypeOK /\ TriggersNonEmpty /\ plans \in Seq(Plan) /\ p \in Policy
      /\ PolicySoundFor(p, relative[s]) /\ Len(relative[s]) \in Nat
  BY <1>1, LenProperties DEF IInv, TypeOK, PolicySound
<1>3. q \in Policy /\ PolicySoundFor(q, relative[s]) /\ q.num = p.num + 1
  BY <1>2, ReplaySound
<1> HIDE DEF q
<1>4. /\ policy' \in [Streams -> Policy] /\ policy'[s] = q
      /\ \A u \in Streams : u # s => policy'[u] = policy[u]
  BY <1>1, <1>2, <1>3 DEF TypeOK
<1>5. TypeOK'
  BY <1>1, <1>2, <1>4 DEF TypeOK
<1>6. Control' /\ PlansNonEmpty' /\ TriggersNonEmpty' /\ ChosenPlanFits' /\ ExecutionIsTriggered'
  BY <1>1, NoStreamAssumption DEF IInv, Control, PlansNonEmpty, TriggersNonEmpty, Size,
         ChosenPlanFits, ExecutionIsTriggered
<1>7. Converted'
  BY <1>1 DEF IInv, Converted
<1>8. AccountsForAll'
  <2>1. policy'[s].num <= Len(relative'[s])
    <3>1. p.num \in Nat
      BY <1>2 DEF Policy
    <3> QED BY <1>1, <1>2, <1>3, <1>4, <3>1
  <2> QED BY <1>1, <1>4, <2>1 DEF IInv, AccountsForAll
<1>9. PolicySound'
  <2> SUFFICES ASSUME NEW u \in Streams PROVE PolicySoundFor(policy[u], relative[u])'
    BY DEF PolicySound
  <2>1. CASE u = s
    BY <1>1, <1>3, <1>4, <2>1, PolicySoundUpdated
  <2>2. CASE u # s
    <3>1. PolicySoundFor(policy[u], relative[u]) /\ policy[u] \in Policy
      BY <1>1, <1>2, <2>2 DEF IInv, PolicySound, TypeOK
    <3> QED BY <1>1, <1>2, <1>4, <2>2, <3>1, StoreKept, PolicySoundKept
  <2> QED BY <2>1, <2>2
<1> QED BY <1>5, <1>6, <1>7, <1>8, <1>9 DEF IInv

(* A plan that action_sync picks for the oldest operations is one whose    *)
(* operations are exactly these: a candidate is always longer.             *)
LEMMA ExactPlanIsAvailable ==
    ASSUME plans \in Seq(Plan), NEW p \in Policy, NEW queue, NEW ops,
           Len(ops) \in Nat, Len(ops) <= p.num,
           PolicySoundFor(p, queue), ExactPlan(p, ops) # 0
    PROVE  \E item \in p.availables :
                item.id = ExactPlan(p, ops) /\ item.size = Len(ops)
<1> DEFINE items == {i \in p.availables : i.size = Len(ops)}
           cands == {i \in p.candidates : Size(i) = Len(ops)}
<1>1. cands = {}
  <2> SUFFICES ASSUME NEW i \in p.candidates, Size(i) = Len(ops) PROVE FALSE
    OBVIOUS
  <2>1. Size(i) > p.num /\ p.num \in Nat
    BY DEF PolicySoundFor, CandidateSound, Policy
  <2> QED BY <2>1
<1>2. items # {}
  BY <1>1 DEF ExactPlan
<1>3. FirstItem(items) \in items
  BY <1>2, FirstItemIsMember DEF Policy
<1>4. ExactPlan(p, ops) = FirstItem(items).id
  BY <1>2 DEF ExactPlan
<1> QED BY <1>3, <1>4

(* An available plan stands at the head of the operations seen. *)
LEMMA AvailableFits ==
    ASSUME plans \in Seq(Plan), NEW p \in Policy, NEW queue \in Seq(RelOp),
           p.num <= Len(queue), PolicySoundFor(p, queue), NEW item \in p.availables
    PROVE  /\ item.id \in 1..Len(plans) /\ item.id # 0
           /\ item.size = Size(item.id)
           /\ StandsAt(plans[item.id].operations, queue, 0)
<1>1. ItemSound(item, p.num, queue) /\ item.size \in Nat /\ p.num \in Nat
  BY DEF PolicySoundFor, Policy, AvailableItem
<1>2. Len(queue) \in Nat /\ Len(plans) \in Nat
  BY LenProperties
<1>3. /\ item.id \in 1..Len(plans)
      /\ item.size = Len(plans[item.id].operations)
      /\ item.size <= p.num
      /\ \A k \in 1..item.size : plans[item.id].operations[k] = queue[k]
  BY <1>1 DEF ItemSound, Size
<1>4. StandsAt(plans[item.id].operations, queue, 0)
  BY <1>1, <1>2, <1>3 DEF StandsAt
<1> QED BY <1>2, <1>3, <1>4 DEF Size

(* A plan that was found during an update has a trigger that says so. *)
LEMMA FoundIsTriggered ==
    ASSUME plans \in Seq(Plan), NEW p \in Policy, NEW queue \in Seq(RelOp),
           p.num = Len(queue), PolicySoundFor(p, queue), p.found # 0
    PROVE  /\ \E item \in p.availables : item.id = p.found
           /\ \E j \in 1..Len(plans[p.found].triggers) :
                LET t == plans[p.found].triggers[j]
                IN  \/ t.kind = "Always"
                    \/ t.kind = "OnOperations" /\ StandsAt(t.ops, queue, Size(p.found))
<1>1. PICK item \in p.availables : item.id = p.found /\ Fires(item)
  BY DEF PolicySoundFor, FoundSound
<1>2. PICK j \in 1..Len(item.triggers) :
        \/ item.triggers[j].kind = "Always"
        \/ item.triggers[j].kind = "OnOperations" /\ item.triggers[j].matching = "Found"
  BY <1>1 DEF Fires
<1> DEFINE t == plans[item.id].triggers[j]
<1>3. /\ ItemSound(item, p.num, queue) /\ item.size = Size(item.id)
      /\ item.id \in 1..Len(plans)
  BY DEF PolicySoundFor, ItemSound
<1>4. /\ Len(item.triggers) \in Nat /\ Len(plans[item.id].triggers) \in Nat
      /\ item.size \in Nat /\ p.num \in Nat
  BY <1>3, PlanType, LenProperties DEF Policy, AvailableItem
<1>5. j \in 1..Len(plans[item.id].triggers)
  BY <1>3, <1>4 DEF ItemSound
<1>6. t \in Trigger /\ Len(t.ops) \in Nat
  BY <1>3, <1>5, PlanType, LenProperties DEF Trigger
<1>7. ValidatorSound(item.triggers[j], t, item.size, p.num, queue)
  BY <1>3 DEF ItemSound
<1> HIDE DEF t
<1>8. \/ t.kind = "Always"
      \/ t.kind = "OnOperations" /\ StandsAt(t.ops, queue, item.size)
  <2>1. CASE item.triggers[j].kind = "Always"
    BY <1>7, <2>1 DEF ValidatorSound
  <2>2. CASE item.triggers[j].kind = "OnOperations" /\ item.triggers[j].matching = "Found"
    <3>1. /\ t.kind = "OnOperations"
          /\ Len(t.ops) <= p.num - item.size
          /\ \A k \in 1..Len(t.ops) : t.ops[k] = queue[item.size + k]
      BY <1>7, <2>2 DEF ValidatorSound
    <3>2. item.size + Len(t.ops) <= Len(queue)
      BY <1>4, <1>6, <3>1
    <3> QED BY <3>1, <3>2 DEF StandsAt
  <2> QED BY <1>2, <2>1, <2>2
<1> QED BY <1>1, <1>3, <1>5, <1>8 DEF t
LEMMA ExecuteCachedInv ==
    ASSUME IInv, NEW s \in Streams, ExecuteCached(s)
    PROVE  IInv' /\ StoreGrows
<1> DEFINE p == policy[s]
           r == relative[s]
           id == PlanToExecute(p, r, mode)
<1>1. /\ running = s /\ pc = "action" /\ running' = s /\ pc' = "execute"
      /\ id # 0 /\ chosen' = id
      /\ plans' = IF mode = "Sync" THEN AddTrigger(id, OnSync) ELSE plans
      /\ UNCHANGED <<global, relative, converter, policy, explorer, mode, submitted>>
  BY DEF ExecuteCached
<1>2. /\ TypeOK /\ TriggersNonEmpty /\ PlansNonEmpty /\ plans \in Seq(Plan)
      /\ p \in Policy /\ r \in Seq(RelOp) /\ Len(r) \in Nat /\ p.num = Len(r)
      /\ PolicySoundFor(p, r) /\ mode \in {"Lazy", "Sync"}
  BY <1>1, LenProperties DEF IInv, TypeOK, AccountsForAll, PolicySound
<1>3. \E item \in p.availables : item.id = id
  <2>1. CASE p.found # 0
    BY <1>2, <2>1, FoundIsTriggered DEF PlanToExecute
  <2>2. CASE p.found = 0
    <3>1. id = ExactPlan(p, r)
      BY <1>1, <2>2 DEF PlanToExecute
    <3>2. Len(r) <= p.num
      BY <1>2
    <3> QED BY <1>1, <1>2, <3>1, <3>2, ExactPlanIsAvailable
  <2> QED BY <2>1, <2>2
<1>4. /\ id \in 1..Len(plans)
      /\ StandsAt(plans[id].operations, r, 0)
  <2>1. p.num <= Len(r)
    BY <1>2
  <2> QED BY <1>2, <1>3, <2>1, AvailableFits
<1>5. \/ mode = "Sync"
      \/ \E j \in 1..Len(plans[id].triggers) :
            LET t == plans[id].triggers[j]
            IN  \/ t.kind = "Always"
                \/ t.kind = "OnOperations" /\ StandsAt(t.ops, r, Size(id))
  <2>1. CASE p.found # 0
    <3>1. id = p.found
      BY <2>1 DEF PlanToExecute
    <3> HIDE DEF id, p, r
    <3> QED BY <1>2, <2>1, <3>1, FoundIsTriggered
  <2>2. CASE p.found = 0
    BY <1>1, <2>2 DEF PlanToExecute
  <2> QED BY <2>1, <2>2
<1> HIDE DEF id
<1>6. /\ plans' \in Seq(Plan) /\ Len(plans') = Len(plans)
      /\ StoreGrows /\ TriggersNonEmpty' /\ PlansNonEmpty'
      /\ mode = "Sync" => \E j \in 1..Len(plans'[id].triggers) :
                              plans'[id].triggers[j] = OnSync
      /\ mode # "Sync" => plans' = plans
  <2>1. CASE mode = "Sync"
    <3>1. plans' = AddTrigger(id, OnSync)
      BY <1>1, <2>1
    <3>2. OnSync \in Trigger /\ OnSync.kind # "OnOperations"
      BY EmptySeq DEF OnSync, Trigger
    <3> QED BY <1>2, <1>4, <2>1, <3>1, <3>2, AddTriggerGrows
  <2>2. CASE mode # "Sync"
    <3>1. plans' = plans
      BY <1>1, <2>2
    <3> QED BY <1>2, <2>2, <3>1, StoreKept DEF TriggersNonEmpty, PlansNonEmpty, Size
  <2> QED BY <2>1, <2>2
<1>7. TypeOK'
  <2>1. chosen' \in 0..Len(plans')
    <3>1. Len(plans) \in Nat
      BY <1>2, LenProperties
    <3> QED BY <1>1, <1>4, <1>6, <3>1
  <2> QED BY <1>1, <1>2, <1>6, <2>1 DEF TypeOK
<1>8. Control' /\ Converted' /\ AccountsForAll'
  BY <1>1, NoStreamAssumption DEF IInv, Control, Converted, AccountsForAll
<1>9. PolicySound'
  <2> SUFFICES ASSUME NEW u \in Streams PROVE PolicySoundFor(policy[u], relative[u])'
    BY DEF PolicySound
  <2>1. PolicySoundFor(policy[u], relative[u]) /\ policy[u] \in Policy
    BY <1>1, <1>2 DEF IInv, PolicySound, TypeOK
  <2> QED BY <1>1, <1>2, <1>6, <2>1, PolicySoundKept
<1>10. plans'[id].operations = plans[id].operations
  BY <1>4, <1>6 DEF StoreGrows
<1>11. ChosenPlanFits'
  <2>1. Size(id) > 0 /\ id # 0
    BY <1>1, <1>2, <1>4 DEF PlansNonEmpty
  <2>2. StandsAt(plans'[id].operations, relative'[running'], 0)
    BY <1>1, <1>4, <1>10
  <2> QED BY <1>1, <1>10, <2>1, <2>2 DEF ChosenPlanFits, Size
<1>12. ExecutionIsTriggered'
  <2>1. CASE mode = "Sync"
    <3>1. PICK j \in 1..Len(plans'[id].triggers) : plans'[id].triggers[j] = OnSync
      BY <1>6, <2>1
    <3> QED BY <1>1, <2>1, <3>1 DEF ExecutionIsTriggered, OnSync
  <2>2. CASE mode # "Sync"
    <3>1. relative'[running'] = r /\ plans' = plans
      BY <1>1, <1>6, <2>2
    <3> QED BY <1>1, <1>5, <2>2, <3>1 DEF ExecutionIsTriggered, Size
  <2> QED BY <2>1, <2>2
<1> QED BY <1>6, <1>7, <1>8, <1>9, <1>11, <1>12 DEF IInv
LEMMA ExploreCompleteInv ==
    ASSUME IInv, NEW s \in Streams, NEW r, NEW n, ExploreComplete(s, r, n)
    PROVE  IInv' /\ StoreGrows
<1> DEFINE queue == relative[s]
           p == policy[s]
           ops == SubSeq(queue, 1, n)
           next == SubSeq(queue, n + 1, Len(queue))
           trigger == IF mode = "Sync" THEN OnSync
                      ELSE IF next = <<>> THEN Always
                      ELSE OnOperations(next)
           known == PlanToExecute(p, ops, "Sync")
<1>1. /\ running = s /\ pc = "action" /\ running' = s /\ pc' = "execute"
      /\ PlanToExecute(p, queue, mode) = 0
      /\ r \in explorer[s].explored..(explorer[s].explored + explorer[s].deferred)
      /\ n \in 1..r
      /\ explorer' = [explorer EXCEPT ![s] = [deferred |-> 0, explored |-> r]]
      /\ UNCHANGED <<global, relative, converter, policy, mode, submitted>>
  BY DEF ExploreComplete, MustExplore
<1>2. IF known # 0
      THEN plans' = AddTrigger(known, trigger) /\ chosen' = known
      ELSE plans' = AddPlan(ops, trigger) /\ chosen' = Len(plans) + 1
  BY DEF ExploreComplete
<1>3. /\ TypeOK /\ TriggersNonEmpty /\ PlansNonEmpty /\ plans \in Seq(Plan)
      /\ p \in Policy /\ queue \in Seq(RelOp) /\ Len(queue) \in Nat
      /\ p.num = Len(queue) /\ PolicySoundFor(p, queue) /\ mode \in {"Lazy", "Sync"}
      /\ explorer[s] \in Explorer
      /\ explorer[s].explored + explorer[s].deferred = Len(queue)
  BY <1>1, LenProperties DEF IInv, TypeOK, AccountsForAll, PolicySound
<1>4. n \in 1..Len(queue) /\ r \in Nat /\ n \in Nat
  BY <1>1, <1>3 DEF Explorer
<1>5. /\ ops \in Seq(RelOp) /\ Len(ops) = n /\ ops # <<>>
      /\ \A k \in 1..n : ops[k] = queue[k]
  <2>1. \A k \in 1..n : queue[k] \in RelOp
    BY <1>3, <1>4, ElementOfSeq
  <2>2. ops \in Seq(RelOp) /\ Len(ops) = n /\ \A k \in 1..n : ops[k] = queue[k]
    BY <1>3, <1>4, <2>1, SubSeqProperties
  <2> HIDE DEF ops
  <2> QED BY <1>4, <2>2, EmptySeq
<1>6. /\ next \in Seq(RelOp)
      /\ n + Len(next) = Len(queue)
      /\ \A k \in 1..Len(next) : next[k] = queue[n + k]
  <2>1. \A k \in (n + 1)..Len(queue) : queue[k] \in RelOp
    BY <1>3, <1>4, ElementOfSeq
  <2>2. CASE n + 1 <= Len(queue)
    <3>1. /\ next \in Seq(RelOp)
          /\ Len(next) = Len(queue) - (n + 1) + 1
          /\ \A k \in 1..(Len(queue) - (n + 1) + 1) : next[k] = queue[(n + 1) + k - 1]
      BY <1>3, <1>4, <2>1, <2>2, SubSeqProperties
    <3>2. Len(next) = Len(queue) - n
      BY <1>3, <1>4, <3>1
    <3>3. ASSUME NEW k \in 1..Len(next) PROVE next[k] = queue[n + k]
      <4>1. k \in 1..(Len(queue) - (n + 1) + 1) /\ (n + 1) + k - 1 = n + k
        BY <1>3, <1>4, <3>2
      <4> QED BY <3>1, <4>1
    <3>4. n + Len(next) = Len(queue)
      BY <1>3, <1>4, <3>2
    <3> QED BY <3>1, <3>3, <3>4
  <2>3. CASE ~(n + 1 <= Len(queue))
    <3>1. n = Len(queue) /\ next = <<>>
      BY <1>3, <1>4, <2>3, SubSeqProperties
    <3> HIDE DEF next
    <3> QED BY <1>3, <1>4, <3>1, EmptySeq
  <2> QED BY <2>2, <2>3
<1> HIDE DEF ops, next
<1>7. /\ trigger \in Trigger
      /\ trigger.kind = "OnOperations" => trigger.ops # <<>>
      /\ \/ trigger.kind = "OnSync" /\ mode = "Sync"
         \/ trigger.kind = "Always"
         \/ trigger.kind = "OnOperations" /\ StandsAt(trigger.ops, queue, n)
  <2>1. CASE mode = "Sync"
    BY <2>1, EmptySeq DEF OnSync, Trigger
  <2>2. CASE mode # "Sync" /\ next = <<>>
    BY <2>2, EmptySeq DEF Always, Trigger
  <2>3. CASE mode # "Sync" /\ next # <<>>
    <3>1. StandsAt(next, queue, n)
      BY <1>3, <1>4, <1>6 DEF StandsAt
    <3>2. trigger = [kind |-> "OnOperations", ops |-> next]
      BY <2>3 DEF OnOperations
    <3> HIDE DEF trigger
    <3> QED BY <1>6, <2>3, <3>1, <3>2 DEF Trigger
  <2> QED BY <2>1, <2>2, <2>3
<1> HIDE DEF trigger
<1>8. /\ plans' \in Seq(Plan) /\ StoreGrows /\ TriggersNonEmpty' /\ PlansNonEmpty'
      /\ chosen' \in 1..Len(plans')
      /\ Len(plans'[chosen'].operations) = n
      /\ \A k \in 1..n : plans'[chosen'].operations[k] = queue[k]
      /\ \E j \in 1..Len(plans'[chosen'].triggers) :
            plans'[chosen'].triggers[j] = trigger
  <2>1. CASE known # 0
    <3>1. known = ExactPlan(p, ops)
      BY <1>1, <1>3 DEF PlanToExecute, FoundSound, Policy
    <3>2. n <= p.num
      BY <1>3, <1>4
    <3>3. PICK item \in p.availables : item.id = known /\ item.size = n
      <4>1. Len(ops) \in Nat /\ Len(ops) <= p.num /\ ExactPlan(p, ops) # 0
        BY <1>4, <1>5, <2>1, <3>1, <3>2
      <4>2. p \in Policy /\ PolicySoundFor(p, queue)
        BY <1>3
      <4> HIDE DEF known, p, queue
      <4>3. \E item \in p.availables : item.id = ExactPlan(p, ops) /\ item.size = Len(ops)
        BY <1>3, <4>1, <4>2, ExactPlanIsAvailable
      <4> QED BY <1>5, <3>1, <4>3
    <3>4. p.num <= Len(queue)
      BY <1>3
    <3> HIDE DEF known, p, queue
    <3>5. /\ known \in 1..Len(plans)
          /\ n = Size(known)
          /\ StandsAt(plans[known].operations, queue, 0)
      BY <1>3, <3>3, <3>4, AvailableFits
    <3>6. /\ Len(plans[known].operations) = n
          /\ \A k \in 1..n : plans[known].operations[k] = queue[k]
      BY <1>4, <3>5 DEF StandsAt, Size
    <3>7. plans' = AddTrigger(known, trigger) /\ chosen' = known
      BY <1>2, <2>1
    <3>8. /\ plans' \in Seq(Plan) /\ Len(plans') = Len(plans)
          /\ StoreGrows /\ TriggersNonEmpty' /\ PlansNonEmpty'
          /\ \E j \in 1..Len(plans'[known].triggers) : plans'[known].triggers[j] = trigger
      BY <1>3, <1>7, <3>5, <3>7, AddTriggerGrows
    <3>9. plans'[known].operations = plans[known].operations
      BY <3>5, <3>8 DEF StoreGrows
    <3> QED BY <3>5, <3>6, <3>7, <3>8, <3>9
  <2>2. CASE known = 0
    <3>1. plans' = AddPlan(ops, trigger) /\ chosen' = Len(plans) + 1
      BY <1>2, <2>2
    <3>2. /\ plans' \in Seq(Plan) /\ Len(plans') = Len(plans) + 1
          /\ StoreGrows /\ TriggersNonEmpty' /\ PlansNonEmpty'
          /\ plans'[Len(plans')].operations = ops
          /\ plans'[Len(plans')].triggers = <<trigger>>
      BY <1>3, <1>5, <1>7, <3>1, AddPlanGrows
    <3>3. chosen' \in 1..Len(plans')
      BY <1>3, <3>1, <3>2, LenProperties
    <3>4. \E j \in 1..Len(plans'[chosen'].triggers) : plans'[chosen'].triggers[j] = trigger
      BY <3>1, <3>2
    <3> QED BY <1>5, <3>1, <3>2, <3>3, <3>4
  <2> QED BY <2>1, <2>2
<1> HIDE DEF known
<1>9. TypeOK'
  <2>1. chosen' \in 0..Len(plans')
    <3>1. Len(plans') \in Nat
      BY <1>8, LenProperties
    <3> QED BY <1>8, <3>1
  <2>2. explorer' \in [Streams -> Explorer]
    BY <1>1, <1>3, <1>4 DEF TypeOK, Explorer
  <2> QED BY <1>1, <1>3, <1>8, <2>1, <2>2 DEF TypeOK
<1>10. Control' /\ Converted'
  BY <1>1, NoStreamAssumption DEF IInv, Control, Converted
<1>11. AccountsForAll'
  <2>1. \A u \in Streams : u # s => explorer'[u] = explorer[u]
    BY <1>1, <1>3 DEF TypeOK
  <2> QED BY <1>1, <2>1 DEF IInv, AccountsForAll
<1>12. PolicySound'
  <2> SUFFICES ASSUME NEW u \in Streams PROVE PolicySoundFor(policy[u], relative[u])'
    BY DEF PolicySound
  <2>1. PolicySoundFor(policy[u], relative[u]) /\ policy[u] \in Policy
    BY <1>1, <1>3 DEF IInv, PolicySound, TypeOK
  <2> QED BY <1>1, <1>3, <1>8, <2>1, PolicySoundKept
<1>13. ChosenPlanFits'
  <2>1. StandsAt(plans'[chosen'].operations, relative'[running'], 0)
    BY <1>1, <1>3, <1>4, <1>8 DEF StandsAt
  <2>2. chosen' # 0 /\ Len(plans'[chosen'].operations) > 0
    BY <1>4, <1>8
  <2> QED BY <2>1, <2>2 DEF ChosenPlanFits, Size
<1>14. ExecutionIsTriggered'
  <2>1. relative'[running'] = queue /\ mode' = mode
    BY <1>1
  <2>2. PICK j \in 1..Len(plans'[chosen'].triggers) : plans'[chosen'].triggers[j] = trigger
    BY <1>8
  <2> QED BY <1>7, <1>8, <2>1, <2>2 DEF ExecutionIsTriggered, Size
<1> QED BY <1>8, <1>9, <1>10, <1>11, <1>12, <1>13, <1>14 DEF IInv
-----------------------------------------------------------------------------
(* The results.                                                            *)

(* Every step preserves the inductive invariant and only appends to the    *)
(* plan store.                                                             *)
LEMMA NextInv ==
    ASSUME IInv, [Next]_vars
    PROVE  IInv' /\ StoreGrows
<1>1. plans \in Seq(Plan)
  BY DEF IInv, TypeOK
<1>2. CASE UNCHANGED vars
  <2>1. plans' = plans
    BY <1>2 DEF vars
  <2> QED BY <1>1, <1>2, <2>1, StutterInv, StoreKept
<1>3. ASSUME NEW s \in Streams, NEW op \in Op, Register(s, op)
      PROVE  IInv' /\ StoreGrows
  <2>1. plans' = plans
    BY <1>3 DEF Register
  <2> QED BY <1>1, <1>3, <2>1, RegisterInv, StoreKept
<1>4. ASSUME NEW s \in Streams, Drain(s)
      PROVE  IInv' /\ StoreGrows
  <2>1. plans' = plans
    BY <1>4 DEF Drain
  <2> QED BY <1>1, <1>4, <2>1, DrainInv, StoreKept
<1>5. ASSUME NEW s \in Streams, Handle(s)
      PROVE  IInv' /\ StoreGrows
  <2>1. CASE Finish(s) \/ Defer(s)
    <3>1. plans' = plans
      BY <2>1 DEF Finish, Defer
    <3> QED BY <1>1, <2>1, <3>1, FinishOrDeferInv, StoreKept
  <2>2. CASE ExecuteCached(s)
    BY <2>2, ExecuteCachedInv
  <2>3. CASE ExploreContinue(s)
    <3>1. plans' = plans
      BY <2>3 DEF ExploreContinue
    <3> QED BY <1>1, <2>3, <3>1, ExploreContinueInv, StoreKept
  <2>4. ASSUME NEW r, NEW n, ExploreComplete(s, r, n)
        PROVE  IInv' /\ StoreGrows
    BY <2>4, ExploreCompleteInv
  <2>5. CASE ExecutePlan(s)
    <3>1. plans' = plans
      BY <2>5 DEF ExecutePlan
    <3> QED BY <1>1, <2>5, <3>1, ExecutePlanInv, StoreKept
  <2>6. CASE Reconvert(s)
    <3>1. plans' = plans
      BY <2>6 DEF Reconvert
    <3> QED BY <1>1, <2>6, <3>1, ReconvertInv, StoreKept
  <2>7. CASE ResetProcessor(s)
    <3>1. plans' = plans
      BY <2>7 DEF ResetProcessor
    <3> QED BY <1>1, <2>7, <3>1, ResetProcessorInv, StoreKept
  <2>8. CASE Replay(s)
    <3>1. plans' = plans
      BY <2>8 DEF Replay
    <3> QED BY <1>1, <2>8, <3>1, ReplayInv, StoreKept
  <2>9. CASE EndReplay(s)
    <3>1. plans' = plans
      BY <2>9 DEF EndReplay
    <3> QED BY <1>1, <2>9, <3>1, EndReplayInv, StoreKept
  <2> QED
    BY <1>5, <2>1, <2>2, <2>3, <2>4, <2>5, <2>6, <2>7, <2>8, <2>9 DEF Handle
<1> QED BY <1>2, <1>3, <1>4, <1>5 DEF Next

(* The inductive invariant holds in every reachable state. *)
THEOREM Inductive == Spec => []IInv
<1>1. Init => IInv
  BY InitInv
<1>2. IInv /\ [Next]_vars => IInv'
  BY NextInv
<1> QED BY <1>1, <1>2, PTL DEF Spec

(* The variables keep their types; in particular the relative tensor       *)
(* numbers, the plan ids of a policy and the chosen plan are never junk.   *)
THEOREM TypeCorrect == Spec => []TypeOK
<1>1. IInv => TypeOK
  BY DEF IInv
<1> QED BY <1>1, Inductive, PTL

(* A plan is only ever executed on the operations it was compiled for      *)
(* (execute_block_optimization splits them off the head of the queue).     *)
THEOREM ChosenPlanAlwaysFits == Spec => []ChosenPlanFits
<1>1. IInv => ChosenPlanFits
  BY DEF IInv
<1> QED BY <1>1, Inductive, PTL

(* A plan is only ever executed for a reason recorded with it: the trigger *)
(* the policy saw fire, or the one the exploration has just added.         *)
THEOREM ExecutionAlwaysTriggered == Spec => []ExecutionIsTriggered
<1>1. IInv => ExecutionIsTriggered
  BY DEF IInv
<1> QED BY <1>1, Inductive, PTL

(* The explorer and the policy never lose count of the queued operations,  *)
(* so the policy's panic on being asked too early is unreachable.          *)
THEOREM CountsNeverDrift == Spec => []AccountsForAll
<1>1. IInv => AccountsForAll
  BY DEF IInv
<1> QED BY <1>1, Inductive, PTL

(* What a policy holds of plans and triggers is what comparing them with   *)
(* the queue from scratch would say, whatever other streams stored since.  *)
THEOREM PolicyAlwaysSound == Spec => []PolicySound
<1>1. IInv => PolicySound
  BY DEF IInv
<1> QED BY <1>1, Inductive, PTL

(* No step removes, reorders or rewrites a plan or a trigger of the store. *)
THEOREM StoreAlwaysGrows == Spec => StoreOnlyGrows
<1>1. IInv /\ [Next]_vars => [StoreGrows]_vars
  BY NextInv
<1> QED BY <1>1, Inductive, PTL DEF Spec, StoreOnlyGrows

-----------------------------------------------------------------------------
(* Refinement.                                                             *)

(* Every step of the processor is a step of FusionStream or leaves it alone. *)
LEMMA StepRefines ==
    ASSUME IInv, [Next]_vars
    PROVE  [Stream!Next]_(Stream!vars)
<1>1. CASE UNCHANGED vars
  BY <1>1 DEF vars, Stream!vars
<1>2. ASSUME NEW s \in Streams, NEW op \in Op, Register(s, op)
      PROVE  Stream!Next
  <2>1. running = NoStream
    BY <1>2 DEF Register, IInv, Control
  <2>2. Stream!Submit(s, op)
    BY <1>2, <2>1 DEF Register, Stream!Submit
  <2> QED BY <2>2 DEF Stream!Next
<1>3. ASSUME NEW s \in Streams, Drain(s)
      PROVE  Stream!Next
  <2>1. running = NoStream
    BY <1>3 DEF Drain, IInv, Control
  <2>2. Stream!Drain(s)
    BY <1>3, <2>1 DEF Drain, Stream!Drain
  <2> QED BY <2>2 DEF Stream!Next
<1>4. ASSUME NEW s \in Streams, Handle(s)
      PROVE  [Stream!Next]_(Stream!vars)
  <2>1. CASE Finish(s)
    <3>1. /\ running = s /\ pc = "action" /\ relative[s] = <<>>
          /\ running' = NoStream /\ global' = global /\ mode' = mode
      BY <2>1 DEF Finish, Return
    <3>2. Len(global[s]) = 0 /\ global[s] \in Seq(Op)
      BY <3>1, EmptySeq DEF IInv, Converted, TypeOK
    <3>3. global[s] = <<>>
      BY <3>2, EmptySeq
    <3>4. Stream!Return(s)
      BY <3>1, <3>3 DEF Stream!Return
    <3> QED BY <3>4 DEF Stream!Next
  <2>2. CASE Defer(s) \/ ExploreContinue(s)
    <3>1. Stream!Return(s)
      BY <2>2 DEF Defer, ExploreContinue, MustExplore, Return, Stream!Return
    <3> QED BY <3>1 DEF Stream!Next
  <2>3. CASE ExecutePlan(s)
    <3>1. /\ running = s /\ pc = "execute" /\ running' = running /\ mode' = mode
          /\ global' = [global EXCEPT ![s] = SubSeq(@, Size(chosen) + 1, Len(@))]
      BY <2>3 DEF ExecutePlan
    <3>2. /\ Size(chosen) > 0 /\ Size(chosen) <= Len(relative[s])
          /\ Len(relative[s]) = Len(global[s]) /\ Len(global[s]) \in Nat
          /\ Size(chosen) \in Nat
      <4>1. /\ chosen # 0 /\ Size(chosen) > 0
            /\ 0 + Size(chosen) <= Len(relative[s])
        BY <3>1 DEF IInv, ChosenPlanFits, StandsAt, Size
      <4>2. Len(relative[s]) = Len(global[s]) /\ Len(global[s]) \in Nat
        BY <3>1, LenProperties DEF IInv, Converted, TypeOK
      <4>3. plans \in Seq(Plan) /\ chosen \in 1..Len(plans)
        BY <4>1, LenProperties DEF IInv, TypeOK
      <4>4. Size(chosen) \in Nat
        BY <4>3, PlanType
      <4> QED BY <4>1, <4>2, <4>4
    <3> DEFINE n == Size(chosen)
    <3>3. n \in 1..Len(global[s])
      BY <3>2
    <3>4. Stream!Run(s, n)
      BY <3>1, <3>3 DEF Stream!Run
    <3> HIDE DEF n
    <3> QED BY <3>3, <3>4 DEF Stream!Next
  <2>4. CASE \/ ExecuteCached(s) \/ Reconvert(s) \/ ResetProcessor(s)
             \/ Replay(s) \/ EndReplay(s)
             \/ \E r \in 0..Len(relative[s]) : \E n \in 1..r : ExploreComplete(s, r, n)
    <3>1. UNCHANGED <<global, mode>> /\ running' = running
      BY <2>4 DEF ExecuteCached, Reconvert, ResetProcessor, Replay, EndReplay,
             ExploreComplete, MustExplore
    <3> QED BY <3>1 DEF Stream!vars
  <2> QED BY <1>4, <2>1, <2>2, <2>3, <2>4 DEF Handle
<1> QED BY <1>1, <1>2, <1>3, <1>4 DEF Next

(* The processor, with its caches and its exploration, implements the      *)
(* first-in first-out streams of FusionStream.                             *)
THEOREM Refinement == Spec => ImplementsStream
<1>1. Init => Stream!Init
  BY DEF Init, Stream!Init
<1>2. IInv /\ [Next]_vars => [Stream!Next]_(Stream!vars)
  BY StepRefines
<1> QED BY <1>1, <1>2, Inductive, PTL DEF Spec, ImplementsStream, Stream!Spec

-----------------------------------------------------------------------------
(* The canonical renaming of a queue.                                      *)

(* The converter lists the tensors of the converted operations in order of *)
(* first use: each of its entries was used first by some operation, which  *)
(* the earlier entries, and no others, were used before.                   *)
FirstUses(conv, n, glob) ==
    \A c \in 1..Len(conv) : \E i \in 1..n :
        /\ glob[i].tensor = conv[c]
        /\ {glob[j].tensor : j \in 1..(i - 1)} = {conv[d] : d \in 1..(c - 1)}

Injective(conv) == \A c, d \in 1..Len(conv) : conv[c] = conv[d] => c = d

(* A converted operation names its tensor by its position in the converter. *)
Renamed(conv, rel, glob) ==
    \A i \in 1..Len(rel) : \E c \in 1..Len(conv) :
        /\ conv[c] = glob[i].tensor
        /\ rel[i] = [kind |-> glob[i].kind, tensor |-> c - 1]

CanonFor(conv, rel, glob) ==
    /\ Injective(conv)
    /\ Renamed(conv, rel, glob)
    /\ FirstUses(conv, Len(rel), glob)

(* Only the operations that were converted matter. *)
LEMMA CanonPrefix ==
    ASSUME NEW conv, NEW rel, NEW glob, NEW longer, Len(rel) \in Nat,
           \A i \in 1..Len(rel) : longer[i] = glob[i],
           CanonFor(conv, rel, glob)
    PROVE  CanonFor(conv, rel, longer)
<1>1. Renamed(conv, rel, longer)
  BY DEF CanonFor, Renamed
<1>2. FirstUses(conv, Len(rel), longer)
  <2> SUFFICES ASSUME NEW c \in 1..Len(conv)
               PROVE  \E i \in 1..Len(rel) :
                        /\ longer[i].tensor = conv[c]
                        /\ {longer[j].tensor : j \in 1..(i - 1)} = {conv[d] : d \in 1..(c - 1)}
    BY DEF FirstUses
  <2>1. PICK i \in 1..Len(rel) :
            /\ glob[i].tensor = conv[c]
            /\ {glob[j].tensor : j \in 1..(i - 1)} = {conv[d] : d \in 1..(c - 1)}
    BY DEF CanonFor, FirstUses
  <2>2. \A j \in 1..(i - 1) : longer[j] = glob[j]
    OBVIOUS
  <2>3. {longer[j].tensor : j \in 1..(i - 1)} = {glob[j].tensor : j \in 1..(i - 1)}
    BY <2>2
  <2> QED BY <2>1, <2>3
<1> QED BY <1>1, <1>2 DEF CanonFor

(* Converting the next operation of the queue keeps the renaming canonical, *)
(* whether its tensor was seen before or not.                              *)
LEMMA ConvertCanon ==
    ASSUME NEW conv \in Seq(Tensors), NEW rel \in Seq(RelOp), NEW glob,
           NEW op \in Op, glob[Len(rel) + 1] = op,
           CanonFor(conv, rel, glob)
    PROVE  LET new == ConverterWith(conv, op.tensor)
           IN  CanonFor(new, Append(rel, ToRelative(new, op)), glob)
<1> DEFINE t == op.tensor
           n == Len(rel)
           m == Len(conv)
           new == ConverterWith(conv, t)
           more == Append(rel, ToRelative(new, op))
<1>1. /\ n \in Nat /\ m \in Nat /\ t \in Tensors
      /\ Len(more) = n + 1
      /\ more[n + 1] = ToRelative(new, op)
      /\ \A i \in 1..n : more[i] = rel[i]
  BY LenProperties DEF Op
<1>2. /\ Len(new) \in Nat /\ m <= Len(new)
      /\ \A c \in 1..m : new[c] = conv[c]
      /\ Injective(new)
      /\ \E c \in 1..Len(new) : new[c] = t
      /\ FirstUses(new, n + 1, glob)
  <2>1. CASE Known(conv, t)
    <3>1. new = conv
      BY <2>1 DEF ConverterWith
    <3>2. FirstUses(conv, n + 1, glob)
      <4>1. \A i \in 1..n : i \in 1..(n + 1)
        BY <1>1
      <4>2. FirstUses(conv, n, glob)
        BY DEF CanonFor
      <4> HIDE DEF n
      <4> QED BY <4>1, <4>2 DEF FirstUses
    <3> HIDE DEF new
    <3> QED BY <1>1, <2>1, <3>1, <3>2 DEF CanonFor, Known
  <2>2. CASE ~Known(conv, t)
    <3>1. new = Append(conv, t)
      BY <2>2 DEF ConverterWith
    <3>2. /\ Len(new) = m + 1 /\ new[m + 1] = t
          /\ \A c \in 1..m : new[c] = conv[c]
      BY <1>1, <3>1
    <3>3. \A c \in 1..Len(new) : c \in 1..m \/ c = m + 1
      BY <1>1, <3>2
    <3>4. \A c \in 1..m : conv[c] # t
      BY <2>2 DEF Known
    <3> HIDE DEF new
    <3>5. Injective(new)
      BY <3>2, <3>3, <3>4 DEF CanonFor, Injective
    <3>6. \A c \in 1..Len(new) : \A d \in 1..(c - 1) : new[d] = conv[d]
      BY <1>1, <3>2
    <3>7. ASSUME NEW c \in 1..m
          PROVE  \E i \in 1..(n + 1) :
                    /\ glob[i].tensor = new[c]
                    /\ {glob[j].tensor : j \in 1..(i - 1)} = {new[d] : d \in 1..(c - 1)}
      <4>1. PICK i \in 1..n :
                /\ glob[i].tensor = conv[c]
                /\ {glob[j].tensor : j \in 1..(i - 1)} = {conv[d] : d \in 1..(c - 1)}
        BY DEF CanonFor, FirstUses
      <4>2. i \in 1..(n + 1)
        BY <1>1
      <4>3. {new[d] : d \in 1..(c - 1)} = {conv[d] : d \in 1..(c - 1)}
        BY <3>2, <3>6, <1>1
      <4> QED BY <3>2, <4>1, <4>2, <4>3
    <3>8. {glob[j].tensor : j \in 1..n} = {new[d] : d \in 1..m}
      <4>1. ASSUME NEW j \in 1..n PROVE glob[j].tensor \in {new[d] : d \in 1..m}
        <5>1. PICK c \in 1..m : conv[c] = glob[j].tensor
          BY DEF CanonFor, Renamed
        <5> QED BY <3>2, <5>1
      <4>2. ASSUME NEW d \in 1..m PROVE new[d] \in {glob[j].tensor : j \in 1..n}
        <5>1. PICK i \in 1..n : glob[i].tensor = conv[d]
          BY DEF CanonFor, FirstUses
        <5> QED BY <3>2, <5>1
      <4> QED BY <4>1, <4>2
    <3>9. FirstUses(new, n + 1, glob)
      <4> SUFFICES ASSUME NEW c \in 1..Len(new)
                   PROVE  \E i \in 1..(n + 1) :
                            /\ glob[i].tensor = new[c]
                            /\ {glob[j].tensor : j \in 1..(i - 1)} = {new[d] : d \in 1..(c - 1)}
        BY DEF FirstUses
      <4>1. CASE c \in 1..m
        BY <3>7, <4>1
      <4>2. CASE c = m + 1
        <5>1. n + 1 \in 1..(n + 1) /\ (n + 1) - 1 = n /\ c - 1 = m
          BY <1>1, <4>2
        <5>2. glob[n + 1].tensor = new[c]
          BY <3>2, <4>2
        <5>3. {glob[j].tensor : j \in 1..((n + 1) - 1)} = {new[d] : d \in 1..(c - 1)}
          BY <3>8, <5>1
        <5> QED BY <5>1, <5>2, <5>3
      <4> QED BY <3>3, <4>1, <4>2
    <3>10. m + 1 \in 1..Len(new)
      BY <1>1, <3>2
    <3> QED BY <1>1, <3>2, <3>5, <3>9, <3>10
  <2> QED BY <2>1, <2>2
<1>3. PICK c \in 1..Len(new) : c = CHOOSE i \in 1..Len(new) : new[i] = t
  BY <1>2
<1>4. new[c] = t
  BY <1>2, <1>3
<1>5. more[n + 1] = [kind |-> op.kind, tensor |-> c - 1]
  BY <1>1, <1>3 DEF ToRelative
<1> HIDE DEF new, more
<1>6. Renamed(new, more, glob)
  <2> SUFFICES ASSUME NEW i \in 1..Len(more)
               PROVE  \E d \in 1..Len(new) :
                        /\ new[d] = glob[i].tensor
                        /\ more[i] = [kind |-> glob[i].kind, tensor |-> d - 1]
    BY DEF Renamed
  <2>1. CASE i \in 1..n
    <3>1. PICK d \in 1..m : /\ conv[d] = glob[i].tensor
                            /\ rel[i] = [kind |-> glob[i].kind, tensor |-> d - 1]
      BY <2>1 DEF CanonFor, Renamed
    <3>2. d \in 1..Len(new)
      BY <1>1, <1>2
    <3> QED BY <1>1, <1>2, <2>1, <3>1, <3>2
  <2>2. CASE i = n + 1
    BY <1>4, <1>5, <2>2
  <2> QED BY <1>1, <2>1, <2>2
<1>7. CanonFor(new, more, glob)
  BY <1>1, <1>2, <1>6 DEF CanonFor
<1> QED BY <1>7 DEF new, more

(* The image of 1..n under an injection has n elements. *)
LEMMA ImageCardinality ==
    ASSUME NEW n \in Nat, NEW f, \A c, d \in 1..n : f[c] = f[d] => c = d,
           NEW S, \A x : x \in S <=> \E c \in 1..n : f[c] = x
    PROVE  Cardinality(S) = n
<1> DEFINE g == [c \in 1..n |-> f[c]]
<1>1. g \in [1..n -> S] /\ \A c, d \in 1..n : g[c] = g[d] => c = d
  OBVIOUS
<1>2. \A x \in S : \E c \in 1..n : g[c] = x
  OBVIOUS
<1> HIDE DEF g
<1>3. g \in Bijection(1..n, S)
  BY <1>1, <1>2, Fun_IsBij
<1>4. ExistsBijection(1..n, S)
  BY <1>3, Fun_ExistsBij
<1> QED BY <1>4, FS_CountingElements

(* What RelativeIsCanonical says of the i-th operation of a queue. *)
Canonical(glob, i) ==
    LET t == glob[i].tensor
        before == {j \in 1..i : \A k \in 1..j : glob[k].tensor # t}
    IN  [kind   |-> glob[i].kind,
         tensor |-> Cardinality({glob[j].tensor : j \in before})]

LEMMA CanonIsCanonical ==
    ASSUME NEW conv \in Seq(Tensors), NEW rel \in Seq(RelOp), NEW glob,
           CanonFor(conv, rel, glob), NEW i \in 1..Len(rel)
    PROVE  rel[i] = Canonical(glob, i)
<1> DEFINE t == glob[i].tensor
           before == {j \in 1..i : \A k \in 1..j : glob[k].tensor # t}
<1>1. PICK c \in 1..Len(conv) :
        conv[c] = t /\ rel[i] = [kind |-> glob[i].kind, tensor |-> c - 1]
  BY DEF CanonFor, Renamed
<1>2. PICK first \in 1..Len(rel) :
        /\ glob[first].tensor = t
        /\ {glob[j].tensor : j \in 1..(first - 1)} = {conv[d] : d \in 1..(c - 1)}
  BY <1>1 DEF CanonFor, FirstUses
<1>3. Len(conv) \in Nat /\ Len(rel) \in Nat
  BY LenProperties
<1>4. \A d \in 1..(c - 1) : conv[d] # t
  BY <1>1, <1>3 DEF CanonFor, Injective
<1>5. \A j \in 1..(first - 1) : glob[j].tensor # t
  BY <1>2, <1>4
<1>6. first <= i
  <2>1. i \notin 1..(first - 1)
    BY <1>5
  <2> QED BY <1>3, <2>1
<1>7. before = 1..(first - 1)
  <2>1. ASSUME NEW j \in before PROVE j \in 1..(first - 1)
    <3>1. j \in 1..i /\ first \notin 1..j
      BY <1>2
    <3> QED BY <1>3, <3>1
  <2>2. ASSUME NEW j \in 1..(first - 1) PROVE j \in before
    <3>1. j \in 1..i /\ \A k \in 1..j : k \in 1..(first - 1)
      BY <1>3, <1>6
    <3> QED BY <1>5, <3>1
  <2> QED BY <2>1, <2>2
<1>8. {glob[j].tensor : j \in before} = {conv[d] : d \in 1..(c - 1)}
  BY <1>2, <1>7
<1>9. Cardinality({conv[d] : d \in 1..(c - 1)}) = c - 1
  <2> DEFINE m == c - 1
  <2>1. m \in Nat /\ \A d \in 1..m : d \in 1..Len(conv)
    BY <1>3
  <2> HIDE DEF m
  <2>2. \A d, e \in 1..m : conv[d] = conv[e] => d = e
    BY <2>1 DEF CanonFor, Injective
  <2> DEFINE S == {conv[d] : d \in 1..m}
  <2>3. \A x : x \in S <=> \E d \in 1..m : conv[d] = x
    OBVIOUS
  <2> HIDE DEF S
  <2>4. Cardinality(S) = m
    BY <2>1, <2>2, <2>3, ImageCardinality
  <2> QED BY <2>4 DEF S, m
<1> QED BY <1>1, <1>8, <1>9 DEF Canonical

(* The inductive invariant: every queue is renamed canonically, also while *)
(* it is being converted anew after a plan was executed.                   *)
Canon == \A s \in Streams : CanonFor(converter[s], relative[s], global[s])

LEMMA CanonInit == Init => Canon
BY EmptySeq DEF Init, Canon, CanonFor, Injective, Renamed, FirstUses

LEMMA CanonNext ==
    ASSUME IInv, Canon, [Next]_vars
    PROVE  Canon'
<1>1. /\ global \in [Streams -> Seq(Op)]
      /\ relative \in [Streams -> Seq(RelOp)]
      /\ converter \in [Streams -> Seq(Tensors)]
  BY DEF IInv, TypeOK
<1>2. CASE UNCHANGED <<global, relative, converter>>
  BY <1>2 DEF Canon
<1>3. ASSUME NEW s \in Streams, NEW op \in Op, Register(s, op)
      PROVE  Canon'
  <2> DEFINE conv == converter[s]
             rel == relative[s]
             glob == global[s]
             longer == Append(glob, op)
             new == ConverterWith(conv, op.tensor)
  <2>1. /\ converter' = [converter EXCEPT ![s] = new]
        /\ relative' = [relative EXCEPT ![s] = Append(rel, ToRelative(new, op))]
        /\ global' = [global EXCEPT ![s] = longer]
    BY <1>3 DEF Register, Convert
  <2>2. /\ Len(rel) = Len(glob) /\ Len(rel) \in Nat
        /\ conv \in Seq(Tensors) /\ rel \in Seq(RelOp) /\ glob \in Seq(Op)
    BY <1>1, <1>3, LenProperties, NoStreamAssumption DEF Register, IInv, Control, Converted
  <2>3. /\ longer[Len(rel) + 1] = op
        /\ \A i \in 1..Len(rel) : longer[i] = glob[i]
    BY <2>2, AppendProperties
  <2> HIDE DEF longer
  <2>4. CanonFor(conv, rel, longer)
    BY <2>2, <2>3, CanonPrefix DEF Canon
  <2>5. CanonFor(new, Append(rel, ToRelative(new, op)), longer)
    BY <2>2, <2>3, <2>4, ConvertCanon
  <2> HIDE DEF new, conv, rel, glob
  <2> QED BY <1>1, <2>1, <2>5 DEF Canon
<1>4. ASSUME NEW s \in Streams, Reconvert(s)
      PROVE  Canon'
  <2> DEFINE conv == converter[s]
             rel == relative[s]
             glob == global[s]
             op == glob[Len(rel) + 1]
             new == ConverterWith(conv, op.tensor)
  <2>1. /\ converter' = [converter EXCEPT ![s] = new]
        /\ relative' = [relative EXCEPT ![s] = Append(rel, ToRelative(new, op))]
        /\ global' = global
        /\ Len(rel) < Len(glob)
    BY <1>4 DEF Reconvert, Convert
  <2>2. conv \in Seq(Tensors) /\ rel \in Seq(RelOp) /\ glob \in Seq(Op)
    BY <1>1
  <2>3. op \in Op
    <3>1. Len(rel) + 1 \in 1..Len(glob)
      BY <2>1, <2>2, LenProperties
    <3> QED BY <2>2, <3>1, ElementOfSeq
  <2>4. CanonFor(new, Append(rel, ToRelative(new, op)), glob)
    BY <2>2, <2>3, ConvertCanon DEF Canon
  <2> HIDE DEF new, op, rel, conv
  <2> QED BY <1>1, <2>1, <2>4 DEF Canon
<1>5. ASSUME NEW s \in Streams, ExecutePlan(s)
      PROVE  Canon'
  <2>1. /\ converter' = [converter EXCEPT ![s] = <<>>]
        /\ relative' = [relative EXCEPT ![s] = <<>>]
        /\ \A u \in Streams : u # s => global'[u] = global[u]
    BY <1>1, <1>5 DEF ExecutePlan, ClearConverter
  <2>2. CanonFor(<<>>, <<>>, global'[s])
    BY EmptySeq DEF CanonFor, Injective, Renamed, FirstUses
  <2> QED BY <1>1, <2>1, <2>2 DEF Canon
<1>6. ASSUME NEW s \in Streams, Drain(s) \/ (Handle(s) /\ ~ExecutePlan(s) /\ ~Reconvert(s))
      PROVE  UNCHANGED <<global, relative, converter>>
  BY <1>6 DEF Drain, Handle, Finish, Defer, ExecuteCached, ExploreContinue, ExploreComplete,
     MustExplore, ResetProcessor, Replay, EndReplay
<1> QED BY <1>2, <1>3, <1>4, <1>5, <1>6 DEF Next, vars

(* The relative form of every queue is the canonical renaming of its global *)
(* form (RelativeOps and OperationConverter::clear): equal queues of any   *)
(* two streams compare equal, and a tensor number never means two tensors, *)
(* also after any number of partial executions.                            *)
THEOREM RelativeAlwaysCanonical == Spec => []RelativeIsCanonical
<1>1. Init => Canon
  BY CanonInit
<1>2. IInv /\ Canon /\ [Next]_vars => Canon'
  BY CanonNext
<1>3. IInv /\ Canon => RelativeIsCanonical
  <2> SUFFICES ASSUME IInv, Canon, NEW s \in Streams
               PROVE  /\ Len(relative[s]) <= Len(global[s])
                      /\ (running = s /\ pc = "convert") \/ Len(relative[s]) = Len(global[s])
                      /\ \A i \in 1..Len(relative[s]) :
                          LET t == global[s][i].tensor
                              before == {j \in 1..i : \A k \in 1..j : global[s][k].tensor # t}
                          IN  relative[s][i] =
                                [kind   |-> global[s][i].kind,
                                 tensor |-> Cardinality({global[s][j].tensor : j \in before})]
    BY DEF RelativeIsCanonical
  <2>1. /\ relative[s] \in Seq(RelOp) /\ converter[s] \in Seq(Tensors)
        /\ CanonFor(converter[s], relative[s], global[s])
    BY DEF IInv, TypeOK, Canon
  <2>2. /\ Len(relative[s]) <= Len(global[s])
        /\ (running = s /\ pc = "convert") \/ Len(relative[s]) = Len(global[s])
    BY DEF IInv, Converted
  <2>3. ASSUME NEW i \in 1..Len(relative[s])
        PROVE  relative[s][i] = Canonical(global[s], i)
    BY <2>1, CanonIsCanonical
  <2> QED BY <2>2, <2>3 DEF Canonical
<1> QED BY <1>1, <1>2, <1>3, Inductive, PTL DEF Spec

-----------------------------------------------------------------------------
(* The completeness of the cache, with one stream.                         *)

(* Nothing but the one stream extends the store. *)
OneStream == \A s, t \in Streams : s = t

(* Of the plans that agree with the operations it has seen, the policy     *)
(* knows all: those matched in full and those that are still longer.       *)
KnowsAllFor(p, queue) ==
    \A i \in 1..Len(plans) :
        /\ Size(i) <= p.num /\ (\A k \in 1..Size(i) : plans[i].operations[k] = queue[k])
                => \E item \in p.availables : item.id = i
        /\ 0 < p.num /\ p.num < Size(i)
                /\ (\A k \in 1..p.num : plans[i].operations[k] = queue[k])
                => i \in p.candidates

(* The inductive invariant: it does so except between the execution of a   *)
(* plan, which may be one that was just stored, and the reset that follows. *)
KnowsAll ==
    \A s \in Streams :
        ~(running = s /\ pc \in {"execute", "convert"}) =>
            KnowsAllFor(policy[s], relative[s])

(* A new policy has everything to look up yet. *)
LEMMA KnowsAllNew ==
    ASSUME plans \in Seq(Plan), PlansNonEmpty, NEW queue
    PROVE  KnowsAllFor(NewPolicy, queue)
<1>1. \A i \in 1..Len(plans) : Size(i) \in Nat /\ Size(i) > 0
  BY PlanType DEF PlansNonEmpty
<1> QED BY <1>1 DEF KnowsAllFor, NewPolicy

(* Only the operations that were seen matter. *)
LEMMA KnowsAllPrefix ==
    ASSUME plans \in Seq(Plan), NEW p \in Policy, NEW queue, NEW longer,
           \A k \in 1..p.num : longer[k] = queue[k], KnowsAllFor(p, queue)
    PROVE  KnowsAllFor(p, longer)
<1>1. p.num \in Nat /\ \A i \in 1..Len(plans) : Size(i) \in Nat
  BY PlanType DEF Policy
<1>2. ASSUME NEW i \in 1..Len(plans), Size(i) <= p.num,
             \A k \in 1..Size(i) : plans[i].operations[k] = longer[k]
      PROVE  \E item \in p.availables : item.id = i
  <2>1. \A k \in 1..Size(i) : k \in 1..p.num
    BY <1>1, <1>2
  <2> QED BY <1>2, <2>1 DEF KnowsAllFor
<1>3. ASSUME NEW i \in 1..Len(plans), 0 < p.num, p.num < Size(i),
             \A k \in 1..p.num : plans[i].operations[k] = longer[k]
      PROVE  i \in p.candidates
  BY <1>3 DEF KnowsAllFor
<1> QED BY <1>2, <1>3 DEF KnowsAllFor

(* The policy keeps knowing all when it is shown the next operation. *)
LEMMA KnowsAllUpdate ==
    ASSUME plans \in Seq(Plan), PlansNonEmpty, NEW p \in Policy, NEW queue,
           KnowsAllFor(p, queue)
    PROVE  KnowsAllFor(UpdatePolicy(p, queue[p.num + 1]), queue)
<1> DEFINE op == queue[p.num + 1]
           q == UpdatePolicy(p, op)
<1>1. /\ p.num \in Nat /\ p.availables \in SUBSET AvailableItem
      /\ \A i \in 1..Len(plans) : Size(i) \in Nat /\ Size(i) > 0
  BY PlanType DEF Policy, PlansNonEmpty
<1>2. /\ q.candidates = StillMatching(p, op) \ Completed(p, op)
      /\ q.num = p.num + 1
      /\ \A item \in p.availables : UpdateItem(item, op) \in q.availables
      /\ \A i \in Completed(p, op) : UpdateItem(NewItem(i), op) \in q.availables
  BY DEF UpdatePolicy, UpdateAvailables
<1>3. ASSUME NEW i \in 1..Len(plans), p.num < Size(i),
             \A k \in 1..(p.num + 1) : plans[i].operations[k] = queue[k]
      PROVE  i \in StillMatching(p, op)
  <2>1. plans[i].operations[p.num + 1] = op
    BY <1>1, <1>3
  <2>2. i \in (IF p.num = 0 THEN 1..Len(plans) ELSE p.candidates)
    <3>1. CASE p.num = 0
      BY <3>1
    <3>2. CASE p.num # 0
      <4>1. 0 < p.num /\ \A k \in 1..p.num : plans[i].operations[k] = queue[k]
        BY <1>1, <1>3, <3>2
      <4>2. i \in p.candidates
        BY <1>3, <4>1 DEF KnowsAllFor
      <4> QED BY <3>2, <4>2
    <3> QED BY <3>1, <3>2
  <2> QED BY <1>3, <2>1, <2>2 DEF StillMatching
<1>4. ASSUME NEW i \in 1..Len(plans), Size(i) <= p.num + 1,
             \A k \in 1..Size(i) : plans[i].operations[k] = queue[k]
      PROVE  \E item \in q.availables : item.id = i
  <2>1. CASE Size(i) <= p.num
    <3>1. PICK item \in p.availables : item.id = i
      BY <1>4, <2>1 DEF KnowsAllFor
    <3>2. item \in AvailableItem
      BY <1>1
    <3>3. UpdateItem(item, op).id = i
      BY <3>1, <3>2, UpdateItemType
    <3> QED BY <1>2, <3>3
  <2>2. CASE Size(i) = p.num + 1
    <3>1. i \in Completed(p, op)
      BY <1>1, <1>3, <1>4, <2>2 DEF Completed
    <3>2. NewItem(i) \in AvailableItem /\ NewItem(i).id = i
      BY NewItemType DEF NewItem
    <3>3. UpdateItem(NewItem(i), op).id = i
      BY <3>2, UpdateItemType
    <3> QED BY <1>2, <3>1, <3>3
  <2> QED BY <1>1, <1>4, <2>1, <2>2
<1>5. ASSUME NEW i \in 1..Len(plans), p.num + 1 < Size(i),
             \A k \in 1..(p.num + 1) : plans[i].operations[k] = queue[k]
      PROVE  i \in q.candidates
  <2>1. p.num < Size(i) /\ Size(i) # p.num + 1
    BY <1>1, <1>5
  <2>2. i \in StillMatching(p, op)
    BY <1>3, <1>5, <2>1
  <2> QED BY <1>2, <2>1, <2>2 DEF Completed
<1> HIDE DEF q
<1>6. KnowsAllFor(q, queue)
  BY <1>2, <1>4, <1>5 DEF KnowsAllFor
<1> QED BY <1>6 DEF q

(* When the exploration stores a new plan no plan had these operations:    *)
(* the policy would have had it among the available ones.                  *)
LEMMA NewPlanIsNew ==
    ASSUME plans \in Seq(Plan), NEW p \in Policy, NEW queue, NEW ops \in Seq(RelOp),
           Len(ops) <= p.num, \A k \in 1..Len(ops) : ops[k] = queue[k],
           PolicySoundFor(p, queue), KnowsAllFor(p, queue),
           PlanToExecute(p, ops, "Sync") = 0,
           NEW i \in 1..Len(plans)
    PROVE  plans[i].operations # ops
<1> SUFFICES ASSUME plans[i].operations = ops PROVE FALSE
  OBVIOUS
<1>1. Size(i) = Len(ops)
  BY DEF Size
<1>2. PICK item \in p.availables : item.id = i
  BY <1>1 DEF KnowsAllFor
<1>3. item.size = Len(ops)
  BY <1>1, <1>2 DEF PolicySoundFor, ItemSound
<1> DEFINE items == {x \in p.availables : x.size = Len(ops)}
<1>4. item \in items /\ items \in SUBSET AvailableItem
  BY <1>3 DEF Policy
<1>5. FirstItem(items) \in items
  BY <1>4, FirstItemIsMember
<1>6. FirstItem(items).id # 0
  BY <1>5, LenProperties DEF PolicySoundFor, ItemSound
<1>7. ExactPlan(p, ops) = FirstItem(items).id
  BY <1>4 DEF ExactPlan
<1> QED BY <1>6, <1>7 DEF PlanToExecute

(* A policy that knows all plans there are does so while there are no more. *)
LEMMA KnowsAllKept ==
    ASSUME plans' = plans, NEW u \in Streams, KnowsAllFor(policy'[u], relative'[u])
    PROVE  KnowsAllFor(policy[u], relative[u])'
BY DEF KnowsAllFor, Size

LEMMA KnowsAllNext ==
    ASSUME OneStream, IInv, KnowsAll, [Next]_vars
    PROVE  KnowsAll'
<1>1. /\ plans \in Seq(Plan) /\ PlansNonEmpty
      /\ policy \in [Streams -> Policy] /\ relative \in [Streams -> Seq(RelOp)]
  BY DEF IInv, TypeOK
<1> SUFFICES ASSUME NEW u \in Streams, ~(running' = u /\ pc' \in {"execute", "convert"})
             PROVE  KnowsAllFor(policy[u], relative[u])'
  BY DEF KnowsAll
<1> DEFINE p == policy[u]
           queue == relative[u]
<1>2. p \in Policy /\ queue \in Seq(RelOp) /\ Len(queue) \in Nat
  BY <1>1, LenProperties
<1>3. CASE /\ UNCHANGED <<plans, policy, relative>>
           /\ ~(running = u /\ pc \in {"execute", "convert"})
  <2>1. KnowsAllFor(policy'[u], relative'[u])
    BY <1>3 DEF KnowsAll
  <2> QED BY <1>3, <2>1, KnowsAllKept
<1>4. ASSUME NEW op \in Op, Register(u, op)
      PROVE  KnowsAllFor(policy[u], relative[u])'
  <2>1. /\ running = NoStream /\ plans' = plans
        /\ policy'[u] = UpdatePolicy(p, relative'[u][Len(relative'[u])])
        /\ TypeOK
    BY <1>1, <1>4 DEF Register, IInv, Control
  <2>2. p.num = Len(queue) /\ KnowsAllFor(p, queue)
    BY <2>1, NoStreamAssumption DEF IInv, AccountsForAll, KnowsAll
  <2>3. PICK rel \in RelOp : relative' = [relative EXCEPT ![u] = Append(queue, rel)]
    BY <1>4, <2>1, ConvertType DEF Register
  <2> DEFINE longer == relative'[u]
  <2>4. /\ Len(longer) = p.num + 1
        /\ \A k \in 1..p.num : longer[k] = queue[k]
    BY <1>1, <1>2, <2>2, <2>3, AppendProperties
  <2> HIDE DEF p, queue, longer
  <2>5. KnowsAllFor(p, longer)
    BY <1>1, <1>2, <2>2, <2>4, KnowsAllPrefix
  <2>6. KnowsAllFor(UpdatePolicy(p, longer[p.num + 1]), longer)
    BY <1>1, <1>2, <2>5, KnowsAllUpdate
  <2>7. KnowsAllFor(policy'[u], relative'[u])
    BY <2>1, <2>4, <2>6 DEF longer
  <2> QED BY <2>1, <2>7, KnowsAllKept
<1>5. CASE ResetProcessor(u)
  <2>1. policy'[u] = NewPolicy /\ plans' = plans
    BY <1>1, <1>5 DEF ResetProcessor, ResetPolicy
  <2>2. KnowsAllFor(policy'[u], relative'[u])
    BY <1>1, <2>1, KnowsAllNew
  <2> QED BY <2>1, <2>2, KnowsAllKept
<1>6. CASE Replay(u)
  <2>1. /\ policy'[u] = UpdatePolicy(p, queue[p.num + 1])
        /\ relative'[u] = queue /\ plans' = plans
        /\ KnowsAllFor(p, queue)
    BY <1>1, <1>6 DEF Replay, KnowsAll
  <2> HIDE DEF p, queue
  <2>2. KnowsAllFor(policy'[u], relative'[u])
    BY <1>1, <1>2, <2>1, KnowsAllUpdate
  <2> QED BY <2>1, <2>2, KnowsAllKept
<1>7. CASE UNCHANGED vars
  BY <1>3, <1>7 DEF vars
<1>8. CASE Drain(u)
  <2>1. running = NoStream
    BY <1>8 DEF Drain, IInv, Control
  <2> QED BY <1>3, <1>8, <2>1, NoStreamAssumption DEF Drain
<1>9. CASE Finish(u) \/ Defer(u) \/ ExploreContinue(u) \/ EndReplay(u)
  BY <1>3, <1>9 DEF Finish, Defer, ExploreContinue, MustExplore, EndReplay
<1>10. CASE ExecuteCached(u) \/ ExecutePlan(u) \/ Reconvert(u)
  BY <1>10 DEF ExecuteCached, ExecutePlan, Reconvert
<1>11. ASSUME NEW r, NEW n, ExploreComplete(u, r, n)
       PROVE  FALSE
  BY <1>11 DEF ExploreComplete, MustExplore
<1>12. \A s \in Streams : s = u
  BY DEF OneStream
<1> HIDE DEF p, queue
<1>13. CASE Next
  <2>1. \/ \E op \in Op : Register(u, op)
        \/ Drain(u)
        \/ Handle(u)
    BY <1>12, <1>13 DEF Next
  <2> QED BY <1>4, <1>5, <1>6, <1>8, <1>9, <1>10, <1>11, <2>1 DEF Handle
<1> QED BY <1>7, <1>13

LEMMA KnowsAllInit ==
    ASSUME Init PROVE KnowsAll
BY EmptySeq DEF Init, KnowsAll, KnowsAllFor

(* With one stream the policy knows, whenever an action is taken, every    *)
(* plan of the store that can still apply (Policy::update, action_lazy and *)
(* action_sync): none is overlooked because it was stored after the policy *)
(* had begun, since the processor resets the policy after each execution.  *)
THEOREM PolicyAlwaysComplete ==
    ASSUME OneStream
    PROVE  Spec => []PolicyComplete
<1>1. Init => KnowsAll
  BY KnowsAllInit
<1>2. IInv /\ KnowsAll /\ [Next]_vars => KnowsAll'
  BY KnowsAllNext
<1>3. IInv /\ KnowsAll => PolicyComplete
  <2> SUFFICES ASSUME IInv, KnowsAll, pc = "action", relative[running] # <<>>,
                      NEW i \in 1..Len(plans)
               PROVE  LET p == policy[running]
                          ops == plans[i].operations
                          queue == relative[running]
                      IN  /\ StandsAt(ops, queue, 0) => \E item \in p.availables : item.id = i
                          /\ Size(i) > Len(queue) /\ StandsAt(queue, ops, 0)
                                  => i \in p.candidates
    BY DEF PolicyComplete
  <2> DEFINE s == running
             p == policy[s]
             ops == plans[i].operations
             queue == relative[s]
  <2>1. s \in Streams /\ p.num = Len(queue) /\ KnowsAllFor(p, queue)
    BY DEF IInv, TypeOK, Control, AccountsForAll, KnowsAll
  <2>2. /\ queue \in Seq(RelOp) /\ Len(queue) \in Nat /\ Len(queue) > 0
        /\ Size(i) \in Nat /\ Size(i) = Len(ops)
    <3>1. plans \in Seq(Plan) /\ queue \in Seq(RelOp)
      BY <2>1 DEF IInv, TypeOK
    <3> QED BY <3>1, PlanType, EmptySeq, LenProperties DEF Size
  <2> HIDE DEF s, p, ops, queue
  <2>3. ASSUME StandsAt(ops, queue, 0)
        PROVE  \E item \in p.availables : item.id = i
    <3>1. Size(i) <= p.num /\ \A k \in 1..Size(i) : ops[k] = queue[k]
      BY <2>1, <2>2, <2>3 DEF StandsAt
    <3> QED BY <2>1, <3>1 DEF KnowsAllFor, ops
  <2>4. ASSUME Size(i) > Len(queue), StandsAt(queue, ops, 0)
        PROVE  i \in p.candidates
    <3>1. 0 < p.num /\ p.num < Size(i) /\ \A k \in 1..p.num : ops[k] = queue[k]
      BY <2>1, <2>2, <2>4 DEF StandsAt
    <3> QED BY <2>1, <3>1 DEF KnowsAllFor, ops
  <2> QED BY <2>3, <2>4 DEF s, p, ops, queue
<1> QED BY <1>1, <1>2, <1>3, Inductive, PTL DEF Spec

(* Triggers are added to plans without touching their operations. *)
LEMMA AddTriggerDistinct ==
    ASSUME plans \in Seq(Plan), PlansDistinct, NEW id, NEW t,
           plans' = AddTrigger(id, t)
    PROVE  PlansDistinct'
<1>1. /\ Len(plans') = Len(plans)
      /\ \A i \in 1..Len(plans) : plans'[i].operations = plans[i].operations
  <2>1. CASE \E j \in 1..Len(plans[id].triggers) : plans[id].triggers[j] = t
    BY <2>1 DEF AddTrigger
  <2>2. CASE ~\E j \in 1..Len(plans[id].triggers) : plans[id].triggers[j] = t
    <3> DEFINE new == [plans[id] EXCEPT !.triggers = Append(@, t)]
    <3>1. plans' = [plans EXCEPT ![id] = new]
      BY <2>2 DEF AddTrigger
    <3>2. \A i \in 1..Len(plans) : plans[i] \in Plan
      BY ElementOfSeq
    <3>3. id \in 1..Len(plans) => new.operations = plans[id].operations
      BY <3>2 DEF Plan
    <3> HIDE DEF new
    <3>4. plans \in [1..Len(plans) -> Plan] /\ DOMAIN plans' = 1..Len(plans)
          /\ Len(plans) \in Nat
      BY <3>1, LenProperties
    <3>5. Len(plans') = Len(plans)
      BY <3>1
    <3> QED BY <3>1, <3>3, <3>4, <3>5
  <2> QED BY <2>1, <2>2
<1> QED BY <1>1 DEF PlansDistinct

LEMMA PlansDistinctNext ==
    ASSUME OneStream, IInv, KnowsAll, PlansDistinct, [Next]_vars
    PROVE  PlansDistinct'
<1>1. plans \in Seq(Plan) /\ Len(plans) \in Nat
  BY LenProperties DEF IInv, TypeOK
<1>2. CASE plans' = plans
  BY <1>2 DEF PlansDistinct
<1>3. ASSUME NEW s \in Streams, ExecuteCached(s)
      PROVE  PlansDistinct'
  BY <1>1, <1>2, <1>3, AddTriggerDistinct DEF ExecuteCached
<1>4. ASSUME NEW s \in Streams, NEW r, NEW n, ExploreComplete(s, r, n)
      PROVE  PlansDistinct'
  <2> DEFINE p == policy[s]
             queue == relative[s]
             ops == SubSeq(queue, 1, n)
             known == PlanToExecute(p, ops, "Sync")
  <2>1. /\ running = s /\ pc = "action"
        /\ r \in explorer[s].explored..(explorer[s].explored + explorer[s].deferred)
        /\ n \in 1..r
        /\ \E t : plans' = IF known # 0 THEN AddTrigger(known, t) ELSE AddPlan(ops, t)
    BY <1>4 DEF ExploreComplete, MustExplore
  <2>2. PICK t : plans' = IF known # 0 THEN AddTrigger(known, t) ELSE AddPlan(ops, t)
    BY <2>1
  <2>3. CASE known # 0
    BY <1>1, <2>2, <2>3, AddTriggerDistinct
  <2>4. CASE known = 0
    <3>1. /\ queue \in Seq(RelOp) /\ Len(queue) \in Nat /\ p \in Policy
          /\ p.num = Len(queue) /\ PolicySoundFor(p, queue) /\ KnowsAllFor(p, queue)
          /\ explorer[s] \in Explorer
          /\ explorer[s].explored + explorer[s].deferred = Len(queue)
      BY <2>1, LenProperties DEF IInv, TypeOK, AccountsForAll, PolicySound, KnowsAll
    <3>2. n \in 1..Len(queue) /\ n \in Nat
      BY <2>1, <3>1 DEF Explorer
    <3>3. /\ ops \in Seq(RelOp) /\ Len(ops) = n
          /\ \A k \in 1..Len(ops) : ops[k] = queue[k]
      <4>1. \A k \in 1..n : queue[k] \in RelOp
        BY <3>1, <3>2, ElementOfSeq
      <4> QED BY <3>1, <3>2, <4>1, SubSeqProperties
    <3>4. Len(ops) <= p.num
      BY <3>1, <3>2, <3>3
    <3>5. plans' = Append(plans, [operations |-> ops, triggers |-> <<t>>])
      BY <2>2, <2>4 DEF AddPlan
    <3> HIDE DEF ops, p, queue, known
    <3>6. PlanToExecute(p, ops, "Sync") = 0
      BY <2>4 DEF known
    <3>7. \A i \in 1..Len(plans) : plans[i].operations # ops
      BY <1>1, <3>1, <3>3, <3>4, <3>6, NewPlanIsNew
    <3>8. /\ Len(plans') = Len(plans) + 1
          /\ \A i \in 1..Len(plans) : plans'[i] = plans[i]
          /\ plans'[Len(plans) + 1].operations = ops
      BY <1>1, <3>5
    <3>9. \A i \in 1..Len(plans') : i \in 1..Len(plans) \/ i = Len(plans) + 1
      BY <1>1, <3>8
    <3> QED BY <3>7, <3>8, <3>9 DEF PlansDistinct
  <2> QED BY <2>3, <2>4
<1>5. ASSUME NEW s \in Streams, NEW op \in Op, Register(s, op) \/ Drain(s)
      PROVE  plans' = plans
  BY <1>5 DEF Register, Drain
<1>6. ASSUME NEW s \in Streams, Handle(s), ~ExecuteCached(s),
             ~\E r \in 0..Len(relative[s]) : \E n \in 1..r : ExploreComplete(s, r, n)
      PROVE  plans' = plans
  BY <1>6 DEF Handle, Finish, Defer, ExploreContinue, ExecutePlan, Reconvert,
     ResetProcessor, Replay, EndReplay
<1>7. ASSUME NEW s \in Streams, Drain(s)
      PROVE  plans' = plans
  BY <1>7 DEF Drain
<1> QED BY <1>2, <1>3, <1>4, <1>5, <1>6, <1>7 DEF Next, vars

(* With one stream an exploration never stores a second plan for operations *)
(* that have one (ExecutionPlanStore::add): the exact plan would have been *)
(* available to action_sync, and gets a further trigger instead.           *)
THEOREM PlansAlwaysDistinct ==
    ASSUME OneStream
    PROVE  Spec => []PlansDistinct
<1>1. Init => KnowsAll /\ PlansDistinct
  BY KnowsAllInit DEF Init, PlansDistinct
<1>2. IInv /\ KnowsAll /\ PlansDistinct /\ [Next]_vars => KnowsAll' /\ PlansDistinct'
  BY KnowsAllNext, PlansDistinctNext
<1> QED BY <1>1, <1>2, Inductive, PTL DEF Spec
=============================================================================
