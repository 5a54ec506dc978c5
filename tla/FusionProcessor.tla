--------------------------- MODULE FusionProcessor ---------------------------
(***************************************************************************)
(* The execution of fusion streams in burn-fusion                          *)
(* (crates/burn-fusion/src/stream): operation queues, the policy that      *)
(* recognises cached execution plans, the explorer that searches new ones, *)
(* the plan store all streams of a device share, and the processor that    *)
(* drives them.                                                            *)
(*                                                                         *)
(* The server handles one call at a time, either the registration of an    *)
(* operation (Lazy) or the drain of a stream (Sync), so `running' is at    *)
(* most one stream.  What interleaves is the state of different streams:   *)
(* a policy keeps, between two calls, references into a plan store that    *)
(* the calls of other streams extend.                                      *)
(*                                                                         *)
(* One call is a loop; each action below is one arm of it, up to the next  *)
(* iteration.  The replay of the remaining operations into a fresh policy  *)
(* (processor.rs, reset) is one step per operation.                        *)
(*                                                                         *)
(* Abstracted: an operation is a kind applied to one tensor; the fusion    *)
(* search is a nondeterministic choice of how many operations the found    *)
(* optimization covers and of how long the optimizers stay open.           *)
(***************************************************************************)
EXTENDS Integers, Sequences, FiniteSets

CONSTANTS
    Streams,        \* client threads
    Kinds,          \* kinds of operations
    Tensors,        \* global tensor ids
    NoStream,       \* no call is being handled
    MaxOps          \* bound: operations a stream registers in its life

ASSUME NoStreamAssumption == NoStream \notin Streams
ASSUME MaxOpsAssumption == MaxOps \in Nat

VARIABLES
    global,         \* per stream: OperationQueue.global, operations as registered
    relative,       \* per stream: OperationQueue.relative, the same, renamed
    converter,      \* per stream: OperationConverter, tensors in order of first use
    plans,          \* ExecutionPlanStore.plans; a plan id is a position
    policy,         \* per stream: Policy
    explorer,       \* per stream: Explorer
    running,        \* the stream whose call is being handled, or NoStream
    mode,           \* ExecutionMode of that call
    pc,             \* where the call is in the loop of Processor::process
    chosen,         \* the plan about to be executed, or 0
    submitted       \* per stream: operations registered so far (for the bound)

vars == <<global, relative, converter, plans, policy, explorer,
          running, mode, pc, chosen, submitted>>

-----------------------------------------------------------------------------
(* Data.                                                                   *)

Op == [kind : Kinds, tensor : Tensors]

(* A relative operation names a tensor by its rank of first use. *)
RelOp == [kind : Kinds, tensor : Nat]

Trigger == [kind : {"OnOperations", "OnSync", "Always"}, ops : Seq(RelOp)]
OnSync == [kind |-> "OnSync", ops |-> <<>>]
Always == [kind |-> "Always", ops |-> <<>>]
OnOperations(ops) == [kind |-> "OnOperations", ops |-> ops]

Plan == [operations : Seq(RelOp), triggers : Seq(Trigger)]

(* The validation of one trigger of an available plan.  Progress NotInit   *)
(* means that the trigger is compared from the next operation on.          *)
NotInit == -1
Validator == [kind : {"OnOperations", "OnSync", "Always"},
              matching : {"Validating", "Found", "Invalidated"},
              progress : Nat \cup {NotInit}]

(* A plan whose operations were all seen. *)
AvailableItem == [id : Nat, size : Nat, triggers : Seq(Validator)]

(* `candidates' are the plans being matched, a vector in increasing order  *)
(* of id in the code; `availables' is a vector in order of (size, id).     *)
Policy == [candidates : SUBSET Nat, availables : SUBSET AvailableItem,
           found : Nat, num : Nat]

NewPolicy == [candidates |-> {}, availables |-> {}, found |-> 0, num |-> 0]

Explorer == [deferred : Nat, explored : Nat]

Size(id) == Len(plans[id].operations)

(* The sequence ops stands in the sequence queue just behind position n. *)
StandsAt(ops, queue, n) ==
    /\ n + Len(ops) <= Len(queue)
    /\ \A k \in 1..Len(ops) : ops[k] = queue[n + k]

-----------------------------------------------------------------------------
(* The converter: a tensor seen before keeps its number, a new one gets the *)
(* number of tensors seen so far.                                          *)

Known(conv, t) == \E i \in 1..Len(conv) : conv[i] = t

ConverterWith(conv, t) == IF Known(conv, t) THEN conv ELSE Append(conv, t)

ToRelative(conv, op) ==
    [kind   |-> op.kind,
     tensor |-> (CHOOSE i \in 1..Len(conv) : conv[i] = op.tensor) - 1]

(* Mutant: the converter survives a partial execution. *)
ClearConverter_Kept(conv) == conv

ClearConverter(conv) == <<>>

(* The operation is converted to the end of the relative queue. *)
Convert(s, op) ==
    /\ converter' = [converter EXCEPT ![s] = ConverterWith(@, op.tensor)]
    /\ relative' = [relative EXCEPT ![s] =
            Append(@, ToRelative(ConverterWith(converter[s], op.tensor), op))]

-----------------------------------------------------------------------------
(* The policy.                                                             *)

NewValidators(id) ==
    [j \in 1..Len(plans[id].triggers) |->
        [kind     |-> plans[id].triggers[j].kind,
         matching |-> "Validating",
         progress |-> NotInit]]

(* What a trigger that matched `progress' operations says of one more. *)
UpdateMatching(v, ops, op) ==
    IF v.matching # "Validating" THEN v.matching
    ELSE IF v.progress + 1 > Len(ops) \/ ops[v.progress + 1] # op THEN "Invalidated"
    ELSE IF v.progress + 1 = Len(ops) THEN "Found"
    ELSE "Validating"

(* Mutant: a trigger is compared from the last operation of its plan on. *)
UpdateValidator_AtOnce(v, ops, op) ==
    LET progress == IF v.progress = NotInit THEN 0 ELSE v.progress
    IN  IF v.kind # "OnOperations" THEN v
        ELSE [v EXCEPT
                !.matching = UpdateMatching([v EXCEPT !.progress = progress], ops, op),
                !.progress = progress + 1]

UpdateValidator(v, ops, op) ==
    IF v.kind # "OnOperations" THEN v
    ELSE IF v.progress = NotInit THEN [v EXCEPT !.progress = 0]
    ELSE [v EXCEPT !.matching = UpdateMatching(v, ops, op),
                   !.progress = v.progress + 1]

(* Mutant: the last operation of a plan is taken to be out of range. *)
StillMatching_OffByOne(p, op) ==
    LET starters == IF p.num = 0 THEN 1..Len(plans) ELSE p.candidates
    IN  {i \in starters : Size(i) > p.num + 1 /\ plans[i].operations[p.num + 1] = op}

(* Candidates whose next operation is op.  The store is searched for plans *)
(* that start with it at the first operation only.                         *)
StillMatching(p, op) ==
    LET starters == IF p.num = 0 THEN 1..Len(plans) ELSE p.candidates
    IN  {i \in starters : Size(i) > p.num /\ plans[i].operations[p.num + 1] = op}

Completed(p, op) == {i \in StillMatching(p, op) : Size(i) = p.num + 1}

NewItem(id) == [id |-> id, size |-> Size(id), triggers |-> NewValidators(id)]

UpdateItem(item, op) ==
    [item EXCEPT !.triggers =
        [j \in 1..Len(item.triggers) |->
            UpdateValidator(item.triggers[j],
                            plans[item.id].triggers[j].ops, op)]]

UpdateAvailables(p, op) ==
    {UpdateItem(item, op) :
        item \in p.availables \cup {NewItem(id) : id \in Completed(p, op)}}

(* Mutant: a trigger fires before it was matched in full. *)
Fires_WhileValidating(item) ==
    \E j \in 1..Len(item.triggers) :
        LET v == item.triggers[j]
        IN  v.kind = "Always"
            \/ (v.kind = "OnOperations" /\ v.matching # "Invalidated")

(* Some trigger of the item asks for its execution during an update. *)
Fires(item) ==
    \E j \in 1..Len(item.triggers) :
        LET v == item.triggers[j]
        IN  v.kind = "Always" \/ (v.kind = "OnOperations" /\ v.matching = "Found")

(* The first of a set of items in the order of the vector. *)
FirstItem(items) ==
    CHOOSE i \in items : \A j \in items :
        i.size < j.size \/ (i.size = j.size /\ i.id <= j.id)

FoundAmong(items, before) ==
    LET firing == {i \in items : Fires(i)}
    IN  IF firing = {} THEN before ELSE FirstItem(firing).id

UpdatePolicy(p, op) ==
    [candidates |-> StillMatching(p, op) \ Completed(p, op),
     availables |-> UpdateAvailables(p, op),
     found      |-> FoundAmong(UpdateAvailables(p, op), p.found),
     num        |-> p.num + 1]

(* Mutant: the plan found for the executed operations is remembered. *)
ResetPolicy_KeepsFound(p) ==
    [p EXCEPT !.candidates = {}, !.availables = {}, !.num = 0]

ResetPolicy(p) == NewPolicy

(* action_lazy: wait while a plan may still match, has just matched, or has *)
(* a trigger that may still fire; otherwise explore.                       *)
DefersLazily(p, ops) ==
    \/ p.candidates # {}
    \/ \E i \in p.availables :
        \/ i.size = Len(ops)
        \/ \E j \in 1..Len(i.triggers) :
            /\ i.triggers[j].kind = "OnOperations"
            /\ i.triggers[j].matching = "Validating"

(* Mutant: action_sync overlooks the plans matched in full. *)
ExactPlan_CandidatesOnly(p, ops) ==
    LET cands == {i \in p.candidates : Size(i) = Len(ops)}
    IN  IF cands # {} THEN CHOOSE i \in cands : \A j \in cands : i <= j ELSE 0

(* action_sync: a plan for exactly these operations, or 0 to explore. *)
ExactPlan(p, ops) ==
    LET items == {i \in p.availables : i.size = Len(ops)}
        cands == {i \in p.candidates : Size(i) = Len(ops)}
    IN  IF items # {} THEN FirstItem(items).id
        ELSE IF cands # {} THEN CHOOSE i \in cands : \A j \in cands : i <= j
        ELSE 0

(* action: the plan to execute, or 0 to explore or defer. *)
PlanToExecute(p, ops, m) ==
    IF p.found # 0 THEN p.found
    ELSE IF m = "Sync" THEN ExactPlan(p, ops) ELSE 0

-----------------------------------------------------------------------------
(* The plan store.                                                         *)

(* Mutant: the new trigger replaces those of the plan. *)
AddTrigger_Replaces(id, t) == [plans EXCEPT ![id].triggers = <<t>>]

(* add_trigger leaves alone a trigger the plan has already. *)
AddTrigger(id, t) ==
    IF \E j \in 1..Len(plans[id].triggers) : plans[id].triggers[j] = t THEN plans
    ELSE [plans EXCEPT ![id].triggers = Append(@, t)]

(* Mutant: the plan is executed but not stored. *)
AddPlan_NotStored(ops, t) == plans

AddPlan(ops, t) == Append(plans, [operations |-> ops, triggers |-> <<t>>])

(* Mutant: the operations explored before are still counted. *)
ResetExplorer_KeepsExplored(e, n) == [e EXCEPT !.deferred = n]

(* The explorer starts over with n operations to explore. *)
ResetExplorer(e, n) == [deferred |-> n, explored |-> 0]

-----------------------------------------------------------------------------
Init ==
    /\ global = [s \in Streams |-> <<>>]
    /\ relative = [s \in Streams |-> <<>>]
    /\ converter = [s \in Streams |-> <<>>]
    /\ plans = <<>>
    /\ policy = [s \in Streams |-> NewPolicy]
    /\ explorer = [s \in Streams |-> [deferred |-> 0, explored |-> 0]]
    /\ running = NoStream
    /\ mode = "Lazy"
    /\ pc = "idle"
    /\ chosen = 0
    /\ submitted = [s \in Streams |-> 0]

(* A client registers an operation: it is queued and converted, and the    *)
(* policy and the explorer are told, before the loop starts.               *)
Register(s, op) ==
    /\ pc = "idle"
    /\ submitted[s] < MaxOps
    /\ submitted' = [submitted EXCEPT ![s] = @ + 1]
    /\ global' = [global EXCEPT ![s] = Append(@, op)]
    /\ Convert(s, op)
    /\ policy' = [policy EXCEPT ![s] =
            UpdatePolicy(@, relative'[s][Len(relative'[s])])]
    /\ explorer' = [explorer EXCEPT ![s].deferred = @ + 1]
    /\ running' = s
    /\ mode' = "Lazy"
    /\ pc' = "action"
    /\ UNCHANGED <<plans, chosen>>

(* A client drains its stream. *)
Drain(s) ==
    /\ pc = "idle"
    /\ running' = s
    /\ mode' = "Sync"
    /\ pc' = "action"
    /\ UNCHANGED <<global, relative, converter, plans, policy, explorer,
                   chosen, submitted>>

Return ==
    /\ running' = NoStream
    /\ pc' = "idle"

(* The segment is empty. *)
Finish(s) ==
    /\ pc = "action" /\ running = s
    /\ relative[s] = <<>>
    /\ Return
    /\ UNCHANGED <<global, relative, converter, plans, policy, explorer,
                   mode, chosen, submitted>>

(* Mutant: a drain may wait for more operations too. *)
Defer_WhileSync(s) ==
    /\ pc = "action" /\ running = s
    /\ relative[s] # <<>>
    /\ PlanToExecute(policy[s], relative[s], mode) = 0
    /\ DefersLazily(policy[s], relative[s])
    /\ Return
    /\ UNCHANGED <<global, relative, converter, plans, policy, explorer,
                   mode, chosen, submitted>>

(* Mutant: the loop goes round instead of ending. *)
Defer_GoesRound(s) ==
    /\ pc = "action" /\ running = s
    /\ relative[s] # <<>>
    /\ PlanToExecute(policy[s], relative[s], mode) = 0
    /\ DefersLazily(policy[s], relative[s])
    /\ UNCHANGED vars

(* The policy asks to wait. *)
Defer(s) ==
    /\ pc = "action" /\ running = s
    /\ relative[s] # <<>>
    /\ PlanToExecute(policy[s], relative[s], mode) = 0
    /\ mode = "Lazy"
    /\ DefersLazily(policy[s], relative[s])
    /\ Return
    /\ UNCHANGED <<global, relative, converter, plans, policy, explorer,
                   mode, chosen, submitted>>

(* The policy knows a plan to execute. *)
ExecuteCached(s) ==
    LET id == PlanToExecute(policy[s], relative[s], mode)
    IN  /\ pc = "action" /\ running = s
        /\ relative[s] # <<>>
        /\ id # 0
        /\ plans' = IF mode = "Sync" THEN AddTrigger(id, OnSync) ELSE plans
        /\ chosen' = id
        /\ pc' = "execute"
        /\ UNCHANGED <<global, relative, converter, policy, explorer,
                       running, mode, submitted>>

MustExplore(s) ==
    /\ pc = "action" /\ running = s
    /\ relative[s] # <<>>
    /\ PlanToExecute(policy[s], relative[s], mode) = 0
    /\ mode = "Lazy" => ~DefersLazily(policy[s], relative[s])

(* The optimizers take all deferred operations and are still open. *)
ExploreContinue(s) ==
    /\ MustExplore(s)
    /\ mode = "Lazy"
    /\ explorer' = [explorer EXCEPT ![s] =
            [deferred |-> 0, explored |-> @.explored + @.deferred]]
    /\ Return
    /\ UNCHANGED <<global, relative, converter, plans, policy,
                   mode, chosen, submitted>>

(* The optimizers close after r operations, or the mode is Sync; the best  *)
(* optimization covers the n oldest.  It becomes a plan of the store, or a *)
(* further trigger of the plan that covers the same operations already.    *)
ExploreComplete(s, r, n) ==
    LET ops     == SubSeq(relative[s], 1, n)
        next    == SubSeq(relative[s], n + 1, Len(relative[s]))
        trigger == IF mode = "Sync" THEN OnSync
                   ELSE IF next = <<>> THEN Always
                   ELSE OnOperations(next)
        known   == PlanToExecute(policy[s], ops, "Sync")
        e       == explorer[s]
    IN  /\ MustExplore(s)
        /\ r \in e.explored..(e.explored + e.deferred)
        /\ e.deferred > 0 => r > e.explored
        /\ n \in 1..r
        /\ explorer' = [explorer EXCEPT ![s] = [deferred |-> 0, explored |-> r]]
        /\ IF known # 0
           THEN /\ plans' = AddTrigger(known, trigger)
                /\ chosen' = known
           ELSE /\ plans' = AddPlan(ops, trigger)
                /\ chosen' = Len(plans) + 1
        /\ pc' = "execute"
        /\ UNCHANGED <<global, relative, converter, policy, running, mode,
                       submitted>>

(* The chosen plan runs on the oldest operations, which leave the queue;   *)
(* the relative queue and the converter are cleared.                       *)
ExecutePlan(s) ==
    /\ pc = "execute" /\ running = s
    /\ global' = [global EXCEPT ![s] = SubSeq(@, Size(chosen) + 1, Len(@))]
    /\ relative' = [relative EXCEPT ![s] = <<>>]
    /\ converter' = [converter EXCEPT ![s] = ClearConverter(@)]
    /\ chosen' = 0
    /\ pc' = "convert"
    /\ UNCHANGED <<plans, policy, explorer, running, mode, submitted>>

(* One remaining operation is converted anew. *)
Reconvert(s) ==
    /\ pc = "convert" /\ running = s
    /\ Len(relative[s]) < Len(global[s])
    /\ Convert(s, global[s][Len(relative[s]) + 1])
    /\ UNCHANGED <<global, plans, policy, explorer, running, mode, pc, chosen,
                   submitted>>

(* All of them were: the explorer and the policy start over. *)
ResetProcessor(s) ==
    /\ pc = "convert" /\ running = s
    /\ Len(relative[s]) = Len(global[s])
    /\ explorer' = [explorer EXCEPT ![s] = ResetExplorer(@, Len(relative[s]))]
    /\ policy' = [policy EXCEPT ![s] = ResetPolicy(@)]
    /\ pc' = "replay"
    /\ UNCHANGED <<global, relative, converter, plans, running, mode, chosen,
                   submitted>>

(* One remaining operation is shown to the new policy. *)
Replay(s) ==
    /\ pc = "replay" /\ running = s
    /\ policy[s].num < Len(relative[s])
    /\ policy' = [policy EXCEPT ![s] =
            UpdatePolicy(@, relative[s][@.num + 1])]
    /\ UNCHANGED <<global, relative, converter, plans, explorer,
                   running, mode, pc, chosen, submitted>>

(* All of them were: the loop goes round. *)
EndReplay(s) ==
    /\ pc = "replay" /\ running = s
    /\ policy[s].num = Len(relative[s])
    /\ pc' = "action"
    /\ UNCHANGED <<global, relative, converter, plans, policy, explorer,
                   running, mode, chosen, submitted>>

(* What the server does once a call has started. *)
Handle(s) ==
    \/ Finish(s)
    \/ Defer(s)
    \/ ExecuteCached(s)
    \/ ExploreContinue(s)
    \/ \E r \in 0..Len(relative[s]) : \E n \in 1..r : ExploreComplete(s, r, n)
    \/ ExecutePlan(s)
    \/ Reconvert(s)
    \/ ResetProcessor(s)
    \/ Replay(s)
    \/ EndReplay(s)

Next ==
    \E s \in Streams :
        \/ \E op \in Op : Register(s, op)
        \/ Drain(s)
        \/ Handle(s)

Spec == Init /\ [][Next]_vars

(* The server thread runs a call it has received to its end. *)
FairSpec == Spec /\ \A s \in Streams : WF_vars(Handle(s))

-----------------------------------------------------------------------------
TypeOK ==
    /\ global \in [Streams -> Seq(Op)]
    /\ relative \in [Streams -> Seq(RelOp)]
    /\ converter \in [Streams -> Seq(Tensors)]
    /\ plans \in Seq(Plan)
    /\ policy \in [Streams -> Policy]
    /\ explorer \in [Streams -> Explorer]
    /\ running \in Streams \cup {NoStream}
    /\ mode \in {"Lazy", "Sync"}
    /\ pc \in {"idle", "action", "execute", "convert", "replay"}
    /\ chosen \in 0..Len(plans)
    /\ submitted \in [Streams -> 0..MaxOps]

(* Executing a plan is right only if the operations it was compiled for    *)
(* are the oldest operations of the queue: whatever the cache, the policy  *)
(* and the other streams did since, the plan about to run matches them one *)
(* by one (and so is never longer than the queue, which would panic).      *)
ChosenPlanFits ==
    pc = "execute" =>
        /\ chosen # 0
        /\ Size(chosen) > 0
        /\ StandsAt(plans[chosen].operations, relative[running], 0)

(* A plan runs for one of the reasons recorded with it: in Sync mode it has *)
(* the OnSync trigger; in Lazy mode it may always run, or the operations    *)
(* queued behind it begin with those that once closed the exploration.     *)
ExecutionIsTriggered ==
    pc = "execute" =>
        \E j \in 1..Len(plans[chosen].triggers) :
            LET t == plans[chosen].triggers[j]
            IN  \/ t.kind = "OnSync" /\ mode = "Sync"
                \/ t.kind = "Always"
                \/ /\ t.kind = "OnOperations"
                   /\ StandsAt(t.ops, relative[running], Size(chosen))

(* The relative form of a queue is the canonical renaming of its global     *)
(* form: same kinds, and each tensor numbered by how many other tensors the *)
(* queue used before it, also after any number of partial executions.      *)
RelativeIsCanonical ==
    \A s \in Streams :
        /\ Len(relative[s]) <= Len(global[s])
        /\ (running = s /\ pc = "convert") \/ Len(relative[s]) = Len(global[s])
        /\ \A i \in 1..Len(relative[s]) :
            LET t == global[s][i].tensor
                before == {j \in 1..i : \A k \in 1..j : global[s][k].tensor # t}
            IN  relative[s][i] =
                  [kind   |-> global[s][i].kind,
                   tensor |-> Cardinality({global[s][j].tensor : j \in before})]

(* The explorer and the policy account for every queued operation.  The    *)
(* explorer finds deferred operations by their distance to the end of the  *)
(* queue, so a miscount would make it register the wrong ones; the policy  *)
(* panics when it is asked for an action having seen fewer than the queue. *)
AccountsForAll ==
    \A s \in Streams :
        ~(running = s /\ pc \in {"execute", "convert"}) =>
            /\ explorer[s].explored + explorer[s].deferred = Len(relative[s])
            /\ policy[s].num <= Len(relative[s])
            /\ ~(running = s /\ pc = "replay") => policy[s].num = Len(relative[s])

(* A candidate is longer than what the policy has seen and begins with it. *)
CandidateSound(i, num, queue) ==
    /\ i \in 1..Len(plans)
    /\ Size(i) > num
    /\ \A k \in 1..num : plans[i].operations[k] = queue[k]

(* A validator says of its trigger what comparing the trigger with the     *)
(* operations seen behind the plan says.                                   *)
ValidatorSound(v, t, size, num, queue) ==
    /\ v.kind = t.kind
    /\ v.kind = "OnOperations" =>
        LET agree(n) == \A k \in 1..n : t.ops[k] = queue[size + k]
        IN  /\ v.progress = num - size
            /\ v.matching = "Found" => Len(t.ops) <= num - size /\ agree(Len(t.ops))
            /\ v.matching = "Validating" => num - size < Len(t.ops) /\ agree(num - size)

(* An available plan is a prefix of what the policy has seen. *)
ItemSound(item, num, queue) ==
    /\ item.id \in 1..Len(plans)
    /\ item.size = Size(item.id)
    /\ item.size <= num
    /\ \A k \in 1..item.size : plans[item.id].operations[k] = queue[k]
    /\ Len(item.triggers) <= Len(plans[item.id].triggers)
    /\ \A j \in 1..Len(item.triggers) :
            ValidatorSound(item.triggers[j], plans[item.id].triggers[j],
                           item.size, num, queue)

FoundSound(p) ==
    p.found # 0 => \E item \in p.availables : item.id = p.found /\ Fires(item)

PolicySoundFor(p, queue) ==
    /\ \A i \in p.candidates : CandidateSound(i, p.num, queue)
    /\ \A item \in p.availables : ItemSound(item, p.num, queue)
    /\ FoundSound(p)

(* A policy never lists a plan that the operations it has seen rule out,   *)
(* and judges triggers as a comparison from scratch would, although other  *)
(* streams extend the store while it is matching.                          *)
PolicySound ==
    \A s \in Streams :
        ~(running = s /\ pc = "convert") => PolicySoundFor(policy[s], relative[s])

(* A step never removes or changes a plan or a trigger, it appends. *)
StoreGrows ==
    /\ Len(plans) <= Len(plans')
    /\ \A i \in 1..Len(plans) :
        /\ plans'[i].operations = plans[i].operations
        /\ StandsAt(plans[i].triggers, plans'[i].triggers, 0)

(* Plan ids and trigger positions a policy keeps between two calls remain   *)
(* valid, whatever plans and triggers the other streams add meanwhile.     *)
StoreOnlyGrows == [][StoreGrows]_vars

(* With one stream the cache is complete: an exploration never stores a    *)
(* second plan for operations that have one.  (With several streams it may: *)
(* a policy looks up its candidates at the first operation only.)          *)
PlansDistinct ==
    \A i, j \in 1..Len(plans) :
        plans[i].operations = plans[j].operations => i = j

(* With one stream, when an action is taken the policy knows every plan of *)
(* the store that can still apply: those the queue begins with, and those  *)
(* that begin with the queue.                                              *)
PolicyComplete ==
    pc = "action" /\ relative[running] # <<>> =>
        \A i \in 1..Len(plans) :
            LET p == policy[running]
                ops == plans[i].operations
                queue == relative[running]
            IN  /\ StandsAt(ops, queue, 0) => \E item \in p.availables : item.id = i
                /\ Size(i) > Len(queue) /\ StandsAt(queue, ops, 0)
                        => i \in p.candidates

(* Every call returns: neither the loop nor the replay runs for ever. *)
CallsReturn == \A s \in Streams : running = s ~> running = NoStream

(* The queues as their clients see them. *)
Stream == INSTANCE FusionStream WITH
            Ops <- Op, queue <- global, serving <- running

(* The processor implements FusionStream: each step appends one operation, *)
(* executes a non-empty prefix of one queue or leaves all queues alone, and *)
(* a drain returns only with an empty queue.                               *)
ImplementsStream == Stream!Spec
=============================================================================
