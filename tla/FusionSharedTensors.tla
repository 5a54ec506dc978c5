------------------------- MODULE FusionSharedTensors -------------------------
(***************************************************************************)
(* Tensors shared between the streams of burn-fusion: the reference count  *)
(* of a FusionTensor, the server that keeps one lazy queue of operations   *)
(* per client thread (MultiStream), the bookkeeping of the tensors that    *)
(* several streams use (SharedTensors) and the handles of the data         *)
(* (HandleContainer).                                                      *)
(*                                                                         *)
(* A thread is the stream of its own id.  The server handles one call at a *)
(* time, under the lock of the device, so a call is one action: an         *)
(* operator that maps the server's state to its state after the call.  The *)
(* calls recurse (a drained stream drops tensors, which registers          *)
(* operations, which drains the stream), hence the RECURSIVE operators.    *)
(*                                                                         *)
(* What interleaves is what the threads do between the calls.  The count   *)
(* of references is an atomic that no lock protects: `into_ir' and `drop'  *)
(* decide with it whether an operation consumes its input, before the      *)
(* operation is registered.  Another thread may act between the two, as    *)
(* long as no more than Overlap tensors have been made.                    *)
(*                                                                         *)
(* Abstracted: an operation has its inputs and one output; which prefix of *)
(* the queue a lazy call executes is free (FusionProcessor models the      *)
(* choice), up to Lazy, and each call executes fused or one by one.        *)
(***************************************************************************)
EXTENDS Integers, Sequences, FiniteSets, SequencesExt, FiniteSetsExt

CONSTANTS
    Threads,        \* client threads, and their streams
    NoThread,       \* the origin of a tensor that does not exist
    MaxTensors,     \* bound: tensors ever made
    MaxClones,      \* bound: clones of a tensor alive at once
    Lazy,           \* how many of the newest operations a lazy call may leave
    Execution,      \* how operations are executed: "fused", "single"
    OwnerUses,      \* may a thread use a tensor it made and gave to another?
    LastReads,      \* may the last clone of such a tensor be read?
    Overlap         \* bound: tensors made while threads act within each other's calls

ASSUME NoThreadAssumption == NoThread \notin Threads
ASSUME LazyAssumption == Lazy # {} /\ Lazy \subseteq Nat
ASSUME ExecutionAssumption == Execution # {} /\ Execution \subseteq {"fused", "single"}
ASSUME FlagsAssumption == {OwnerUses, LastReads} \subseteq BOOLEAN

Ids == 1..MaxTensors

(* A call of a thread: the tensors still to convert, the inputs converted   *)
(* so far, the outputs, and tensors whose drop is to be registered first.  *)
Calling(kind, todo) ==
    [kind |-> kind, todo |-> todo, pc |-> "load", ins |-> <<>>, out |-> {}, last |-> {}]
Idle == Calling("idle", <<>>)

VARIABLES
    server,     \* FusionServer: streams, shared tensors, handles, faults
    origin,     \* per tensor: FusionTensor.stream, NoThread before it exists
    count,      \* per tensor: FusionTensor.count
    held,       \* per thread and tensor: clones the thread owns
    lent,       \* tensors some thread gave to another one
    call        \* per thread: an operation converted and not yet registered

vars == <<server, origin, count, held, lent, call>>

-----------------------------------------------------------------------------
(* Data.                                                                   *)

(* An input of an operation: `status' is the one the server may change,    *)
(* `own' the one the operation itself was built with.                      *)
Input(t, status) == [id |-> t, status |-> status, own |-> status]
InputIds(op) == {op.ins[i].id : i \in DOMAIN op.ins}
Nodes(op) == InputIds(op) \union op.out
DropOf(t) == [kind |-> "drop", ins |-> <<Input(t, "ReadWrite")>>, out |-> {}]

(* The inputs an operation consumes, as the server knows it.               *)
Consumed(op) == {op.ins[i].id : i \in {j \in DOMAIN op.ins : op.ins[j].status = "ReadWrite"}}

(* A stream that is not in the map of streams is closed.  `variables' maps *)
(* the tensors of a queue to the stream they come from.                    *)
Closed == [open |-> FALSE, queue |-> <<>>, cursor |-> 0,
           variables |-> [t \in Ids |-> NoThread]]
Open(S, id) == S.streams[id].open
Variables(S, id) == {t \in Ids : S.streams[id].variables[t] # NoThread}
Forget(S, id, T) ==
    [S EXCEPT !.streams[id].variables = [t \in Ids |-> IF t \in T THEN NoThread ELSE @[t]]]

Fault(S, what, T) == [S EXCEPT !.faults = @ \union {<<what, t>> : t \in T}]

(* Closing a stream forgets the operations of its queue.                   *)
Close(S, ids) ==
    LET lost == UNION {UNION {op.out : op \in Range(S.streams[s].queue)} : s \in ids}
    IN  [Fault(S, "lost", lost) EXCEPT
            !.streams = [s \in Threads |-> IF s \in ids THEN Closed ELSE @[s]]]

-----------------------------------------------------------------------------
(* HandleContainer and OperationQueue.                                     *)

Free(S, T) == [S EXCEPT !.handles = [t \in Ids |-> IF t \in T THEN "none" ELSE @[t]]]

(* HandleContainer::get_handle: a missing or empty handle is a panic.      *)
GetHandle(S, t, status) ==
    CASE S.handles[t] = "none" -> Fault(S, "missing", {t})
      [] S.handles[t] = "NotInit" -> Fault(S, "uninitialized", {t})
      [] OTHER -> Free(S, IF status = "ReadWrite" THEN {t} ELSE {})

(* Operation::execute of one operation, or its part in a fused kernel,     *)
(* which reads all its inputs as ReadOnly and leaves drops to drain_queue. *)
Run(S, op, how) ==
    LET read == FoldLeft(LAMBDA s, in : GetHandle(s, in.id,
                            IF how = "single" THEN in.own ELSE "ReadOnly"),
                         S, op.ins)
    IN  IF op.kind = "drop" THEN (IF how = "single" THEN Free(S, InputIds(op)) ELSE S)
        ELSE [read EXCEPT !.handles =
                 [t \in Ids |-> IF t \in op.out THEN "Existing" ELSE @[t]]]

(* OperationQueue::execute of n operations, drain_queue, and the cursor.   *)
Execute(S, id, n, how) ==
    LET ops == SubSeq(S.streams[id].queue, 1, n)
        ran == FoldLeft(LAMBDA s, op : Run(s, op, how), S, ops)
        gone == UNION {Consumed(op) : op \in Range(ops)}
    IN  Forget(Free([ran EXCEPT !.streams[id].queue = SubSeq(@, n + 1, Len(@)),
                                !.streams[id].cursor = @ + n], gone), id, gone)

-----------------------------------------------------------------------------
(* SharedTensors.  S.shared[t] holds, for each stream that uses t, the     *)
(* cursor up to which that stream must execute (`current'), and the one of *)
(* its first use (`origin'); it is empty when t is not shared.  S.manual   *)
(* are the tensors whose last use the server turned into a read.           *)

Users(S, t) == {u.stream : u \in S.shared[t]}
UseBy(S, t, id) == CHOOSE u \in S.shared[t] : u.stream = id

(* SharedTensor::register_new_stream.                                      *)
CursorNow(S, id) ==
    IF Open(S, id) THEN S.streams[id].cursor + Len(S.streams[id].queue) ELSE 1

(* Mutant of RegisterNewStream: a second use is recorded beside the first. *)
RegisterNewStream_Beside(S, t, id) ==
    [S EXCEPT !.shared[t] = @ \union
        {[stream |-> id, current |-> CursorNow(S, id), origin |-> CursorNow(S, id)]}]
RegisterNewStream(S, t, id) ==
    LET known == id \in Users(S, t)
        now == CursorNow(S, id)
    IN  [S EXCEPT !.shared[t] = {u \in @ : u.stream # id} \union
            {[stream |-> id, current |-> now,
              origin |-> IF known THEN UseBy(S, t, id).origin ELSE now]}]

(* SharedTensors::analyse of an input t of an operation of stream id.  A   *)
(* gathers what MultiSharedTensorAnalysis does: shared tensors of this     *)
(* stream, and those of other streams, with their origin.                  *)
(* Mutant of Analyse: only the stream of the tensor is recorded.           *)
Analyse_OriginOnly(A, t, id, from) ==
    IF from[t] = id THEN [A EXCEPT !.current = @ \union {u \in {t} : A.S.shared[t] # {}}]
    ELSE [A EXCEPT !.S = RegisterNewStream(A.S, t, from[t]), !.new = @ \union {<<t, from[t]>>}]
Analyse(A, t, id, from) ==
    LET o == from[t]
        S1 == RegisterNewStream(A.S, t, id)
        S2 == RegisterNewStream(S1, t, o)
    IN  IF o = id
        THEN [A EXCEPT !.current = @ \union {u \in {t} : A.S.shared[t] # {}}]
        ELSE IF o \in Users(S1, t)
             THEN [A EXCEPT !.S = S2,
                            !.existing = @ \union {<<t, o, UseBy(S1, t, o).origin>>}]
             ELSE [A EXCEPT !.S = S2, !.new = @ \union {<<t, o>>}]

-----------------------------------------------------------------------------
(* MultiStream.                                                            *)

RECURSIVE AfterExecution(_, _, _, _), Register(_, _, _, _, _, _)

(* SharedTensor::update: stream id has executed its last use of these.     *)
Passed(S, id) ==
    {t \in Ids : id \in Users(S, t) /\ UseBy(S, t, id).current <= S.streams[id].cursor}

(* on_executed_ops and clear_tensors: stream id no longer uses the tensors *)
(* it passed, and no stream tracks those that nobody uses any more.        *)
ClearShared(S, id, passed) ==
    [S EXCEPT !.shared = [t \in Ids |-> {u \in @[t] : t \notin passed \/ u.stream # id}],
              !.streams = [s \in Threads |-> [@[s] EXCEPT !.variables = [t \in Ids |->
                  IF t \in passed /\ (s = id \/ Users(S, t) = {id}) THEN NoThread ELSE @[t]]]]]

(* clear_shared_tensors: the other streams that track nothing are removed. *)
CloseEmpty(S, id) ==
    Close(S, {s \in Threads \ {id} : Open(S, s) /\ Variables(S, s) = {}})

(* drop_shared_tensors: stream id drops what was left to the server.       *)
DropShared(S, id, toDrop, lazy, how) ==
    FoldLeft(LAMBDA s, t : Register(s, id, DropOf(t), [u \in {t} |-> id], lazy, how),
             [S EXCEPT !.manual = @ \ toDrop, !.streams = [s \in Threads |->
                 [@[s] EXCEPT !.variables = [t \in Ids |->
                     IF t \in toDrop /\ @[t] # s THEN NoThread ELSE @[t]]]]],
             SetToSeq(toDrop))
DropUnused(S, id, lazy, how) ==
    DropShared(S, id, {t \in S.manual : S.shared[t] = {}}, lazy, how)

(* What follows the execution of operations of stream id.                  *)
AfterExecution(S, id, lazy, how) ==
    DropUnused(CloseEmpty(ClearShared(S, id, Passed(S, id)), id), id, lazy, how)

(* MultiStream::drain.                                                     *)
Drain(S, id, how) ==
    IF ~Open(S, id) THEN S
    ELSE AfterExecution(Execute(S, id, Len(S.streams[id].queue), how), id, 0, how)

(* merge_streams_timelines: the streams to drain, which are the new ones   *)
(* and those that have not executed past their first use of the tensor.    *)
(* Mutant of ToSync: a stream is taken to be up to date one step early.    *)
ToSync_Early(A) ==
    {e[2] : e \in {e \in A.existing : Open(A.S, e[2]) /\ A.S.streams[e[2]].cursor < e[3]}}
ToSync(A) ==
    LET behind == {e \in A.existing : Open(A.S, e[2]) /\ A.S.streams[e[2]].cursor <= e[3]}
    IN  {e[2] : e \in behind} \union {e[2] : e \in A.new}

(* MultiStream::resolve_streams: the streams the inputs come from execute  *)
(* what they hold of them, and shared inputs are not consumed.             *)
Analysis(S, id, op, from) ==
    FoldLeft(LAMBDA a, in : Analyse(a, in.id, id, from),
             [S |-> S, current |-> {}, existing |-> {}, new |-> {}], op.ins)
SharedIn(A) == A.current \union {e[1] : e \in A.existing \union A.new}
Synced(A, op, how) ==
    FoldLeft(LAMBDA s, o :
                IF Variables(s, o) \intersect Nodes(op) # {} THEN Drain(s, o, how) ELSE s,
             A.S, SetToSeq(ToSync(A)))
Unconsumed(S, op, shared) ==
    [S |-> [S EXCEPT !.manual = @ \union (Consumed(op) \intersect shared)],
     op |-> [op EXCEPT !.ins = [i \in DOMAIN op.ins |->
                [op.ins[i] EXCEPT !.status =
                    IF op.ins[i].id \in shared THEN "ReadOnly" ELSE @]]]]
ResolveWith(A, op, how) == Unconsumed(Synced(A, op, how), op, SharedIn(A))
Resolve(S, id, op, from, how) == ResolveWith(Analysis(S, id, op, from), op, how)

(* handle_drop_op and SharedTensors::on_drop, for a drop of t that resolve *)
(* marked ReadOnly: it is executed if no stream uses t any more, and left  *)
(* to the server otherwise.                                                *)
OnDrop(S, id, t) ==
    LET users == {u \in S.shared[t] : Open(S, id) \/ u.stream # id}
    IN  [execute |-> users = {},
         S |-> [S EXCEPT !.shared[t] = users,
                         !.manual = IF users = {} THEN @ \ {t} ELSE @]]

(* MultiStream::enqueue_operation.                                         *)
Enqueue(S, id, op, from) ==
    [S EXCEPT !.streams[id] =
        [open |-> TRUE, queue |-> Append(@.queue, op), cursor |-> @.cursor,
         variables |-> [t \in Ids |->
            IF t \in InputIds(op) THEN from[t]
            ELSE IF t \in op.out THEN id ELSE @.variables[t]]]]

(* Processor::process executes a prefix of the queue: all but the `lazy'   *)
(* newest operations.                                                      *)
HowMany(lazy, len) == IF lazy < len THEN len - lazy ELSE 0

(* MultiStream::register: the operation as resolve left it, R, is queued   *)
(* unless it is a drop that waits (one that does not consumes its tensor,  *)
(* whatever resolve made of it); a lazy call may execute; and a drop       *)
(* drains a stream that still tracks tensors.                              *)
HandleDropOp(R, id) ==
    IF R.op.kind = "drop" /\ Consumed(R.op) = {}
    THEN OnDrop(R.S, id, R.op.ins[1].id)
    ELSE [execute |-> TRUE, S |-> R.S]
Advance(S, id, n, lazy, how) ==
    IF n = 0 THEN S ELSE AfterExecution(Execute(S, id, n, how), id, lazy, how)
EnqueueExecute(S, id, lazy, how) ==
    Advance(S, id, HowMany(lazy, Len(S.streams[id].queue)), lazy, how)
AfterDrop(S, id, op, how) ==
    IF op.kind = "drop" /\ Variables(S, id) # {} THEN Drain(S, id, how) ELSE S
Submit(D, id, op, from, lazy, how) ==
    IF D.execute
    THEN AfterDrop(EnqueueExecute(Enqueue(D.S, id, op, from), id, lazy, how), id, op, how)
    ELSE D.S
RegisterResolved(R, id, op, from, lazy, how) ==
    Submit(HandleDropOp(R, id), id, IF op.kind = "drop" THEN op ELSE R.op, from, lazy, how)
Register(S, id, op, from, lazy, how) ==
    RegisterResolved(Resolve(S, id, op, from, how), id, op, from, lazy, how)

(* FusionServer::read_float and mark_read.                                 *)
MarkRead(S, id, in) ==
    IF in.status # "ReadWrite" THEN S
    ELSE IF Variables(S, id) \ {in.id} = {} THEN Close(Forget(S, id, {in.id}), {id})
    ELSE Forget(S, id, {in.id})
Read(S, id, in, how) == MarkRead(GetHandle(Drain(S, id, how), in.id, in.status), id, in)

-----------------------------------------------------------------------------
(* The client threads.                                                     *)

Init ==
    /\ server = [streams |-> [th \in Threads |-> Closed], shared |-> [t \in Ids |-> {}],
                 manual |-> {}, handles |-> [t \in Ids |-> "none"], faults |-> {}]
    /\ origin = [t \in Ids |-> NoThread]
    /\ count = [t \in Ids |-> 0]
    /\ held = [th \in Threads |-> [t \in Ids |-> 0]]
    /\ call = [th \in Threads |-> Idle]
    /\ lent = {}

(* A panic under the lock of the device ends the model.                    *)
MayGoOn == server.faults = {}

(* While another thread is in a call, bounded by Overlap. *)
MayAct(th) ==
    /\ MayGoOn /\ call[th] = Idle
    /\ \/ \A u \in Threads : call[u] = Idle
       \/ Cardinality({t \in Ids : origin[t] # NoThread}) <= Overlap

Fresh == CHOOSE t \in Ids : origin[t] = NoThread /\ \A u \in 1..(t - 1) : origin[u] # NoThread
HasFresh == Cardinality({t \in Ids : origin[t] = NoThread}) >
                Cardinality({th \in Threads : call[th].kind = "op"})

(* FusionTensor::clone, the clone being used by thread u.                  *)
Share(th, u, t) ==
    /\ MayAct(th) /\ held[th][t] > 0 /\ count[t] < MaxClones
    /\ count' = [count EXCEPT ![t] = @ + 1]
    /\ held' = [held EXCEPT ![u][t] = @ + 1]
    /\ lent' = IF u # th THEN lent \union {t} ELSE lent
    /\ UNCHANGED <<server, origin, call>>

(* float_from_data: a handle, and an Init operation that has it as output. *)
Create(th) ==
    /\ MayAct(th) /\ HasFresh
    /\ LET t == Fresh
           S == [server EXCEPT !.handles[t] = "Existing"]
       IN  /\ \E lazy \in Lazy, how \in Execution :
                  server' = Register(S, th, [kind |-> "init", ins |-> <<>>, out |-> {t}],
                                     <<>>, lazy, how)
           /\ origin' = [origin EXCEPT ![t] = th]
           /\ count' = [count EXCEPT ![t] = 1]
           /\ held' = [held EXCEPT ![th][t] = 1]
    /\ UNCHANGED <<call, lent>>

(* What programs do with a tensor that was given to another thread.        *)
MayUse(th, t) == OwnerUses \/ t \notin lent \/ th # origin[t]
MayRead(t) == LastReads \/ t \notin lent \/ count[t] > 1

(* FusionTensor::into_ir of one of the clones of t, and the drop of that   *)
(* clone: the last one is consumed, and its count never reaches zero.      *)
(* Mutant of Status: the last but one clone is taken for the last.         *)
Status_TwoLeft(t) == IF count[t] <= 2 THEN "ReadWrite" ELSE "ReadOnly"
Status(t) == IF count[t] <= 1 THEN "ReadWrite" ELSE "ReadOnly"

MayLoad(th) ==
    /\ MayGoOn
    /\ call[th].pc = "load" /\ call[th].todo # <<>> /\ call[th].last = {}

(* into_ir of the last clone.  Nobody else has one to act on the count:     *)
(* the load, the increment that spares the clone from being dropped and    *)
(* the decrement of its drop are one step.                                 *)
ConvertLast(th) ==
    /\ MayLoad(th)
    /\ LET t == Head(call[th].todo)
       IN  /\ Status(t) = "ReadWrite"
           /\ call' = [call EXCEPT ![th].todo = Tail(@),
                                   ![th].ins = Append(@, Input(t, "ReadWrite"))]
           /\ held' = [held EXCEPT ![th][t] = @ - 1]
    /\ UNCHANGED <<server, origin, count, lent>>

(* into_ir of a clone that is not the last, up to its drop. *)
LoadCount(th) ==
    /\ MayLoad(th)
    /\ LET t == Head(call[th].todo)
       IN  /\ Status(t) = "ReadOnly"
           /\ call' = [call EXCEPT ![th].pc = "release",
                                   ![th].ins = Append(@, Input(t, "ReadOnly"))]
    /\ UNCHANGED <<server, origin, count, held, lent>>

(* Mutant of Release: the drop goes by the count that into_ir read.        *)
Release_OldCount(th) ==
    LET t == Head(call[th].todo)
    IN  /\ MayGoOn /\ call[th].pc = "release"
        /\ call' = [call EXCEPT ![th].pc = "load", ![th].todo = Tail(@)]
        /\ count' = [count EXCEPT ![t] = @ - 1]
        /\ held' = [held EXCEPT ![th][t] = @ - 1]
        /\ UNCHANGED <<server, origin, lent>>
(* The end of into_ir drops the clone, which may be the last by now.       *)
Release(th) ==
    LET t == Head(call[th].todo)
    IN  /\ MayGoOn /\ call[th].pc = "release"
        /\ call' = [call EXCEPT ![th].pc = "load", ![th].todo = Tail(@),
                                ![th].last = IF Status(t) = "ReadWrite" THEN {t} ELSE {}]
        /\ count' = [count EXCEPT ![t] = @ - 1]
        /\ held' = [held EXCEPT ![th][t] = @ - 1]
        /\ UNCHANGED <<server, origin, lent>>

(* An operation on one or two tensors. *)
Convert(th, T) ==
    /\ MayAct(th) /\ HasFresh
    /\ \A t \in T : held[th][t] > 0 /\ MayUse(th, t)
    /\ call' = [call EXCEPT ![th] = Calling("op", SetToSeq(T))]
    /\ UNCHANGED <<server, origin, count, held, lent>>

(* FusionTensor::into_data. *)
ConvertRead(th, t) ==
    /\ MayAct(th) /\ held[th][t] > 0 /\ MayRead(t)
    /\ call' = [call EXCEPT ![th] = Calling("read", <<t>>)]
    /\ UNCHANGED <<server, origin, count, held, lent>>

(* FusionTensor::drop. *)
DropTensor(th, t) ==
    /\ MayAct(th) /\ held[th][t] > 0
    /\ count' = [count EXCEPT ![t] = @ - 1]
    /\ held' = [held EXCEPT ![th][t] = @ - 1]
    /\ call' = IF Status(t) = "ReadWrite"
               THEN [call EXCEPT ![th] = [Calling("drop", <<>>) EXCEPT !.last = {t}]]
               ELSE call
    /\ UNCHANGED <<server, origin, lent>>

(* The last clone is gone: its drop is registered. *)
CallDrop(th) ==
    /\ MayGoOn
    /\ \E t \in call[th].last, lazy \in Lazy, how \in Execution :
          server' = Register(server, th, DropOf(t), [u \in {t} |-> origin[t]], lazy, how)
    /\ call' = [call EXCEPT ![th] = IF @.kind = "drop" THEN Idle ELSE [@ EXCEPT !.last = {}]]
    /\ UNCHANGED <<origin, count, held, lent>>

Ready(th, kind) ==
    /\ MayGoOn
    /\ call[th].kind = kind /\ call[th].todo = <<>> /\ call[th].last = {}
    /\ call' = [call EXCEPT ![th] = Idle]

(* The output gets an id and an empty handle, and the operation is         *)
(* registered: two calls of the server, but nobody else has the id.        *)
CallOp(th) ==
    /\ Ready(th, "op")
    /\ LET t == Fresh
           op == [kind |-> "op", ins |-> call[th].ins, out |-> {t}]
           from == [u \in InputIds(op) |-> origin[u]]
           S == [server EXCEPT !.handles[t] = "NotInit"]
       IN  /\ \E lazy \in Lazy, how \in Execution :
                  server' = Register(S, th, op, from, lazy, how)
           /\ origin' = [origin EXCEPT ![t] = th]
           /\ count' = [count EXCEPT ![t] = 1]
           /\ held' = [held EXCEPT ![th][t] = 1]
    /\ UNCHANGED lent

CallRead(th) ==
    /\ Ready(th, "read")
    /\ LET in == call[th].ins[1]
       IN  \E how \in Execution : server' = Read(server, origin[in.id], in, how)
    /\ UNCHANGED <<origin, count, held, lent>>

Next == \E th \in Threads :
    \/ Create(th)
    \/ ConvertLast(th)
    \/ LoadCount(th)
    \/ Release(th)
    \/ CallDrop(th)
    \/ CallOp(th)
    \/ CallRead(th)
    \/ \E t \in Ids :
        \/ \E u \in Threads : Share(th, u, t)
        \/ ConvertRead(th, t)
        \/ DropTensor(th, t)
    \/ \E T \in SUBSET Ids : Cardinality(T) \in {1, 2} /\ Convert(th, T)

Spec == Init /\ [][Next]_vars

-----------------------------------------------------------------------------
(* Properties.                                                             *)

Queued(th) == Range(server.streams[th].queue)
Held(t) == \E th \in Threads : held[th][t] > 0

(* The state is of the right type, a stream that was removed left nothing  *)
(* behind, a stream is recorded once as a user of a tensor, and no thread  *)
(* holds clones that the count of references does not know.                *)
TypeOK ==
    /\ server.faults \subseteq {"missing", "uninitialized", "lost"} \X Ids
    /\ server.manual \subseteq Ids
    /\ server.handles \in [Ids -> {"none", "NotInit", "Existing"}]
    /\ \A th \in Threads :
          /\ server.streams[th].variables \in [Ids -> Threads \union {NoThread}]
          /\ ~Open(server, th) => server.streams[th] = Closed
    /\ \A t \in Ids : \A u, v \in server.shared[t] : u.stream = v.stream => u = v
    /\ \A t \in Ids : MapThenSumSet(LAMBDA th : held[th][t], Threads) <= count[t]

(* No operation and no read finds the handle of an input missing or empty, *)
(* which is a panic under the lock of the device, and no stream is removed *)
(* while its queue holds an operation whose output would then never exist. *)
NoFault == server.faults = {}

(* The half of it that holds for every program, prefix and interleaving:   *)
(* what an operation or a read needs was computed before, although another *)
(* stream may compute it, and no operation is lost with its stream.        *)
ProducedInTime == \A f \in server.faults : f[1] = "missing"

(* A tensor that a queued operation of another stream reads is recorded as *)
(* used by that stream: the server frees a shared tensor only when every   *)
(* stream has executed its latest use of it.                               *)
UsesAreTracked(th, i) ==
    \A t \in InputIds(server.streams[th].queue[i]) :
        origin[t] # th => th \in Users(server, t)
UsesTracked ==
    \A th \in Threads : \A i \in DOMAIN server.streams[th].queue : UsesAreTracked(th, i)

(* What is left of it when an execution stops before the newest operation: *)
(* only the use of the operation at the head of a queue may be forgotten.  *)
LaterUsesTracked ==
    \A th \in Threads : \A i \in DOMAIN server.streams[th].queue :
        i > 1 => UsesAreTracked(th, i)

(* A tensor that some thread still holds has its data, or the operation    *)
(* that makes them is queued: no drop, read or consuming operation of      *)
(* another thread took them away.                                          *)
HeldTensorsHaveData ==
    NoFault => \A t \in Ids : Held(t) =>
        \/ server.handles[t] = "Existing"
        \/ \E th \in Threads : \E op \in Queued(th) : t \in op.out

(* No clone of t is left, not even in a call that is not registered yet,   *)
(* and its handle is still there.                                          *)
Abandoned(t) ==
    /\ server.handles[t] # "none" /\ ~Held(t)
    /\ \A th \in Threads : t \notin InputIds(call[th]) \union call[th].last
ToBeConsumed(t) == \E th \in Threads : \E op \in Queued(th) : t \in Consumed(op)

(* A handle that no thread holds any more is not forgotten: its drop was   *)
(* left to the server, or a queued operation consumes it.                  *)
NothingForgotten ==
    NoFault => \A t \in Ids : Abandoned(t) => t \in server.manual \/ ToBeConsumed(t)

(* A drop left to the server waits only for operations that are queued: it *)
(* takes place when the streams that use the tensor are drained.           *)
DropsWaitForWork ==
    NoFault => \A t \in Ids : Abandoned(t) /\ ~ToBeConsumed(t) =>
        \A u \in server.shared[t] :
            u.current <= server.streams[u.stream].cursor + Len(server.streams[u.stream].queue)
=============================================================================
