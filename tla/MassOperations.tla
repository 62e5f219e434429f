--------------------------- MODULE MassOperations ---------------------------
(***************************************************************************)
(* The operations of hosted instances at one Mass server: starting and     *)
(* shutting down instances of its injected operation or of Qwen, the gate  *)
(* of every call, and forward from its input reference (stored, or a live  *)
(* stream with a durable fallback) through the contract to the published   *)
(* output.  The injected operation is corgi-zo's: all of its instances     *)
(* share one model, which they perturb and optimize.  Frames are those of  *)
(* TensorFrames; the engine behind Qwen's other calls is MassSession's.    *)
(***************************************************************************)
EXTENDS TensorFrames

CONSTANTS
  Ids, Requests, None,
  Offered,       \* capability of the injected operation
  Wanted,        \* capabilities clients ask for
  MaxInstances,
  Inputs,        \* references clients hand in: [stored] or [ticket, begin, live, durable, policy]
  Bundles,       \* what the operation may try to answer: [tensors, metadata]
  Results,       \* what the engine may predict: sequences of dark tokens
  ChunkLen,      \* VOID_CHUNK_SIZE, in cells
  MaxForwards,   \* bound: forwards in flight; they share nothing but the instances
  MaxSteps,      \* bound: zeroth-order steps
  MaxDowns,      \* bound: downward perturbations of one step
  MaxOverlaps,   \* bound: ids whose shutdowns overlap
  MaxFaults      \* bound: failed calls

ASSUME NoneAssumption ==
  /\ None \notin Requests
  /\ \A c \in Wanted, implementation \in {"Qwen", "Injected"} : None # [capability |-> c, implementation |-> implementation]

ASSUME InputsAssumption ==
  /\ ChunkLen \in Nat \ {0}
  /\ \A input \in Inputs : "ticket" \in DOMAIN input => IsFrame(input.ticket.header) /\ IsFrame(input.live)

ASSUME AnswersAssumption ==
  /\ \A bundle \in Bundles : IsBundle(bundle)
  /\ None \notin Results /\ \A results \in Results : AreResults(results)

VARIABLES
  hosted,        \* instances: [Ids -> None or [capability, implementation]]
  routes,        \* ids with a (local) route
  slots,         \* ids whose model the Qwen engine runs
  dispatch,      \* holder of start_dispatch, or None
  zo,            \* the shared ZoModel: [offset, direction, downs, steps]
  orderly,       \* history: each perturbation so far was turned round exactly once
  overlapped,    \* history: ids of which two shutdowns overlapped
  req,           \* [Requests -> what the handler holds]
  faults

registry == <<hosted, routes, slots, dispatch, overlapped>>
model    == <<zo, orderly>>
vars     == <<registry, model, req, faults>>

Idle == [at |-> "idle"]

Init ==
  /\ hosted = [i \in Ids |-> None] /\ routes = {} /\ slots = {} /\ dispatch = None /\ overlapped = {}
  /\ zo = [offset |-> 0, direction |-> FALSE, downs |-> 0, steps |-> 0] /\ orderly = TRUE
  /\ req = [r \in Requests |-> Idle] /\ faults = 0

MayFail == faults < MaxFaults /\ faults' = faults + 1
Ok      == UNCHANGED faults

Holds(r, record) == req' = [req EXCEPT ![r] = record]
To(r, at)        == req' = [req EXCEPT ![r].at = at]
\* The answer is sent, an output or an error.
Answers(r)       == Holds(r, Idle)

-----------------------------------------------------------------------------
(* Capabilities *)

Capability(contract, operations, backward) ==
  [contract |-> contract, hash |-> contract, operations |-> operations, backward |-> backward,
   codecs |-> {"safetensors", "postcard"}]

OPTIMIZING == {"forward", "reset", "perturb", "optimize", "checkpoint", "fuse", "query"}
QwenCapability == Capability(QwenDarkInference, OPTIMIZING, None)

ValidCapability(c) ==
  /\ c.hash = c.contract /\ c.codecs # {}
  /\ "backward" \in c.operations =>
       c.backward # None /\ c.backward.id = c.contract.id /\ c.backward.version = c.contract.version

OperationSatisfies(advertised, requested) ==
  /\ advertised.contract = requested.contract /\ advertised.hash = requested.hash
  /\ requested.codecs \subseteq advertised.codecs
  /\ "backward" \in requested.operations => advertised.backward = requested.backward
  /\ requested.operations \subseteq advertised.operations

-----------------------------------------------------------------------------
(* Starting and shutting down *)

Hosted == {i \in Ids : hosted[i] # None}

Eligible(c) ==
  ValidCapability(c) /\ (OperationSatisfies(QwenCapability, c) \/ OperationSatisfies(Offered, c))

StartBegins(r, i, c) ==
  /\ req[r] = Idle /\ dispatch = None
  /\ i \notin routes \cup Hosted /\ Eligible(c) /\ Cardinality(routes) < MaxInstances
  /\ dispatch' = r
  /\ Holds(r, [at |-> "start", id |-> i, capability |-> c])
  /\ UNCHANGED <<hosted, routes, slots, overlapped, model, faults>>

\* The operation, or the engine, does not start; or it has no place, or the id.
StartFails(r, why) ==
  /\ why /\ dispatch' = None /\ Answers(r)
  /\ UNCHANGED <<hosted, routes, slots, overlapped, model>>

StartLocal(r) ==
  LET i == req[r].id  c == req[r].capability
      implementation == IF OperationSatisfies(QwenCapability, c) THEN "Qwen" ELSE "Injected"
      fits == IF implementation = "Qwen" THEN i \notin slots ELSE Cardinality(Hosted) < MaxInstances
  IN  /\ req[r].at = "start"
      /\ \/ /\ fits /\ Ok
            /\ hosted' = [hosted EXCEPT ![i] = [capability |-> c, implementation |-> implementation]]
            /\ slots' = IF implementation = "Qwen" THEN slots \cup {i} ELSE slots
            /\ To(r, "route") /\ UNCHANGED <<routes, dispatch, overlapped, model>>
         \/ StartFails(r, ~fits) /\ Ok
         \/ StartFails(r, TRUE) /\ MayFail

\* Mutant of StartRoutes: the route is entered and its instance forgotten.
StartRoutesOnly(r) ==
  /\ req[r].at = "route"
  /\ routes' = routes \cup {req[r].id} /\ hosted' = [hosted EXCEPT ![req[r].id] = None]
  /\ dispatch' = None /\ Answers(r)
  /\ UNCHANGED <<slots, overlapped, model, faults>>

StartRoutes(r) ==
  /\ req[r].at = "route"
  /\ routes' = routes \cup {req[r].id} /\ dispatch' = None /\ Answers(r)
  /\ UNCHANGED <<hosted, slots, overlapped, model, faults>>

Stopping(i) == {r \in Requests : req[r].at \in {"stop", "unlist", "unroute"} /\ req[r].id = i}

ShutdownBegins(r, i) ==
  /\ req[r] = Idle /\ i \in routes \cap Hosted
  /\ Stopping(i) = {} \/ Cardinality(overlapped) < MaxOverlaps
  /\ overlapped' = IF Stopping(i) = {} THEN overlapped ELSE overlapped \cup {i}
  /\ Holds(r, [at |-> "stop", id |-> i, instance |-> hosted[i]])
  /\ UNCHANGED <<hosted, routes, slots, dispatch, model, faults>>

\* Qwen gives up its slot even when it fails to unload.
ShutdownRuns(r) ==
  LET i == req[r].id  qwen == req[r].instance.implementation = "Qwen" IN
  /\ req[r].at = "stop"
  /\ slots' = IF qwen THEN slots \ {i} ELSE slots
  /\ \/ Holds(r, [at |-> "unlist", id |-> i]) /\ (qwen => i \in slots) /\ Ok
     \/ Answers(r) /\ qwen /\ i \notin slots /\ Ok
     \/ Answers(r) /\ MayFail
  /\ UNCHANGED <<hosted, routes, dispatch, overlapped, model>>

ShutdownUnlists(r) ==
  /\ req[r].at = "unlist"
  /\ hosted' = [hosted EXCEPT ![req[r].id] = None] /\ To(r, "unroute")
  /\ UNCHANGED <<routes, slots, dispatch, overlapped, model, faults>>

ShutdownUnroutes(r) ==
  /\ req[r].at = "unroute"
  /\ routes' = routes \ {req[r].id} /\ Answers(r)
  /\ UNCHANGED <<hosted, slots, dispatch, overlapped, model, faults>>

-----------------------------------------------------------------------------
(* Calls of an instance *)

\* hosted_instance clones the entry; what follows does not look at it again.
Enter(r, i, op, at, input) ==
  /\ req[r] = Idle /\ i \in routes \cap Hosted /\ op \in hosted[i].capability.operations
  /\ Holds(r, [at |-> at, id |-> i, instance |-> hosted[i], input |-> input])
  /\ UNCHANGED <<registry, model, faults>>

Forwarding        == {r \in Requests : req[r].at \in
                       {"download", "stream", "received", "fallback", "refused", "validate", "publish", "published"}}
Forward(r, i)     ==
  /\ Cardinality(Forwarding) < MaxForwards
  /\ \E input \in Inputs : Enter(r, i, "forward", "download", input)
PerturbUp(r, i)   == Enter(r, i, "perturb", "up", None)
PerturbDown(r, i) == Enter(r, i, "perturb", "down", None)
Optimize(r, i)    == Enter(r, i, "optimize", "optimize", None)

Qwen(r) == req[r].instance.implementation = "Qwen"

\* Qwen's own perturbations do not touch the shared model (MassSession).
RunsPerturbUp(r) ==
  /\ req[r].at = "up" /\ Answers(r) /\ zo.steps < MaxSteps
  /\ IF Qwen(r) \/ zo.direction THEN UNCHANGED model
     ELSE /\ zo' = [zo EXCEPT !.offset = @ + 1, !.direction = TRUE]
          /\ UNCHANGED orderly
  /\ UNCHANGED <<registry, faults>>

RunsPerturbDown(r) ==
  /\ req[r].at = "down" /\ Answers(r) /\ zo.downs < MaxDowns
  /\ IF Qwen(r) \/ ~zo.direction THEN UNCHANGED model
     ELSE /\ zo' = [zo EXCEPT !.offset = @ - 2, !.downs = @ + 1]
          /\ UNCHANGED orderly
  /\ UNCHANGED <<registry, faults>>

\* Mutant of RunsOptimize: the update forgets to restore the weights.
RunsOptimizeUnrestored(r) ==
  /\ req[r].at = "optimize" /\ Answers(r)
  /\ IF Qwen(r) \/ ~zo.direction THEN UNCHANGED model
     ELSE /\ zo' = [zo EXCEPT !.direction = FALSE, !.downs = 0, !.steps = @ + 1]
          /\ orderly' = (orderly /\ zo.downs = 1)
  /\ UNCHANGED <<registry, faults>>

RunsOptimize(r) ==
  /\ req[r].at = "optimize" /\ Answers(r)
  /\ IF Qwen(r) \/ ~zo.direction THEN UNCHANGED model
     ELSE /\ zo' = [zo EXCEPT !.offset = @ + 1, !.direction = FALSE, !.downs = 0, !.steps = @ + 1]
          /\ orderly' = (orderly /\ zo.downs = 1)
  /\ UNCHANGED <<registry, faults>>

\* The calls that leave all of this alone: they end in an answer or an error.
OtherOperations(r, i) ==
  \E op \in {"reset", "query", "checkpoint", "fuse", "step", "backward"} : Enter(r, i, op, "other", None)
RunsOther(r) == req[r].at = "other" /\ Answers(r) /\ UNCHANGED <<registry, model, faults>>

-----------------------------------------------------------------------------
(* The input of forward *)

Got(r, bytes) == Holds(r, [at |-> "validate", id |-> req[r].id, instance |-> req[r].instance, bytes |-> bytes])

Live(r)   == "ticket" \in DOMAIN req[r].input
Ticket(r) == req[r].input.ticket

ValidTicket(t) ==
  /\ t.contract.id = t.envelope.contract_id /\ t.contract.version = t.envelope.contract_version
  /\ t.envelope.contract_hash = t.contract
  /\ ValidStreamHeader(t.contract, t.envelope.side, t.header)
  /\ DeclaredLen(t.header) = t.len

Download(r) ==
  /\ req[r].at = "download" /\ Ok
  /\ IF ~Live(r) THEN Got(r, req[r].input.stored)
     ELSE IF ValidTicket(Ticket(r))
          THEN Holds(r, [at |-> "stream", id |-> req[r].id, instance |-> req[r].instance,
                         input |-> req[r].input, begun |-> FALSE, next |-> 0, out |-> <<>>])
          ELSE To(r, "fallback")
  /\ UNCHANGED <<registry, model>>

\* A download fails, of the object or of the ticket.
DownloadFails(r) ==
  /\ req[r].at = "download" /\ MayFail
  /\ IF Live(r) THEN To(r, "fallback") ELSE Answers(r)
  /\ UNCHANGED <<registry, model>>

StreamFails(r) == To(r, IF req[r].input.policy = "ephemeral" THEN "refused" ELSE "fallback")
Receives(r)    == req[r].at = "stream" /\ UNCHANGED <<registry, model>>

MatchesTicket(begin, t) ==
  /\ begin.envelope = t.envelope /\ begin.header = t.header
  /\ begin.len = t.len /\ begin.hash = t.hash

ReceiveBegin(r) ==
  /\ Receives(r) /\ ~req[r].begun /\ Ok
  /\ IF MatchesTicket(req[r].input.begin, Ticket(r)) THEN req' = [req EXCEPT ![r].begun = TRUE]
     ELSE StreamFails(r)

\* The part of the chunk that belongs to the header is the header's.
MatchesHeader(out, data, header) ==
  \A k \in DOMAIN data : Len(out) + k <= Len(header) => data[k] = header[Len(out) + k]

\* The next chunk of what the source has, or one that is damaged or out of turn.
ReceiveChunk(r) ==
  LET me == req[r]  live == me.input.live
      data == SubSeq(live, Len(me.out) + 1, IF Len(me.out) + ChunkLen < Len(live) THEN Len(me.out) + ChunkLen ELSE Len(live))
  IN  /\ Receives(r) /\ me.begun /\ data # <<>>
      /\ \/ /\ Ok
            /\ IF MatchesHeader(me.out, data, Ticket(r).header)
               THEN req' = [req EXCEPT ![r].next = @ + 1, ![r].out = @ \o data]
               ELSE StreamFails(r)
         \/ MayFail /\ StreamFails(r)

Agrees(out, next, begin) == next = begin.chunks /\ Len(out) = begin.len /\ out = begin.hash

\* validate_received_transfer
ValidReceived(out, t) ==
  /\ Len(out) = t.len /\ out = t.hash /\ SubSeq(out, 1, Len(t.header)) = t.header
  /\ ValidArtifact(t.contract, t.envelope.side, out)

ReceiveCommit(r) ==
  LET me == req[r] IN
  /\ Receives(r) /\ me.begun /\ Len(me.out) = Len(me.input.live) /\ Ok
  /\ IF Agrees(me.out, me.next, me.input.begin) THEN To(r, "received") ELSE StreamFails(r)

\* An abort, the end of the stream, or a frame before the begin.
StreamBreaks(r) == Receives(r) /\ MayFail /\ StreamFails(r)

ValidateReceived(r) ==
  /\ req[r].at = "received" /\ Ok
  /\ IF ValidReceived(req[r].out, Ticket(r)) THEN Got(r, req[r].out) ELSE StreamFails(r)
  /\ UNCHANGED <<registry, model>>

\* download_committed_transfer, of a transfer that is committed or never will be.
Fallback(r) ==
  /\ req[r].at \in {"fallback", "refused"} /\ Ok
  /\ IF req[r].at = "fallback" /\ req[r].input.durable # None
     THEN Got(r, req[r].input.durable) ELSE Answers(r)
  /\ UNCHANGED <<registry, model>>

-----------------------------------------------------------------------------
(* The operation and its output *)

Runs(r) == req[r].at = "validate" /\ Ok /\ UNCHANGED <<registry, model>>
Publishes(r, contract, bundle, results) ==
  Holds(r, [at |-> "publish", contract |-> contract, tensors |-> bundle.tensors,
            metadata |-> bundle.metadata, results |-> results])

RunsForward(r) ==
  LET contract == req[r].instance.capability.contract IN
  /\ Runs(r) /\ ~Qwen(r)
  /\ \/ Answers(r)
     \/ /\ ValidArtifact(contract, "input", req[r].bytes)
        /\ \E bundle \in Bundles :
             Encodable(contract, "output", bundle.tensors) /\ Publishes(r, contract, bundle, None)

\* handle_qwen_operation_forward; the request is uploaded, inferred upon and the
\* results downloaded in between (MassSession).
QwenForward(r) ==
  /\ Runs(r) /\ Qwen(r)
  /\ \/ Answers(r)
     \/ /\ ValidArtifact(QwenDarkInference, "input", req[r].bytes) /\ req[r].id \in slots
        /\ \E results \in Results :
             ~Ragged(results) /\ Publishes(r, QwenDarkInference, QwenBundle(results), results)

\* publish_artifact returns once the transfer has begun and its ticket is stored.
PublishArtifact(r) ==
  LET me == req[r]
      data == EncodeFrame(me.contract, "output", me.tensors, me.metadata)
      ticket == [contract |-> me.contract, envelope |-> data[2], header |-> TensorStreamHeader(data),
                 len |-> Len(data), hash |-> data]
  IN  /\ me.at = "publish" /\ Ok
      /\ Holds(r, [at |-> "published", tensors |-> me.tensors, metadata |-> me.metadata, results |-> me.results,
                   data |-> data, ticket |-> ticket])
      /\ UNCHANGED <<registry, model>>

AnswersForward(r) ==
  /\ req[r].at = "published" /\ Answers(r) /\ Ok
  /\ UNCHANGED <<registry, model>>

PublishFails(r) ==
  /\ req[r].at = "publish" /\ MayFail /\ Answers(r)
  /\ UNCHANGED <<registry, model>>

-----------------------------------------------------------------------------
Calls(r) ==
  \E i \in Ids :
    \/ \E c \in Wanted : StartBegins(r, i, c)
    \/ ShutdownBegins(r, i) \/ Forward(r, i) \/ PerturbUp(r, i) \/ PerturbDown(r, i) \/ Optimize(r, i)
    \/ OtherOperations(r, i)

Lifecycle(r) ==
  \/ StartLocal(r) \/ StartRoutes(r)
  \/ ShutdownRuns(r) \/ ShutdownUnlists(r) \/ ShutdownUnroutes(r)

Steps(r) == RunsPerturbUp(r) \/ RunsPerturbDown(r) \/ RunsOptimize(r) \/ RunsOther(r)

Invokes(r) ==
  \/ Download(r) \/ DownloadFails(r) \/ Fallback(r) \/ ValidateReceived(r)
  \/ ReceiveBegin(r) \/ ReceiveChunk(r) \/ ReceiveCommit(r) \/ StreamBreaks(r)
  \/ RunsForward(r) \/ QwenForward(r) \/ PublishArtifact(r) \/ PublishFails(r) \/ AnswersForward(r)

Next == \E r \in Requests : Calls(r) \/ Lifecycle(r) \/ Steps(r) \/ Invokes(r)

Spec == Init /\ [][Next]_vars

-----------------------------------------------------------------------------
(* Properties *)

\* A live stream whose commit is accepted is an artifact of its contract: what
\* validate_tensor_stream_header says of a header before any byte arrives,
\* apply_transfer_frame of the chunks and validate_artifact of the whole agree,
\* whatever ticket, begin frame and bytes arrive.
CommittedStreamsValid ==
  \A r \in Requests : req[r].at = "received" => ValidReceived(req[r].out, Ticket(r))

\* Two tensors start at one offset and the empty one is listed last.
HeaderTies(header) ==
  \E a, b \in Last(header).header : a.start = b.start /\ a.end > b.end /\ a.name < b.name

\* What is published decodes to what was encoded, tensors in the order of the
\* ports, dark tokens to the results they were made of; and its ticket is one
\* receivers accept, except for ties of an empty tensor (they take the fallback).
PublishedDecodes ==
  \A r \in Requests : req[r].at = "published" =>
    LET p == req[r]
        t == p.ticket
        decoded == DecodeFrame(t.contract, "output", p.data)
    IN  /\ ValidArtifact(t.contract, "output", p.data)
        /\ Range(decoded.tensors) = Range(p.tensors) /\ decoded.metadata = p.metadata
        /\ \A i \in DOMAIN decoded.tensors : decoded.tensors[i].name = t.contract.output[i].name
        /\ ValidTicket(t) = ~HeaderTies(t.header)
        /\ p.results # None => DenseResults(decoded.tensors) = p.results

\* The steps of corgi-zo end where they began, whichever instances of the shared
\* model and requests make their calls, if each perturbation is turned round once.
StepsReturn == orderly /\ ~zo.direction => zo.offset = 0

\* An id is listed and routed, or neither, when no start or shutdown of it is under
\* way, whatever fails; unless two shutdowns of it overlapped.
Changing(i) == \E r \in Requests : req[r].at \in {"start", "route", "stop", "unlist", "unroute"} /\ req[r].id = i
ListedAndRouted == \A i \in Ids \ overlapped : ~Changing(i) => (i \in routes <=> i \in Hosted)
=============================================================================
