---------------------------- MODULE RemoteCalls ----------------------------
(***************************************************************************)
(* What lies between a caller and a Void or Mass server.  A client opens a *)
(* connection, QUIC or TCP, sends one frame and reads one; postcard writes *)
(* the variant's index and the fields in order, and the two ends decode    *)
(* with tables of their own.  Calls are never repeated and never timed     *)
(* out; a caller may go away while its request is being handled, and Mass  *)
(* may be shut down.  Files travel in one frame or in parts, and come back *)
(* by ranges.                                                              *)
(*                                                                         *)
(* The server is as seen by one call: what its handlers do to instances,   *)
(* transfers and stores is MassOperations', VoidTransfer's and             *)
(* VoidObjects'.  Payloads are sequences of cells.                         *)
(***************************************************************************)
EXTENDS Integers, Sequences, FiniteSets, SequencesExt

CONSTANTS
  Callers, Nothing,
  ObjectIds,
  FileSizes,      \* lengths of the files, in cells
  StoredSize,     \* length of the one stored before
  FrameLimit,     \* MAX_FRAME_SIZE: 64 MB, in cells
  VoidFrameLimit, \* S3_MAX_FRAME_SIZE: 1 GB
  PartLen,        \* VOID_CHUNK_SIZE: 16 MB
  MaxTasks,       \* bound: things callers set out to do
  MaxErrors       \* bound: failures of handlers and callers that go away

ASSUME LimitsAssumption == FrameLimit \in Nat /\ PartLen \in 1 .. FrameLimit /\ FrameLimit <= VoidFrameLimit
ASSUME SizesAssumption == FileSizes \subseteq Nat /\ StoredSize \in Nat /\ 1 \in ObjectIds
\* A call that did not end ended in no way.
ASSUME NothingAssumption == Nothing \notin {"ok", "error", "unexpected"}

VARIABLES
  task,        \* [Callers -> what it is doing, or how the last thing it did ended]
  call,        \* [Callers -> the call it waits for, or Nothing]
  left,        \* requests still handled although their callers are gone
  executed,    \* history: [Callers -> what the handler of its last call was]
  objects,     \* [ObjectIds -> contents, or Nothing]
  uploads,     \* multipart_uploads: [ObjectIds -> parts by number, or Nothing]
  replaced,    \* history: ids stored more than once
  via,         \* the servers' transport mode
  stopped,     \* the Mass server is shut down
  spent        \* [tasks, errors, ids], of the bounds and of the ids drawn so far

callVars == <<task, call, left, executed, objects, uploads, replaced, via, stopped, spent>>

-----------------------------------------------------------------------------
(* The wire *)

\* Variants in the order of their index, each with the types of its fields.
VoidIn ==
  << <<"Upload", "bytes">>, <<"UploadWith", "id", "bytes">>, <<"Download", "id">>,
     <<"DownloadWait", "id", "u64">>, <<"UploadBegin", "id?", "u64">>,
     <<"UploadPart", "id", "u32", "bytes">>, <<"UploadFinish", "id", "u32">>,
     <<"DownloadRange", "id", "u64", "u64">>, <<"TransferBegin", "begin">>,
     <<"TransferChunk", "id", "u32", "bytes", "hash">>, <<"TransferInspect", "id">>,
     <<"TransferCommit", "id", "hash">>, <<"TransferAbort", "id", "string">>,
     <<"TransferStreamUpload", "begin", "token">>, <<"TransferStreamDownload", "id", "token">> >>
VoidOut ==
  << <<"Uploaded", "id">>, <<"Downloaded", "bytes">>, <<"TimedOut", "id">>, <<"Ack">>, <<"Error", "string">>,
     <<"Transfer", "record">>, <<"TransferChunkStored", "chunk">> >>

\* Mass keeps copies, which must stay aligned.
MassVoidIn ==
  << <<"Upload", "bytes">>, <<"UploadWith", "id", "bytes">>, <<"Download", "id">>,
     <<"DownloadWait", "id", "u64">>, <<"UploadBegin", "id?", "u64">>,
     <<"UploadPart", "id", "u32", "bytes">>, <<"UploadFinish", "id", "u32">>,
     <<"DownloadRange", "id", "u64", "u64">>, <<"TransferBegin", "begin">>,
     <<"TransferChunk", "id", "u32", "bytes", "hash">>, <<"TransferInspect", "id">>,
     <<"TransferCommit", "id", "hash">>, <<"TransferAbort", "id", "string">>,
     <<"TransferStreamUpload", "begin", "token">>, <<"TransferStreamDownload", "id", "token">> >>
\* Mutant of MassVoidOut: the same of an answer it never gets.
MassVoidOutWithoutPlaceholder ==
  << <<"Uploaded", "id">>, <<"Downloaded", "bytes">>, <<"Ack">>, <<"Error", "string">>,
     <<"Transfer", "record">>, <<"TransferChunkStored", "chunk">> >>
MassVoidOut ==
  << <<"Uploaded", "id">>, <<"Downloaded", "bytes">>, <<"TimedOut", "id">>, <<"Ack">>, <<"Error", "string">>,
     <<"Transfer", "record">>, <<"TransferChunkStored", "chunk">> >>

MassIn ==
  << <<"StartInstance", "u16", "id", "capability", "config?">>, <<"Invoke", "u16", "id", "ref">>,
     <<"BackwardInstance", "u16", "id", "ref">>, <<"StepInstance", "id">>, <<"ResetInstance", "id">>,
     <<"PerturbUpInstance", "id", "u64">>, <<"PerturbDownInstance", "id">>, <<"CheckpointInstance", "id">>,
     <<"OptimizeInstance", "id", "f32", "f32">>, <<"FuseInstance", "id", "id", "f32">>,
     <<"ShutdownInstance", "id">>, <<"QueryInstance", "id">>, <<"QueryInstanceCapacity">>,
     <<"RegisterTunnel", "id", "usize?", "capabilities">>, <<"UpdateTunnelCapacity", "id", "usize?">>,
     <<"TunnelForward", "id", "request">> >>
MassOut ==
  << <<"Ack">>, <<"Invoked", "ref">>, <<"Checkpointed", "id">>, <<"Instance", "config">>,
     <<"InstanceCapacity", "capacity">>, <<"TunnelRegistered", "id">>, <<"Fused", "id">>, <<"Error", "string">> >>

Unreadable == [variant |-> "unreadable"]

\* Lengths in half cells: what surrounds the payload is less than a cell.
Encode(table, variant, args) ==
  LET i == CHOOSE k \in DOMAIN table : table[k][1] = variant
  IN  [index |-> i, types |-> Tail(table[i]), args |-> args,
       len |-> 1 + IF "bytes" \in DOMAIN args THEN 2 * Len(args.bytes) ELSE 0]
Decode(table, frame) ==
  IF frame.index \in DOMAIN table /\ Tail(table[frame.index]) = frame.types
  THEN [variant |-> table[frame.index][1], args |-> frame.args] ELSE Unreadable

\* An end reads frames up to its limit and decodes them with its table.
End(table, limit) == [table |-> table, limit |-> limit]
Reads(end, frame) == IF end.limit # Nothing /\ frame.len > 2 * end.limit THEN Unreadable ELSE Decode(end.table, frame)

VoidEnd     == End(VoidIn, VoidFrameLimit)
MassEnd     == End(MassIn, FrameLimit)
MassVoidEnd == End(MassVoidOut, FrameLimit)
SunVoidEnd  == End(VoidOut, Nothing)
SunMassEnd  == End(MassOut, Nothing)

-----------------------------------------------------------------------------
(* Clients *)

\* A method sends one variant and accepts some answers; named for what it asks for.
Method(variant, accepted) == [variant |-> variant, accepted |-> accepted]
Both(f, g) == [m \in DOMAIN f \cup DOMAIN g |-> IF m \in DOMAIN f THEN f[m] ELSE g[m]]

SunVoidMethods ==
  [upload |-> Method("Upload", {"Uploaded"}), upload_with |-> Method("UploadWith", {"Uploaded"}),
   download |-> Method("Download", {"Downloaded"}),
   download_wait |-> Method("DownloadWait", {"Downloaded", "TimedOut"}),
   transfer_begin |-> Method("TransferBegin", {"InProgress"}),
   transfer_chunk |-> Method("TransferChunk", {"TransferChunkStored"}),
   transfer_inspect |-> Method("TransferInspect", {"InProgress", "Committed", "Aborted"}),
   transfer_commit |-> Method("TransferCommit", {"Committed"}),
   transfer_abort |-> Method("TransferAbort", {"Aborted"}),
   upload_begin |-> Method("UploadBegin", {"Uploaded"}), upload_part |-> Method("UploadPart", {"Ack"}),
   upload_finish |-> Method("UploadFinish", {"Uploaded"}),
   download_range |-> Method("DownloadRange", {"Downloaded"})]

\* The variant that opens a stream upload; what follows on the channel is VoidStream's.
SunStreamMethod  == Method("TransferStreamUpload", {"InProgress"})
MassStreamMethod == Method("TransferStreamUpload", {"InProgress"})

MassVoidMethods ==
  [upload |-> Method("Upload", {"Uploaded"}), download |-> Method("Download", {"Downloaded"}),
   upload_begin |-> Method("UploadBegin", {"Uploaded"}), upload_part |-> Method("UploadPart", {"Ack"}),
   upload_finish |-> Method("UploadFinish", {"Uploaded"}),
   download_range |-> Method("DownloadRange", {"Downloaded"})]

\* For operations with a backward contract; start_backward_operation is start.
BackwardMethods ==
  [start |-> Method("StartInstance", {"Ack"}), backward |-> Method("BackwardInstance", {"Invoked"}),
   step |-> Method("StepInstance", {"Ack"})]

SunMassMethods == Both(BackwardMethods,
  [start |-> Method("StartInstance", {"Ack"}), forward |-> Method("Invoke", {"Invoked"}),
   reset |-> Method("ResetInstance", {"Ack"}), perturb_up |-> Method("PerturbUpInstance", {"Ack"}),
   perturb_down |-> Method("PerturbDownInstance", {"Ack"}), optimize |-> Method("OptimizeInstance", {"Ack"}),
   checkpoint |-> Method("CheckpointInstance", {"Checkpointed"}), fuse |-> Method("FuseInstance", {"Fused"}),
   shutdown |-> Method("ShutdownInstance", {"Ack"}), query |-> Method("QueryInstance", {"Instance"}),
   query_capacity |-> Method("QueryInstanceCapacity", {"InstanceCapacity"})])

\* What a flow calls through the operation traits.
TraitMethods ==
  [f \in {"start", "forward", "shutdown", "reset", "backward", "step", "perturb_up", "perturb_down",
          "optimize", "checkpoint", "fuse"} |-> SunMassMethods[f]]

Client(server, table, end, methods) == [server |-> server, table |-> table, end |-> end, methods |-> methods]
SunVoidClient  == Client("void", VoidIn, SunVoidEnd, Both(SunVoidMethods, [stream_upload |-> SunStreamMethod]))
MassVoidClient == Client("void", MassVoidIn, MassVoidEnd, Both(MassVoidMethods, [stream_upload |-> MassStreamMethod]))
SunMassClient  == Client("mass", MassIn, SunMassEnd, SunMassMethods)
FlowClient     == Client("mass", MassIn, SunMassEnd, TraitMethods)
MassRpcClient  == Client("mass", MassIn, End(MassOut, FrameLimit),
  [register_tunnel |-> Method("RegisterTunnel", {"TunnelRegistered"}),
   update_tunnel_capacity |-> Method("UpdateTunnelCapacity", {"Ack"})])

Clients ==
  [sun_void |-> SunVoidClient, mass_void |-> MassVoidClient, sun_mass |-> SunMassClient, flow |-> FlowClient,
   mass_rpc |-> MassRpcClient]
VoidClients == {"sun_void", "mass_void"}

-----------------------------------------------------------------------------
(* Servers: what each variant is handled by, and how that may answer *)

Handler(does, answers) == [does |-> does, answers |-> answers]

VoidHandlers ==
  [Upload |-> Handler("upload", {"Uploaded"}), UploadWith |-> Handler("upload_with", {"Uploaded"}),
   Download |-> Handler("download", {"Downloaded"}),
   DownloadWait |-> Handler("download_wait", {"Downloaded", "TimedOut"}),
   UploadBegin |-> Handler("upload_begin", {"Uploaded"}), UploadPart |-> Handler("upload_part", {"Ack"}),
   UploadFinish |-> Handler("upload_finish", {"Uploaded"}),
   DownloadRange |-> Handler("download_range", {"Downloaded"}),
   TransferBegin |-> Handler("transfer_begin", {"InProgress"}),
   TransferChunk |-> Handler("transfer_chunk", {"TransferChunkStored"}),
   TransferInspect |-> Handler("transfer_inspect", {"InProgress", "Committed", "Aborted"}),
   TransferCommit |-> Handler("transfer_commit", {"Committed"}),
   TransferAbort |-> Handler("transfer_abort", {"Aborted"}),
   TransferStreamUpload |-> Handler("stream_upload", {"InProgress"})]

MassHandlers ==
  [StartInstance |-> Handler("start", {"Ack"}), Invoke |-> Handler("forward", {"Invoked"}),
   BackwardInstance |-> Handler("backward", {"Invoked"}), StepInstance |-> Handler("step", {"Ack"}),
   ResetInstance |-> Handler("reset", {"Ack"}), PerturbUpInstance |-> Handler("perturb_up", {"Ack"}),
   PerturbDownInstance |-> Handler("perturb_down", {"Ack"}), OptimizeInstance |-> Handler("optimize", {"Ack"}),
   CheckpointInstance |-> Handler("checkpoint", {"Checkpointed"}), FuseInstance |-> Handler("fuse", {"Fused"}),
   ShutdownInstance |-> Handler("shutdown", {"Ack"}), QueryInstance |-> Handler("query", {"Instance"}),
   QueryInstanceCapacity |-> Handler("query_capacity", {"InstanceCapacity"}),
   RegisterTunnel |-> Handler("register_tunnel", {"TunnelRegistered"}),
   UpdateTunnelCapacity |-> Handler("update_tunnel_capacity", {"Ack"})]

RecordKinds == {"InProgress", "Committed", "Aborted"}
Answer(table, kind, args) ==
  IF kind \in RecordKinds THEN Encode(table, "Transfer", [record |-> kind]) ELSE Encode(table, kind, args)
Kind(answer) == IF answer.variant = "Transfer" THEN answer.args.record ELSE answer.variant

-----------------------------------------------------------------------------
(* The Void's handlers, as far as files show *)

NextId == spent.ids + 1
Fresh  == NextId \in ObjectIds

Same(kind, args) == [kind |-> kind, args |-> args, objects |-> objects, uploads |-> uploads]
Refuses == Same("Error", <<>>)
Stores(id, data) == [Same("Uploaded", [id |-> id]) EXCEPT !.objects = [objects EXCEPT ![id] = data]]
Forgets(outcome, id) == [outcome EXCEPT !.uploads = [uploads EXCEPT ![id] = Nothing]]

\* get_range, and the default of the stores that only have get
Slice(data, offset, length) ==
  SubSeq(data, offset + 1, IF offset + length < Len(data) THEN offset + length ELSE Len(data))

DownloadRange(a) ==
  IF a.length = 0 THEN Same("Downloaded", [bytes |-> <<>>])
  ELSE IF objects[a.id] = Nothing THEN Refuses
  ELSE Same("Downloaded", [bytes |-> Slice(objects[a.id], a.offset, a.length)])

UploadFinish(a) ==
  IF a.count = 0 \/ uploads[a.id] = Nothing THEN Refuses
  ELSE IF DOMAIN uploads[a.id] # 1 .. a.count THEN Forgets(Refuses, a.id)
  ELSE Forgets(Stores(a.id, FlattenSeq(uploads[a.id])), a.id)

VoidOutcome(does, a) ==
  CASE does = "upload" -> Stores(NextId, a.bytes)
    [] does = "upload_with" -> Stores(a.id, a.bytes)
    [] does \in {"download", "download_wait"} ->
         IF objects[a.id] # Nothing THEN Same("Downloaded", [bytes |-> objects[a.id]])
         ELSE IF does = "download" THEN Refuses ELSE Same("TimedOut", [id |-> a.id])
    [] does = "upload_begin" -> [Same("Uploaded", [id |-> NextId]) EXCEPT !.uploads = [uploads EXCEPT ![NextId] = <<>>]]
    [] does = "upload_part" ->
         IF uploads[a.id] = Nothing THEN Refuses
         ELSE [Same("Ack", <<>>) EXCEPT !.uploads = [uploads EXCEPT ![a.id] = Both([k \in {a.number} |-> a.bytes], @)]]
    [] does = "upload_finish" -> UploadFinish(a)
    [] does = "download_range" -> DownloadRange(a)

FileWork == {"upload", "upload_with", "download", "download_wait", "upload_begin", "upload_part",
             "upload_finish", "download_range"}
Draws(does) == does \in {"upload", "upload_begin"}
\* A failing store: a part or a finish takes the session with it.
VoidFailure(does, a) ==
  IF does \in {"upload_part", "upload_finish"} /\ uploads[a.id] # Nothing THEN Forgets(Refuses, a.id) ELSE Refuses

Takes(outcome) ==
  /\ objects' = outcome.objects /\ uploads' = outcome.uploads
  /\ UNCHANGED via
  /\ replaced' = replaced \cup {id \in ObjectIds : objects[id] # Nothing /\ outcome.objects[id] # objects[id]}

-----------------------------------------------------------------------------
(* Serving a call *)

Waits(c, at) == call[c] # Nothing /\ call[c].at = at
Server(c)    == Clients[call[c].client].server
Becomes(c, at) == call' = [call EXCEPT ![c].at = at]
Responds(c, frame) == call' = [call EXCEPT ![c] = [@ EXCEPT !.at = "answered", !.frame = frame]]
Errs         == spent.errors < MaxErrors /\ spent' = [spent EXCEPT !.errors = @ + 1]
storage      == <<objects, uploads, replaced, via>>

VoidAccepts(c) ==
  /\ Waits(c, "connecting") /\ Server(c) = "void" /\ Becomes(c, "accepted")
  /\ UNCHANGED <<task, left, executed, storage, stopped, spent>>
MassAccepts(c) ==
  /\ Waits(c, "connecting") /\ Server(c) = "mass" /\ ~stopped /\ Becomes(c, "accepted")
  /\ UNCHANGED <<task, left, executed, storage, stopped, spent>>

\* The handler runs to its answer.  What transfers answer depends on their
\* records (VoidTransfer).
VoidRuns(c, request) ==
  LET handler == VoidHandlers[request.variant]  does == handler.does IN
  /\ executed' = [executed EXCEPT ![c] = does]
  /\ \/ /\ does \in FileWork /\ (Draws(does) => Fresh)
        /\ LET outcome == VoidOutcome(does, request.args) IN
             Takes(outcome) /\ Responds(c, Answer(VoidOut, outcome.kind, outcome.args))
        /\ spent' = IF Draws(does) THEN [spent EXCEPT !.ids = @ + 1] ELSE spent
     \/ /\ does \in FileWork /\ Errs
        /\ Takes(VoidFailure(does, request.args)) /\ Responds(c, Answer(VoidOut, "Error", <<>>))
     \/ /\ does \notin FileWork
        /\ \E kind \in handler.answers \cup {"Error"} : Responds(c, Answer(VoidOut, kind, <<>>))
        /\ UNCHANGED <<storage, spent>>
  /\ UNCHANGED <<task, left, stopped>>

\* A frame that cannot be read ends the stream, or the connection, without an answer.
VoidHangsUp(c) == Becomes(c, "ended") /\ UNCHANGED <<task, left, executed, storage, stopped, spent>>

VoidServes(c) ==
  LET request == Reads(VoidEnd, call[c].frame) IN
  IF request = Unreadable THEN VoidHangsUp(c) ELSE VoidRuns(c, request)

VoidStream(c) == Waits(c, "accepted") /\ Server(c) = "void" /\ via = "quic" /\ VoidServes(c)
VoidTcp(c)    == Waits(c, "accepted") /\ Server(c) = "void" /\ via = "tcp" /\ VoidServes(c)

MassRuns(c, request) ==
  LET handler == MassHandlers[request.variant] IN
  /\ \E kind \in handler.answers \cup {"Error"} : Responds(c, Answer(MassOut, kind, <<>>))
  /\ executed' = [executed EXCEPT ![c] = handler.does]
  /\ UNCHANGED <<task, left, storage, stopped, spent>>

\* Over QUIC an unreadable frame is answered; over TCP the connection ends.
MassStream(c) ==
  /\ Waits(c, "accepted") /\ Server(c) = "mass" /\ via = "quic"
  /\ LET request == Reads(MassEnd, call[c].frame) IN
     IF request # Unreadable THEN MassRuns(c, request)
     ELSE /\ Responds(c, Answer(MassOut, "Error", <<>>))
          /\ UNCHANGED <<task, left, executed, storage, stopped, spent>>

MassTcp(c) ==
  /\ Waits(c, "accepted") /\ Server(c) = "mass" /\ via = "tcp"
  /\ LET request == Reads(MassEnd, call[c].frame) IN
     IF request # Unreadable THEN MassRuns(c, request)
     ELSE Becomes(c, "ended") /\ UNCHANGED <<task, left, executed, storage, stopped, spent>>

\* Mass stops: nothing more is accepted and QUIC connections are closed, while
\* TCP connections go on being served.
MassStops ==
  /\ ~stopped /\ stopped' = TRUE /\ \E c \in Callers : call[c] # Nothing /\ Server(c) = "mass"
  /\ call' = [c \in Callers |->
       IF Waits(c, "accepted") /\ Server(c) = "mass" /\ via = "quic" THEN [call[c] EXCEPT !.at = "ended"] ELSE call[c]]
  /\ UNCHANGED <<task, left, executed, storage, spent>>

\* A request whose caller is gone runs all the same.
RunsLeft(request) ==
  LET does == VoidHandlers[request.variant].does  outcome == VoidOutcome(does, request.args) IN
  /\ request \in left /\ left' = left \ {request}
  /\ Draws(does) => Fresh
  /\ Takes(outcome)
  /\ spent' = IF Draws(does) THEN [spent EXCEPT !.ids = @ + 1] ELSE spent
  /\ UNCHANGED <<task, call, executed, stopped>>

-----------------------------------------------------------------------------
(* Callers *)

Sends(c, client, method, args) ==
  /\ call' = [call EXCEPT ![c] =
       [client |-> client, method |-> method, at |-> "connecting",
        frame |-> Encode(Clients[client].table, Clients[client].methods[method].variant, args)]]
  /\ executed' = [executed EXCEPT ![c] = Nothing]

Ends(c, record) ==
  /\ task' = [task EXCEPT ![c] = record] /\ call' = [call EXCEPT ![c] = Nothing]
  /\ executed' = [executed EXCEPT ![c] = Nothing]

File(n) == [i \in 1 .. n |-> <<n, i>>]
\* What is stored is something.
ASSUME FilesAssumption == \A n \in FileSizes \cup {StoredSize} : File(n) # Nothing

Known   == 1 .. spent.ids

Begins(c) == call[c] = Nothing /\ spent.tasks < MaxTasks /\ spent' = [spent EXCEPT !.tasks = @ + 1]
Sets(c, record) == task' = [task EXCEPT ![c] = record]

\* One call of one method.
ArgsOf(variant) ==
  CASE variant = "Upload" -> {[bytes |-> File(n)] : n \in FileSizes}
    [] variant = "UploadWith" -> {[id |-> i, bytes |-> File(n)] : i \in Known, n \in FileSizes}
    [] variant \in {"Download", "DownloadWait"} -> {[id |-> i] : i \in Known}
Singly(client) == DOMAIN Clients[client].methods \ {"upload_begin", "upload_part", "upload_finish", "download_range"}

CallOnce(c, client) ==
  \E m \in Singly(client) \cap FileWork : \E args \in ArgsOf(Clients[client].methods[m].variant) :
    /\ Begins(c) /\ Sets(c, [job |-> "once", end |-> Nothing]) /\ Sends(c, client, m, args)
    /\ UNCHANGED <<left, storage, stopped>>

\* A call that has nothing to do with files: bounded to behaviours without them.
CallAlone(c, client) ==
  \E m \in Singly(client) \ FileWork :
    /\ call[c] = Nothing /\ spent.tasks = 0 /\ spent' = [spent EXCEPT !.tasks = MaxTasks]
    /\ Sets(c, [job |-> "once", end |-> Nothing]) /\ Sends(c, client, m, <<>>)
    /\ UNCHANGED <<left, storage, stopped>>

\* upload_file: in one frame when it fits, in parts otherwise.
UploadFile(c, client) ==
  \E n \in FileSizes :
    /\ Begins(c) /\ Sets(c, [job |-> "put", file |-> n, part |-> 1, sent |-> 0, end |-> Nothing])
    /\ IF n <= FrameLimit THEN Sends(c, client, "upload", [bytes |-> File(n)])
       ELSE Sends(c, client, "upload_begin", [total |-> n])
    /\ UNCHANGED <<left, storage, stopped>>

\* Mutant of UploadPart: a part starts where its number says, as if every read filled it.
UploadPartByNumber(c, id) ==
  LET t == task[c]  me == call[c] IN
  \/ \E k \in 1 .. (IF t.file - t.sent < PartLen THEN t.file - t.sent ELSE PartLen) :
       /\ Sends(c, me.client, "upload_part",
                   [id |-> id, number |-> t.part, bytes |-> Slice(File(t.file), (t.part - 1) * PartLen, k)])
       /\ Sets(c, [job |-> "put", file |-> t.file, part |-> t.part + 1, sent |-> t.sent + k, end |-> Nothing, id |-> id])
  \/ /\ t.sent = t.file /\ UNCHANGED task
     /\ Sends(c, me.client, "upload_finish", [id |-> id, count |-> t.part - 1])

\* A read of the file returns up to a part; nothing at its end.
UploadPart(c, id) ==
  LET t == task[c]  me == call[c] IN
  \/ \E k \in 1 .. (IF t.file - t.sent < PartLen THEN t.file - t.sent ELSE PartLen) :
       /\ Sends(c, me.client, "upload_part",
                   [id |-> id, number |-> t.part, bytes |-> Slice(File(t.file), t.sent, k)])
       /\ Sets(c, [job |-> "put", file |-> t.file, part |-> t.part + 1, sent |-> t.sent + k, end |-> Nothing, id |-> id])
  \/ /\ t.sent = t.file /\ UNCHANGED task
     /\ Sends(c, me.client, "upload_finish", [id |-> id, count |-> t.part - 1])

\* download_to_file: ranges until one comes back empty or short.
DownloadToFile(c, client) ==
  \E id \in Known :
    /\ Begins(c) /\ Sets(c, [job |-> "get", id |-> id, data |-> <<>>, end |-> Nothing])
    /\ Sends(c, client, "download_range", [id |-> id, offset |-> 0, length |-> PartLen])
    /\ UNCHANGED <<left, storage, stopped>>

DownloadMore(c, data) ==
  LET t == task[c]  me == call[c]  all == t.data \o data IN
  IF Len(data) < PartLen
  THEN Ends(c, [t EXCEPT !.data = all, !.end = "ok"])
  ELSE /\ Sets(c, [t EXCEPT !.data = all])
       /\ Sends(c, me.client, "download_range", [id |-> t.id, offset |-> Len(all), length |-> PartLen])

\* How a call ends: with an answer its method accepts, an error, or another answer.
Response(c) == Reads(Clients[call[c].client].end, call[c].frame)
Verdict(c) ==
  LET r == Response(c) IN
  IF call[c].at = "ended" \/ r = Unreadable \/ r.variant = "Error" THEN "error"
  ELSE IF Kind(r) \in Clients[call[c].client].methods[call[c].method].accepted THEN "ok" ELSE "unexpected"

Ended(c) == Waits(c, "answered") \/ Waits(c, "ended")

Fails(c) ==
  /\ Ended(c) /\ Verdict(c) # "ok" /\ Ends(c, [task[c] EXCEPT !.end = Verdict(c)])
  /\ UNCHANGED <<left, storage, stopped, spent>>

Continues(c) ==
  LET m == call[c].method  args == Response(c).args IN
  /\ Ended(c) /\ Verdict(c) = "ok"
  /\ \/ m = "download_range" /\ DownloadMore(c, args.bytes)
     \/ m = "upload_begin" /\ UploadPart(c, args.id)
     \/ m = "upload_part" /\ UploadPart(c, task[c].id)
     \/ /\ m \notin {"download_range", "upload_begin", "upload_part"}
        /\ Ends(c, IF task[c].job = "put" THEN [job |-> "put", file |-> task[c].file, id |-> args.id, end |-> "ok"]
                   ELSE [job |-> "once", end |-> "ok"])
  /\ UNCHANGED <<left, storage, stopped, spent>>

\* The connection breaks, or is refused.
Breaks(c) ==
  /\ call[c] # Nothing /\ call[c].at # "ended" /\ Errs /\ Becomes(c, "ended")
  /\ UNCHANGED <<task, left, executed, storage, stopped>>
Refused(c) ==
  /\ Waits(c, "connecting") /\ Server(c) = "mass" /\ stopped /\ Becomes(c, "ended")
  /\ UNCHANGED <<task, left, executed, storage, stopped, spent>>

\* The caller drops its call; a request already sent may be handled or not.
GoesAway(c) ==
  /\ call[c] # Nothing /\ Errs /\ Ends(c, [job |-> "gone", end |-> Nothing])
  /\ LET request == Reads(VoidEnd, call[c].frame) IN
     \/ left' = left
     \/ /\ call[c].at \in {"connecting", "accepted"} /\ Server(c) = "void" /\ request # Unreadable
        /\ VoidHandlers[request.variant].does \in FileWork /\ left' = left \cup {request}
  /\ UNCHANGED <<storage, stopped>>

-----------------------------------------------------------------------------
\* A file was stored before.
CallsInit ==
  /\ task = [c \in Callers |-> [job |-> "none", end |-> Nothing]] /\ call = [c \in Callers |-> Nothing]
  /\ left = {} /\ executed = [c \in Callers |-> Nothing]
  /\ objects = [i \in ObjectIds |-> IF i = 1 THEN File(StoredSize) ELSE Nothing]
  /\ uploads = [i \in ObjectIds |-> Nothing] /\ replaced = {}
  /\ via \in {"quic", "tcp"} /\ stopped = FALSE /\ spent = [tasks |-> 0, errors |-> 0, ids |-> 1]

CallsNext ==
  \/ \E c \in Callers :
       \/ \E client \in DOMAIN Clients : CallOnce(c, client) \/ CallAlone(c, client)
       \/ \E client \in VoidClients : UploadFile(c, client) \/ DownloadToFile(c, client)
       \/ VoidAccepts(c) \/ MassAccepts(c) \/ VoidStream(c) \/ VoidTcp(c) \/ MassStream(c) \/ MassTcp(c)
       \/ Continues(c) \/ Fails(c) \/ Breaks(c) \/ Refused(c) \/ GoesAway(c)
  \/ \E request \in left : RunsLeft(request)
  \/ MassStops

CallsSpec == CallsInit /\ [][CallsNext]_callVars

-----------------------------------------------------------------------------
(* Properties *)

\* Both ends mean the same by every call, though each has tables of its own: a
\* handler that ran is the one its caller asked for, a frame that cannot be read is
\* longer than its reader allows, no call ends in an answer its method does not
\* know, and one that ends well was handled.
TooLong(end, frame) == end.limit # Nothing /\ frame.len > 2 * end.limit
CallsMeanTheSame ==
  \A c \in Callers :
    /\ task[c].end # "unexpected"
    /\ call[c] # Nothing => executed[c] \in {Nothing, call[c].method}
    /\ Waits(c, "accepted") =>
         LET end == IF Server(c) = "void" THEN VoidEnd ELSE MassEnd
         IN  Reads(end, call[c].frame) = Unreadable => TooLong(end, call[c].frame)
    /\ Waits(c, "answered") =>
         /\ Response(c) = Unreadable => TooLong(Clients[call[c].client].end, call[c].frame)
         /\ Verdict(c) = "ok" => executed[c] = call[c].method

\* An object is a whole file, and a file downloaded by ranges is the object, unless
\* it was replaced meanwhile: whatever the lengths of the file and of the parts read,
\* whoever goes away and whatever fails.
FilesComeBackWhole ==
  /\ \A id \in ObjectIds : objects[id] # Nothing => objects[id] = File(Len(objects[id]))
  /\ \A c \in Callers : task[c].end = "ok" /\ task[c].job = "put" /\ task[c].id \notin replaced =>
       objects[task[c].id] = File(task[c].file)
  /\ \A c \in Callers : task[c].end = "ok" /\ task[c].job = "get" /\ task[c].id \notin replaced =>
       task[c].data = objects[task[c].id]
=============================================================================
