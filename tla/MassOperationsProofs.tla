------------------------ MODULE MassOperationsProofs ------------------------
(***************************************************************************)
(* Theorems about RemoteCalls and about MassOperations, for every value of *)
(* their constants.  First the calls: any number of callers, files and     *)
(* failures, and any limits of a frame.  Then what the calls to Mass do:   *)
(* any number of ids, requests, contracts, inputs, answers and failures,   *)
(* and frames of any tensors.                                              *)
(***************************************************************************)
EXTENDS MassOperations, RemoteCalls, SequenceTheorems, FiniteSetTheorems, WellFoundedInduction, TLAPS

----------------------------------------------------------------------------
(* The tables                                                              *)

Handlers(server)     == IF server = "void" THEN VoidHandlers ELSE MassHandlers
RequestTable(server) == IF server = "void" THEN VoidIn ELSE MassIn
AnswerTable(server)  == IF server = "void" THEN VoidOut ELSE MassOut

\* What the two servers answer, a transfer's record by what it says.
VoidKinds == {"Uploaded", "Downloaded", "TimedOut", "Ack", "Error", "TransferChunkStored"} \cup RecordKinds
MassKinds == {"Ack", "Invoked", "Checkpointed", "Instance", "InstanceCapacity", "TunnelRegistered", "Fused", "Error"}
Kinds(server) == IF server = "void" THEN VoidKinds ELSE MassKinds

\* Each method asks for a handler of its own name, and knows its answers.
Understood(server, methods) ==
  \A m \in DOMAIN methods :
    /\ methods[m].variant \in DOMAIN Handlers(server)
    /\ Handlers(server)[methods[m].variant].does = m
    /\ Handlers(server)[methods[m].variant].answers \subseteq methods[m].accepted

LEMMA CopiesAgree == MassVoidIn = VoidIn /\ MassVoidOut = VoidOut
  BY DEF VoidIn, MassVoidIn, VoidOut, MassVoidOut

LEMMA VoidRequestsNamed == \A v \in DOMAIN VoidHandlers : \E k \in DOMAIN VoidIn : VoidIn[k][1] = v
<1>1. /\ DOMAIN VoidIn = 1..15
      /\ VoidIn[1][1] = "Upload" /\ VoidIn[2][1] = "UploadWith" /\ VoidIn[3][1] = "Download"
      /\ VoidIn[4][1] = "DownloadWait" /\ VoidIn[5][1] = "UploadBegin" /\ VoidIn[6][1] = "UploadPart"
      /\ VoidIn[7][1] = "UploadFinish" /\ VoidIn[8][1] = "DownloadRange" /\ VoidIn[9][1] = "TransferBegin"
      /\ VoidIn[10][1] = "TransferChunk" /\ VoidIn[11][1] = "TransferInspect"
      /\ VoidIn[12][1] = "TransferCommit" /\ VoidIn[13][1] = "TransferAbort"
      /\ VoidIn[14][1] = "TransferStreamUpload"
  BY DEF VoidIn
<1>2. DOMAIN VoidHandlers =
        {"Upload", "UploadWith", "Download", "DownloadWait", "UploadBegin", "UploadPart", "UploadFinish",
         "DownloadRange", "TransferBegin", "TransferChunk", "TransferInspect", "TransferCommit",
         "TransferAbort", "TransferStreamUpload"}
  BY DEF VoidHandlers
<1>3. QED
  BY <1>1, <1>2

LEMMA MassRequestsNamed == \A v \in DOMAIN MassHandlers : \E k \in DOMAIN MassIn : MassIn[k][1] = v
<1>1. /\ DOMAIN MassIn = 1..16
      /\ MassIn[1][1] = "StartInstance" /\ MassIn[2][1] = "Invoke" /\ MassIn[3][1] = "BackwardInstance"
      /\ MassIn[4][1] = "StepInstance" /\ MassIn[5][1] = "ResetInstance"
      /\ MassIn[6][1] = "PerturbUpInstance" /\ MassIn[7][1] = "PerturbDownInstance"
      /\ MassIn[8][1] = "CheckpointInstance" /\ MassIn[9][1] = "OptimizeInstance"
      /\ MassIn[10][1] = "FuseInstance" /\ MassIn[11][1] = "ShutdownInstance"
      /\ MassIn[12][1] = "QueryInstance" /\ MassIn[13][1] = "QueryInstanceCapacity"
      /\ MassIn[14][1] = "RegisterTunnel" /\ MassIn[15][1] = "UpdateTunnelCapacity"
  BY DEF MassIn
<1>2. DOMAIN MassHandlers =
        {"StartInstance", "Invoke", "BackwardInstance", "StepInstance", "ResetInstance", "PerturbUpInstance",
         "PerturbDownInstance", "CheckpointInstance", "OptimizeInstance", "FuseInstance", "ShutdownInstance",
         "QueryInstance", "QueryInstanceCapacity", "RegisterTunnel", "UpdateTunnelCapacity"}
  BY DEF MassHandlers
<1>3. QED
  BY <1>1, <1>2

LEMMA VoidAnswersNamed ==
  \A kind \in (VoidKinds \ RecordKinds) \cup {"Transfer"} : \E k \in DOMAIN VoidOut : VoidOut[k][1] = kind
<1>1. /\ DOMAIN VoidOut = 1..7
      /\ VoidOut[1][1] = "Uploaded" /\ VoidOut[2][1] = "Downloaded" /\ VoidOut[3][1] = "TimedOut"
      /\ VoidOut[4][1] = "Ack" /\ VoidOut[5][1] = "Error" /\ VoidOut[6][1] = "Transfer"
      /\ VoidOut[7][1] = "TransferChunkStored"
  BY DEF VoidOut
<1>2. QED
  BY <1>1 DEF VoidKinds

LEMMA MassAnswersNamed == \A kind \in MassKinds : \E k \in DOMAIN MassOut : MassOut[k][1] = kind
<1>1. /\ DOMAIN MassOut = 1..8
      /\ MassOut[1][1] = "Ack" /\ MassOut[2][1] = "Invoked" /\ MassOut[3][1] = "Checkpointed"
      /\ MassOut[4][1] = "Instance" /\ MassOut[5][1] = "InstanceCapacity"
      /\ MassOut[6][1] = "TunnelRegistered" /\ MassOut[7][1] = "Fused" /\ MassOut[8][1] = "Error"
  BY DEF MassOut
<1>2. QED
  BY <1>1 DEF MassKinds

\* What is encoded under a name of a table is decoded by it.
LEMMA Decoded ==
  ASSUME NEW T, NEW v, NEW args, \E k \in DOMAIN T : T[k][1] = v
  PROVE  Decode(T, Encode(T, v, args)) = [variant |-> v, args |-> args]
  BY DEF Decode, Encode

LEMMA RequestDecoded ==
  ASSUME NEW server, NEW v \in DOMAIN Handlers(server), NEW args
  PROVE  /\ Decode(RequestTable(server), Encode(RequestTable(server), v, args)) = [variant |-> v, args |-> args]
         /\ [variant |-> v, args |-> args] # Unreadable
<1>1. \E k \in DOMAIN RequestTable(server) : RequestTable(server)[k][1] = v
  BY VoidRequestsNamed, MassRequestsNamed DEF Handlers, RequestTable
<1>2. v # "unreadable"
  BY DEF Handlers, VoidHandlers, MassHandlers
<1>3. [variant |-> v, args |-> args].variant # Unreadable.variant
  BY <1>2 DEF Unreadable
<1>4. QED
  BY <1>1, <1>3, Decoded

\* An answer says its kind to whoever reads it.
LEMMA AnswerDecoded ==
  ASSUME NEW server, NEW kind \in Kinds(server), NEW args,
         NEW d, d = Decode(AnswerTable(server), Answer(AnswerTable(server), kind, args))
  PROVE  d # Unreadable /\ Kind(d) = kind /\ (d.variant = "Error" <=> kind = "Error")
<1>1. CASE kind \in RecordKinds
  <2>1. server = "void"
    BY <1>1 DEF Kinds, MassKinds, RecordKinds
  <2>2. d = [variant |-> "Transfer", args |-> [record |-> kind]]
    BY <1>1, <2>1, VoidAnswersNamed, Decoded DEF AnswerTable, Answer
  <2>3. d.variant = "Transfer" /\ d.args.record = kind /\ Unreadable.variant = "unreadable"
    BY <2>2 DEF Unreadable
  <2>4. QED
    BY <1>1, <2>3 DEF Kind, RecordKinds
<1>2. CASE kind \notin RecordKinds
  <2>1. d = [variant |-> kind, args |-> args]
    BY <1>2, VoidAnswersNamed, MassAnswersNamed, Decoded DEF AnswerTable, Answer, Kinds
  <2>2. d.variant = kind /\ Unreadable.variant = "unreadable"
    BY <2>1 DEF Unreadable
  <2>3. kind # "Transfer" /\ kind # "unreadable"
    BY <1>2 DEF Kinds, VoidKinds, MassKinds
  <2>4. QED
    BY <2>2, <2>3 DEF Kind
<1>3. QED
  BY <1>1, <1>2

LEMMA HandlersAnswer ==
  ASSUME NEW server, NEW v \in DOMAIN Handlers(server)
  PROVE  Handlers(server)[v].answers \subseteq Kinds(server)
  BY DEF Handlers, VoidHandlers, MassHandlers, Handler, Kinds, VoidKinds, MassKinds, RecordKinds

----------------------------------------------------------------------------
(* The clients                                                             *)

\* The client and its server mean the same by each method and by each answer.
Agreed(client) ==
  /\ client.server \in {"void", "mass"}
  /\ client.table = RequestTable(client.server)
  /\ client.end.table = AnswerTable(client.server)
  /\ Understood(client.server, client.methods)

LEMMA SunVoidUnderstood == Understood("void", SunVoidMethods)
  BY DEF Understood, Handlers, SunVoidMethods, VoidHandlers, Method, Handler

LEMMA MassVoidUnderstood == Understood("void", MassVoidMethods)
  BY DEF Understood, Handlers, MassVoidMethods, VoidHandlers, Method, Handler

LEMMA StreamsUnderstood ==
  /\ Understood("void", [stream_upload |-> SunStreamMethod])
  /\ Understood("void", [stream_upload |-> MassStreamMethod])
  BY DEF Understood, Handlers, SunStreamMethod, MassStreamMethod, VoidHandlers, Method, Handler

LEMMA BackwardUnderstood == Understood("mass", BackwardMethods)
  BY DEF Understood, Handlers, BackwardMethods, MassHandlers, Method, Handler

LEMMA BothUnderstood ==
  ASSUME NEW server, NEW f, NEW g, Understood(server, f), Understood(server, g)
  PROVE  Understood(server, Both(f, g))
<1>1. DOMAIN Both(f, g) = DOMAIN f \cup DOMAIN g
  BY DEF Both
<1>2. \A m \in DOMAIN Both(f, g) : Both(f, g)[m] = IF m \in DOMAIN f THEN f[m] ELSE g[m]
  BY DEF Both
<1>3. QED
  BY <1>1, <1>2 DEF Understood

LEMMA SunMassUnderstood == Understood("mass", SunMassMethods)
<1> DEFINE others ==
  [start |-> Method("StartInstance", {"Ack"}), forward |-> Method("Invoke", {"Invoked"}),
   reset |-> Method("ResetInstance", {"Ack"}), perturb_up |-> Method("PerturbUpInstance", {"Ack"}),
   perturb_down |-> Method("PerturbDownInstance", {"Ack"}), optimize |-> Method("OptimizeInstance", {"Ack"}),
   checkpoint |-> Method("CheckpointInstance", {"Checkpointed"}), fuse |-> Method("FuseInstance", {"Fused"}),
   shutdown |-> Method("ShutdownInstance", {"Ack"}), query |-> Method("QueryInstance", {"Instance"}),
   query_capacity |-> Method("QueryInstanceCapacity", {"InstanceCapacity"})]
<1>1. Understood("mass", others)
  BY DEF Understood, Handlers, MassHandlers, Method, Handler
<1>2. SunMassMethods = Both(BackwardMethods, others)
  BY DEF SunMassMethods
<1>3. QED
  BY <1>1, <1>2, BackwardUnderstood, BothUnderstood

LEMMA TraitsUnderstood == Understood("mass", TraitMethods)
<1>1. \A m \in DOMAIN TraitMethods : m \in DOMAIN SunMassMethods /\ TraitMethods[m] = SunMassMethods[m]
  BY DEF TraitMethods, SunMassMethods, BackwardMethods, Both
<1>2. QED
  BY <1>1, SunMassUnderstood DEF Understood

LEMMA ClientsAgree == \A client \in DOMAIN Clients : Agreed(Clients[client])
<1>1. Agreed(SunVoidClient)
  BY SunVoidUnderstood, StreamsUnderstood, BothUnderstood
     DEF Agreed, SunVoidClient, Client, SunVoidEnd, End, RequestTable, AnswerTable
<1>2. Agreed(MassVoidClient)
  BY MassVoidUnderstood, StreamsUnderstood, BothUnderstood, CopiesAgree
     DEF Agreed, MassVoidClient, Client, MassVoidEnd, End, RequestTable, AnswerTable
<1>3. Agreed(SunMassClient) /\ Agreed(FlowClient)
  BY SunMassUnderstood, TraitsUnderstood
     DEF Agreed, SunMassClient, FlowClient, Client, SunMassEnd, End, RequestTable, AnswerTable
<1>4. Agreed(MassRpcClient)
  BY DEF Agreed, MassRpcClient, Client, End, RequestTable, AnswerTable, Understood, Handlers, MassHandlers,
         Method, Handler
<1>5. QED
  BY <1>1, <1>2, <1>3, <1>4 DEF Clients

----------------------------------------------------------------------------
(* The calls                                                               *)

MethodOf(f)  == Clients[f.client].methods[f.method]
ServerOf(f)  == Clients[f.client].server
Request(f, args)      == Encode(Clients[f.client].table, MethodOf(f).variant, args)
Reply(f, kind, args)  == Answer(AnswerTable(ServerOf(f)), kind, args)

\* A call f and the handler that ran: the frame is the method's request until it was
\* handled, then an answer the method knows or an error.
OnItsWay(f, ran) ==
  /\ f = [client |-> f.client, method |-> f.method, at |-> f.at, frame |-> f.frame]
  /\ f.client \in DOMAIN Clients /\ f.method \in DOMAIN Clients[f.client].methods
  /\ ran \in {Nothing, f.method}
  /\ f.at \in {"connecting", "accepted"} => \E args : f.frame = Request(f, args)
  /\ f.at = "answered" =>
       \E kind \in MethodOf(f).accepted \cup {"Error"} : \E args :
         /\ kind \in Kinds(ServerOf(f)) /\ f.frame = Reply(f, kind, args)
         /\ kind = "Error" \/ ran = f.method

TaskKept(t) == "end" \in DOMAIN t /\ t.end # "unexpected"

CallsInv ==
  /\ call = [c \in Callers |-> call[c]] /\ task = [c \in Callers |-> task[c]]
  /\ executed = [c \in Callers |-> executed[c]]
  /\ \A c \in Callers : TaskKept(task[c]) /\ (call[c] # Nothing => OnItsWay(call[c], executed[c]))

\* One caller's call moves.
LEMMA OneCallMoves ==
  ASSUME CallsInv, NEW c \in Callers, NEW f, NEW ran, NEW t,
         call' = [call EXCEPT ![c] = f], executed' = [executed EXCEPT ![c] = ran],
         task' = [task EXCEPT ![c] = t],
         TaskKept(t), f # Nothing => OnItsWay(f, ran)
  PROVE  CallsInv'
<1>1. /\ call' = [d \in Callers |-> IF d = c THEN f ELSE call[d]]
      /\ executed' = [d \in Callers |-> IF d = c THEN ran ELSE executed[d]]
      /\ task' = [d \in Callers |-> IF d = c THEN t ELSE task[d]]
  BY DEF CallsInv
<1>2. call' = [d \in Callers |-> call'[d]] /\ task' = [d \in Callers |-> task'[d]]
      /\ executed' = [d \in Callers |-> executed'[d]]
  BY <1>1
<1>3. ASSUME NEW d \in Callers
      PROVE  TaskKept(task'[d]) /\ (call'[d] # Nothing => OnItsWay(call'[d], executed'[d]))
  <2>1. CASE d = c
    BY <1>1, <2>1
  <2>2. CASE d # c
    BY <1>1, <2>2 DEF CallsInv
  <2>3. QED
    BY <2>1, <2>2
<1>4. QED
  BY <1>2, <1>3 DEF CallsInv

\* It is accepted, or ends without an answer.
LEMMA Moved ==
  ASSUME CallsInv, NEW c \in Callers, NEW at \in {"accepted", "ended"}, call[c] # Nothing,
         at = "accepted" => call[c].at = "connecting",
         Becomes(c, at), UNCHANGED <<task, executed>>
  PROVE  CallsInv'
<1> DEFINE f == [client |-> call[c].client, method |-> call[c].method, at |-> at, frame |-> call[c].frame]
<1>1. OnItsWay(call[c], executed[c]) /\ TaskKept(task[c])
  BY DEF CallsInv
<1>2. [call[c] EXCEPT !.at = at] = f
  BY <1>1 DEF OnItsWay
<1>3. f.client = call[c].client /\ f.method = call[c].method /\ f.at = at /\ f.frame = call[c].frame
  OBVIOUS
<1>4. f = [client |-> f.client, method |-> f.method, at |-> f.at, frame |-> f.frame]
  OBVIOUS
<1> HIDE DEF f
<1>5. OnItsWay(f, executed[c])
  BY <1>1, <1>3, <1>4 DEF OnItsWay, Request, MethodOf
<1>6. call' = [call EXCEPT ![c] = f] /\ executed' = [executed EXCEPT ![c] = executed[c]]
      /\ task' = [task EXCEPT ![c] = task[c]]
  BY <1>2 DEF Becomes, CallsInv
<1>7. QED
  BY <1>1, <1>5, <1>6, OneCallMoves

\* It is answered.
LEMMA AnsweredKeeps ==
  ASSUME CallsInv, NEW c \in Callers, call[c] # Nothing, NEW ran \in {executed[c], call[c].method},
         NEW kind \in MethodOf(call[c]).accepted \cup {"Error"}, NEW args,
         kind \in Kinds(Server(c)), kind = "Error" \/ ran = call[c].method,
         Responds(c, Answer(AnswerTable(Server(c)), kind, args)),
         executed' = [executed EXCEPT ![c] = ran], UNCHANGED task
  PROVE  CallsInv'
<1> DEFINE frame == Answer(AnswerTable(Server(c)), kind, args)
           f == [client |-> call[c].client, method |-> call[c].method, at |-> "answered", frame |-> frame]
<1>1. OnItsWay(call[c], executed[c]) /\ TaskKept(task[c])
  BY DEF CallsInv
<1>2. call' = [call EXCEPT ![c] = f]
  <2> DEFINE g == [call[c] EXCEPT !.at = "answered", !.frame = frame]
  <2>1. call' = [call EXCEPT ![c] = g]
    BY DEF Responds
  <2>2. g = f
    <3>1. call[c] = [x \in {"client", "method", "at", "frame"} |-> call[c][x]]
      BY <1>1 DEF OnItsWay
    <3>2. g = [x \in {"client", "method", "at", "frame"} |-> g[x]]
      BY <3>1
    <3>3. g.client = call[c].client
      BY <3>1
    <3>4. g.method = call[c].method
      BY <3>1
    <3>5. g.at = "answered"
      BY <3>1
    <3>6. g.frame = frame
      BY <3>1
    <3> HIDE DEF g
    <3>7. QED
      BY <3>2, <3>3, <3>4, <3>5, <3>6
  <2> HIDE DEF f, g
  <2>3. QED
    BY <2>1, <2>2
<1>3. f.client = call[c].client /\ f.method = call[c].method /\ f.at = "answered" /\ f.frame = frame
  OBVIOUS
<1>4. f = [client |-> f.client, method |-> f.method, at |-> f.at, frame |-> f.frame]
  OBVIOUS
<1> HIDE DEF f
<1>5. f.frame = Reply(f, kind, args) /\ ServerOf(f) = Server(c) /\ MethodOf(f) = MethodOf(call[c])
  BY <1>3 DEF Reply, ServerOf, MethodOf, Server
<1> HIDE DEF frame
<1>6. OnItsWay(f, ran)
  BY <1>1, <1>3, <1>4, <1>5 DEF OnItsWay
<1>7. task' = [task EXCEPT ![c] = task[c]]
  BY DEF CallsInv
<1>8. QED
  BY <1>1, <1>2, <1>6, <1>7, OneCallMoves

\* A new call is sent, by a caller that goes on with its task or begins one.
LEMMA SentKeeps ==
  ASSUME CallsInv, NEW c \in Callers, NEW client \in DOMAIN Clients,
         NEW method \in DOMAIN Clients[client].methods, NEW args, NEW t, TaskKept(t),
         Sends(c, client, method, args), task' = [task EXCEPT ![c] = t]
  PROVE  CallsInv'
<1> DEFINE f == [client |-> client, method |-> method, at |-> "connecting",
                 frame |-> Encode(Clients[client].table, Clients[client].methods[method].variant, args)]
<1>1. call' = [call EXCEPT ![c] = f] /\ executed' = [executed EXCEPT ![c] = Nothing]
  BY DEF Sends
<1>2. /\ f.client = client /\ f.method = method /\ f.at = "connecting"
      /\ f.frame = Encode(Clients[client].table, Clients[client].methods[method].variant, args)
  OBVIOUS
<1>3. f = [client |-> f.client, method |-> f.method, at |-> f.at, frame |-> f.frame]
  OBVIOUS
<1> HIDE DEF f
<1>4. OnItsWay(f, Nothing)
  BY <1>2, <1>3 DEF OnItsWay, Request, MethodOf
<1>5. QED
  BY <1>1, <1>4, OneCallMoves

\* A call is over.
LEMMA OverKeeps ==
  ASSUME CallsInv, NEW c \in Callers, NEW t, TaskKept(t), Ends(c, t)
  PROVE  CallsInv'
<1>1. /\ call' = [call EXCEPT ![c] = Nothing] /\ executed' = [executed EXCEPT ![c] = Nothing]
      /\ task' = [task EXCEPT ![c] = t]
  BY DEF Ends
<1>2. QED
  BY <1>1, OneCallMoves

\* What a server makes of a request, and a client of an answer.
LEMMA RequestRead ==
  ASSUME CallsInv, NEW c \in Callers, call[c] # Nothing, call[c].at \in {"connecting", "accepted"},
         NEW end, end.table = RequestTable(Server(c))
  PROVE  /\ Reads(end, call[c].frame) = Unreadable => TooLong(end, call[c].frame)
         /\ Reads(end, call[c].frame) # Unreadable =>
              Reads(end, call[c].frame).variant = MethodOf(call[c]).variant
<1>1. OnItsWay(call[c], executed[c])
  BY DEF CallsInv
<1>2. PICK args : call[c].frame = Request(call[c], args)
  BY <1>1 DEF OnItsWay
<1>3. Agreed(Clients[call[c].client])
  BY <1>1, ClientsAgree DEF OnItsWay
<1>4. /\ Clients[call[c].client].table = RequestTable(Server(c))
      /\ MethodOf(call[c]).variant \in DOMAIN Handlers(Server(c))
  BY <1>1, <1>3 DEF Agreed, Understood, Server, OnItsWay, MethodOf
<1>5. /\ Decode(end.table, call[c].frame) = [variant |-> MethodOf(call[c]).variant, args |-> args]
      /\ Decode(end.table, call[c].frame) # Unreadable
  BY <1>2, <1>4, RequestDecoded DEF Request
<1>6. QED
  BY <1>5 DEF Reads, TooLong

LEMMA AnswerRead ==
  ASSUME CallsInv, NEW c \in Callers, call[c] # Nothing, call[c].at = "answered"
  PROVE  /\ Response(c) = Unreadable => TooLong(Clients[call[c].client].end, call[c].frame)
         /\ Verdict(c) # "unexpected"
         /\ Verdict(c) = "ok" => executed[c] = call[c].method
<1> DEFINE end == Clients[call[c].client].end
           d == Decode(end.table, call[c].frame)
<1>1. OnItsWay(call[c], executed[c])
  BY DEF CallsInv
<1>2. PICK kind \in MethodOf(call[c]).accepted \cup {"Error"} :
        \E args : /\ kind \in Kinds(ServerOf(call[c])) /\ call[c].frame = Reply(call[c], kind, args)
                  /\ kind = "Error" \/ executed[c] = call[c].method
  BY <1>1 DEF OnItsWay
<1>3. PICK args : /\ kind \in Kinds(ServerOf(call[c])) /\ call[c].frame = Reply(call[c], kind, args)
                  /\ kind = "Error" \/ executed[c] = call[c].method
  BY <1>2
<1>4. end.table = AnswerTable(ServerOf(call[c]))
  BY <1>1, ClientsAgree DEF OnItsWay, Agreed, ServerOf
<1>5. d # Unreadable /\ Kind(d) = kind /\ (d.variant = "Error" <=> kind = "Error")
  BY <1>3, <1>4, AnswerDecoded DEF Reply
<1>6. Response(c) \in {d, Unreadable}
      /\ (Response(c) = Unreadable => TooLong(end, call[c].frame))
  BY <1>5 DEF Response, Reads, TooLong
<1> HIDE DEF d, end
<1>7. Response(c) # Unreadable => Response(c) = d
  BY <1>6
<1>8. CASE Response(c) = Unreadable
  BY <1>6, <1>8 DEF Verdict, end
<1>9. CASE Response(c) = d /\ kind = "Error"
  BY <1>5, <1>6, <1>9 DEF Verdict, end
<1>10. CASE Response(c) = d /\ kind # "Error"
  <2>1. kind \in Clients[call[c].client].methods[call[c].method].accepted
    BY <1>2, <1>10 DEF MethodOf
  <2>2. Verdict(c) = "ok"
    BY <2>1, <1>5, <1>10 DEF Verdict
  <2>3. QED
    BY <2>2, <1>3, <1>5, <1>6, <1>10 DEF end
<1>11. QED
  BY <1>7, <1>8, <1>9, <1>10

LEMMA CallsInvImplies == CallsInv => CallsMeanTheSame
<1>1. SUFFICES ASSUME CallsInv, NEW c \in Callers
               PROVE  /\ task[c].end # "unexpected"
                      /\ call[c] # Nothing => executed[c] \in {Nothing, call[c].method}
                      /\ Waits(c, "accepted") =>
                           LET end == IF Server(c) = "void" THEN VoidEnd ELSE MassEnd
                           IN  Reads(end, call[c].frame) = Unreadable => TooLong(end, call[c].frame)
                      /\ Waits(c, "answered") =>
                           /\ Response(c) = Unreadable => TooLong(Clients[call[c].client].end, call[c].frame)
                           /\ Verdict(c) = "ok" => executed[c] = call[c].method
  BY DEF CallsMeanTheSame
<1>2. task[c].end # "unexpected" /\ (call[c] # Nothing => executed[c] \in {Nothing, call[c].method})
  BY <1>1 DEF CallsInv, TaskKept, OnItsWay
<1>3. ASSUME Waits(c, "accepted")
      PROVE  LET end == IF Server(c) = "void" THEN VoidEnd ELSE MassEnd
             IN  Reads(end, call[c].frame) = Unreadable => TooLong(end, call[c].frame)
  <2> DEFINE end == IF Server(c) = "void" THEN VoidEnd ELSE MassEnd
  <2>1. end.table = RequestTable(Server(c))
    BY DEF VoidEnd, MassEnd, End, RequestTable
  <2> HIDE DEF end
  <2>2. Reads(end, call[c].frame) = Unreadable => TooLong(end, call[c].frame)
    BY <1>1, <1>3, <2>1, RequestRead DEF Waits
  <2>3. QED
    BY <2>2 DEF end
<1>4. QED
  BY <1>1, <1>2, <1>3, AnswerRead DEF Waits

----------------------------------------------------------------------------
(* The steps                                                               *)

LEMMA OutcomeKinds ==
  ASSUME NEW args
  PROVE  /\ VoidOutcome("upload", args).kind = "Uploaded"
         /\ VoidOutcome("upload_with", args).kind = "Uploaded"
         /\ VoidOutcome("download", args).kind \in {"Downloaded", "Error"}
         /\ VoidOutcome("download_wait", args).kind \in {"Downloaded", "TimedOut"}
         /\ VoidOutcome("upload_begin", args).kind = "Uploaded"
         /\ VoidOutcome("upload_part", args).kind \in {"Ack", "Error"}
         /\ VoidOutcome("upload_finish", args).kind \in {"Uploaded", "Error"}
         /\ VoidOutcome("download_range", args).kind \in {"Downloaded", "Error"}
<1>1. /\ \A kind, x : Same(kind, x).kind = kind
      /\ \A id, data : Stores(id, data).kind = "Uploaded"
      /\ Refuses.kind = "Error"
  BY DEF Same, Stores, Refuses
<1>2. \A id, data : Forgets(Stores(id, data), id).kind = "Uploaded"
  BY DEF Forgets, Stores, Same
<1>3. \A id : Forgets(Refuses, id).kind = "Error"
  BY DEF Forgets, Refuses, Same
<1>4. UploadFinish(args).kind \in {"Uploaded", "Error"}
  BY <1>1, <1>2, <1>3 DEF UploadFinish
<1>5. DownloadRange(args).kind \in {"Downloaded", "Error"}
  BY <1>1 DEF DownloadRange
<1>6. /\ VoidOutcome("upload", args).kind = "Uploaded"
      /\ VoidOutcome("upload_with", args).kind = "Uploaded"
  BY <1>1 DEF VoidOutcome
<1>7. /\ VoidOutcome("download", args).kind \in {"Downloaded", "Error"}
      /\ VoidOutcome("download_wait", args).kind \in {"Downloaded", "TimedOut"}
  BY <1>1 DEF VoidOutcome
<1>8. VoidOutcome("upload_begin", args).kind = "Uploaded"
  BY DEF VoidOutcome, Same
<1>9. VoidOutcome("upload_part", args).kind \in {"Ack", "Error"}
  BY <1>1 DEF VoidOutcome, Same
<1>10. /\ VoidOutcome("upload_finish", args).kind \in {"Uploaded", "Error"}
       /\ VoidOutcome("download_range", args).kind \in {"Downloaded", "Error"}
  BY <1>4, <1>5 DEF VoidOutcome
<1>11. QED
  BY <1>6, <1>7, <1>8, <1>9, <1>10

LEMMA FilesAnswered ==
  ASSUME NEW v \in DOMAIN VoidHandlers, VoidHandlers[v].does \in FileWork, NEW args
  PROVE  VoidOutcome(VoidHandlers[v].does, args).kind \in VoidHandlers[v].answers \cup {"Error"}
  BY OutcomeKinds DEF VoidHandlers, Handler, FileWork

\* What both servers need to know of a call they handle.
LEMMA Handled ==
  ASSUME CallsInv, NEW c \in Callers, call[c] # Nothing, Waits(c, "accepted"),
         NEW end, end.table = RequestTable(Server(c)), NEW request,
         request = Reads(end, call[c].frame), request # Unreadable
  PROVE  /\ request.variant \in DOMAIN Handlers(Server(c))
         /\ Handlers(Server(c))[request.variant].does = call[c].method
         /\ Handlers(Server(c))[request.variant].answers \subseteq MethodOf(call[c]).accepted
         /\ Handlers(Server(c))[request.variant].answers \subseteq Kinds(Server(c))
         /\ "Error" \in Kinds(Server(c))
<1>1. request.variant = MethodOf(call[c]).variant
  BY RequestRead DEF Waits
<1>2. OnItsWay(call[c], executed[c])
  BY DEF CallsInv
<1>3. Agreed(Clients[call[c].client])
  BY <1>2, ClientsAgree DEF OnItsWay
<1>4. /\ request.variant \in DOMAIN Handlers(Server(c))
      /\ Handlers(Server(c))[request.variant].does = call[c].method
      /\ Handlers(Server(c))[request.variant].answers \subseteq MethodOf(call[c]).accepted
  BY <1>1, <1>2, <1>3 DEF Agreed, Understood, OnItsWay, MethodOf, Server
<1>5. "Error" \in Kinds(Server(c))
  BY DEF Kinds, VoidKinds, MassKinds
<1>6. QED
  BY <1>4, <1>5, HandlersAnswer

LEMMA VoidServesKeeps ==
  ASSUME CallsInv, NEW c \in Callers, call[c] # Nothing, Waits(c, "accepted"), Server(c) = "void", VoidServes(c)
  PROVE  CallsInv'
<1> DEFINE request == Reads(VoidEnd, call[c].frame)
           does == VoidHandlers[request.variant].does
<1>1. VoidEnd.table = RequestTable(Server(c)) /\ VoidOut = AnswerTable(Server(c))
      /\ VoidHandlers = Handlers(Server(c))
  BY DEF VoidEnd, End, RequestTable, AnswerTable, Handlers
<1>2. CASE request = Unreadable
  <2>1. VoidHangsUp(c)
    BY <1>2 DEF VoidServes
  <2>2. QED
    BY <2>1, Moved DEF VoidHangsUp
<1>3. CASE request # Unreadable
  <2>1. VoidRuns(c, request)
    BY <1>3 DEF VoidServes
  <2>2. /\ request.variant \in DOMAIN VoidHandlers /\ does = call[c].method
        /\ VoidHandlers[request.variant].answers \subseteq MethodOf(call[c]).accepted
        /\ VoidHandlers[request.variant].answers \subseteq Kinds(Server(c))
        /\ "Error" \in Kinds(Server(c))
    BY <1>1, <1>3, Handled
  <2>3. executed' = [executed EXCEPT ![c] = call[c].method] /\ UNCHANGED task
    BY <2>1, <2>2 DEF VoidRuns
  <2>4. CASE does \in FileWork /\ \E x :
               x = VoidOutcome(does, request.args) /\ Responds(c, Answer(VoidOut, x.kind, x.args))
    <3>1. PICK x : x = VoidOutcome(does, request.args) /\ Responds(c, Answer(VoidOut, x.kind, x.args))
      BY <2>4
    <3>2. x.kind \in VoidHandlers[request.variant].answers \cup {"Error"}
      BY <2>2, <2>4, <3>1, FilesAnswered
    <3> HIDE DEF request, does
    <3>3. QED
      BY <1>1, <2>2, <2>3, <3>1, <3>2, AnsweredKeeps
  <2>5. CASE \E kind \in VoidHandlers[request.variant].answers \cup {"Error"} :
               Responds(c, Answer(VoidOut, kind, <<>>))
    <3> HIDE DEF request, does
    <3>1. QED
      BY <1>1, <2>2, <2>3, <2>5, AnsweredKeeps
  <2>6. QED
    BY <2>1, <2>4, <2>5 DEF VoidRuns
<1>4. QED
  BY <1>2, <1>3

LEMMA MassRunsKeeps ==
  ASSUME CallsInv, NEW c \in Callers, call[c] # Nothing, Waits(c, "accepted"), Server(c) = "mass",
         NEW request, request = Reads(MassEnd, call[c].frame), request # Unreadable, MassRuns(c, request)
  PROVE  CallsInv'
<1>1. MassEnd.table = RequestTable(Server(c)) /\ MassOut = AnswerTable(Server(c))
      /\ MassHandlers = Handlers(Server(c))
  BY DEF MassEnd, End, RequestTable, AnswerTable, Handlers
<1>2. /\ MassHandlers[request.variant].does = call[c].method
      /\ MassHandlers[request.variant].answers \subseteq MethodOf(call[c]).accepted
      /\ MassHandlers[request.variant].answers \subseteq Kinds(Server(c))
      /\ "Error" \in Kinds(Server(c))
  BY <1>1, Handled
<1>3. PICK kind \in MassHandlers[request.variant].answers \cup {"Error"} :
        Responds(c, Answer(MassOut, kind, <<>>))
  BY DEF MassRuns
<1>4. executed' = [executed EXCEPT ![c] = call[c].method] /\ UNCHANGED task
  BY <1>2 DEF MassRuns
<1>5. QED
  BY <1>1, <1>2, <1>3, <1>4, AnsweredKeeps

LEMMA MassServesKeeps ==
  ASSUME CallsInv, NEW c \in Callers, call[c] # Nothing, MassStream(c) \/ MassTcp(c)
  PROVE  CallsInv'
<1> DEFINE request == Reads(MassEnd, call[c].frame)
<1>1. Waits(c, "accepted") /\ Server(c) = "mass"
  BY DEF MassStream, MassTcp
<1>2. CASE request # Unreadable
  <2>1. MassRuns(c, request)
    BY <1>2 DEF MassStream, MassTcp
  <2>2. QED
    BY <1>1, <1>2, <2>1, MassRunsKeeps
<1>3. CASE request = Unreadable /\ MassStream(c)
  <2>1. Responds(c, Answer(MassOut, "Error", <<>>)) /\ UNCHANGED <<task, executed>>
    BY <1>3 DEF MassStream
  <2>2. MassOut = AnswerTable(Server(c)) /\ "Error" \in Kinds(Server(c))
    BY <1>1 DEF AnswerTable, Kinds, MassKinds
  <2>3. executed' = [executed EXCEPT ![c] = executed[c]]
    BY <2>1 DEF CallsInv
  <2>4. QED
    BY <2>1, <2>2, <2>3, AnsweredKeeps
<1>4. CASE request = Unreadable /\ MassTcp(c)
  <2>1. Becomes(c, "ended") /\ UNCHANGED <<task, executed>>
    BY <1>4 DEF MassTcp
  <2>2. QED
    BY <2>1, Moved
<1>5. QED
  BY <1>2, <1>3, <1>4

\* Files travel between a client of Void and Void.
FileMethods == {"upload", "upload_begin", "upload_part", "upload_finish", "download_range"}

LEMMA FilesByVoid ==
  ASSUME NEW client \in DOMAIN Clients
  PROVE  /\ client \in VoidClients => FileMethods \subseteq DOMAIN Clients[client].methods
         /\ FileMethods \cap DOMAIN Clients[client].methods # {} => client \in VoidClients
<1>1. /\ FileMethods \subseteq DOMAIN SunVoidClient.methods
      /\ FileMethods \subseteq DOMAIN MassVoidClient.methods
  BY DEF FileMethods, SunVoidClient, MassVoidClient, Client, Both, SunVoidMethods, MassVoidMethods
<1>2. FileMethods \cap DOMAIN SunMassClient.methods = {}
  BY DEF FileMethods, SunMassClient, Client, SunMassMethods, BackwardMethods, Both
<1>3. FileMethods \cap DOMAIN FlowClient.methods = {}
  BY DEF FileMethods, FlowClient, Client, TraitMethods
<1>4. FileMethods \cap DOMAIN MassRpcClient.methods = {}
  BY DEF FileMethods, MassRpcClient, Client
<1>5. QED
  BY <1>1, <1>2, <1>3, <1>4 DEF Clients, VoidClients

LEMMA NewTask ==
  ASSUME NEW t, NEW job
  PROVE  /\ TaskKept([job |-> job, end |-> Nothing])
         /\ TaskKept([job |-> job, end |-> "ok"])
  BY NothingAssumption DEF TaskKept

LEMMA BeginsKeep ==
  ASSUME CallsInv, NEW c \in Callers, NEW client \in DOMAIN Clients,
         \/ CallOnce(c, client) \/ CallAlone(c, client)
         \/ client \in VoidClients /\ (UploadFile(c, client) \/ DownloadToFile(c, client))
  PROVE  CallsInv'
<1>1. CASE CallOnce(c, client)
  <2>1. PICK m \in Singly(client) \cap FileWork :
          \E args \in ArgsOf(Clients[client].methods[m].variant) :
            Sets(c, [job |-> "once", end |-> Nothing]) /\ Sends(c, client, m, args)
    BY <1>1 DEF CallOnce
  <2>2. PICK args : Sets(c, [job |-> "once", end |-> Nothing]) /\ Sends(c, client, m, args)
    BY <2>1
  <2>3. m \in DOMAIN Clients[client].methods
    BY DEF Singly
  <2>4. QED
    BY <2>2, <2>3, NewTask, SentKeeps DEF Sets
<1>2. CASE CallAlone(c, client)
  <2>1. PICK m \in Singly(client) \ FileWork :
          Sets(c, [job |-> "once", end |-> Nothing]) /\ Sends(c, client, m, <<>>)
    BY <1>2 DEF CallAlone
  <2>2. m \in DOMAIN Clients[client].methods
    BY DEF Singly
  <2>3. QED
    BY <2>1, <2>2, NewTask, SentKeeps DEF Sets
<1>3. CASE client \in VoidClients /\ UploadFile(c, client)
  <2>1. PICK n \in FileSizes :
          /\ Sets(c, [job |-> "put", file |-> n, part |-> 1, sent |-> 0, end |-> Nothing])
          /\ \/ Sends(c, client, "upload", [bytes |-> File(n)])
             \/ Sends(c, client, "upload_begin", [total |-> n])
    BY <1>3 DEF UploadFile
  <2>2. TaskKept([job |-> "put", file |-> n, part |-> 1, sent |-> 0, end |-> Nothing])
    BY NothingAssumption DEF TaskKept
  <2>3. "upload" \in DOMAIN Clients[client].methods /\ "upload_begin" \in DOMAIN Clients[client].methods
    BY <1>3, FilesByVoid DEF FileMethods
  <2>4. QED
    BY <2>1, <2>2, <2>3, SentKeeps DEF Sets
<1>4. CASE client \in VoidClients /\ DownloadToFile(c, client)
  <2>1. PICK id \in Known :
          /\ Sets(c, [job |-> "get", id |-> id, data |-> <<>>, end |-> Nothing])
          /\ Sends(c, client, "download_range", [id |-> id, offset |-> 0, length |-> PartLen])
    BY <1>4 DEF DownloadToFile
  <2>2. TaskKept([job |-> "get", id |-> id, data |-> <<>>, end |-> Nothing])
    BY NothingAssumption DEF TaskKept
  <2>3. "download_range" \in DOMAIN Clients[client].methods
    BY <1>4, FilesByVoid DEF FileMethods
  <2>4. QED
    BY <2>1, <2>2, <2>3, SentKeeps DEF Sets
<1>5. QED
  BY <1>1, <1>2, <1>3, <1>4

LEMMA UploadPartKeeps ==
  ASSUME CallsInv, NEW c \in Callers, call[c] # Nothing, call[c].method \in FileMethods,
         NEW id, UploadPart(c, id)
  PROVE  CallsInv'
<1> DEFINE t == task[c]
           part(k) == [job |-> "put", file |-> t.file, part |-> t.part + 1, sent |-> t.sent + k,
                       end |-> Nothing, id |-> id]
<1>1. OnItsWay(call[c], executed[c]) /\ TaskKept(task[c])
  BY DEF CallsInv
<1>2. /\ call[c].client \in DOMAIN Clients
      /\ "upload_part" \in DOMAIN Clients[call[c].client].methods
      /\ "upload_finish" \in DOMAIN Clients[call[c].client].methods
  <2>1. call[c].client \in DOMAIN Clients /\ call[c].method \in DOMAIN Clients[call[c].client].methods
    BY <1>1 DEF OnItsWay
  <2>2. call[c].client \in VoidClients
    BY <2>1, FilesByVoid
  <2>3. QED
    BY <2>1, <2>2, FilesByVoid DEF FileMethods
<1>3. CASE \E k : \E args : Sends(c, call[c].client, "upload_part", args) /\ Sets(c, part(k))
  <2>1. PICK k : \E args : Sends(c, call[c].client, "upload_part", args) /\ Sets(c, part(k))
    BY <1>3
  <2>2. TaskKept(part(k))
    BY NothingAssumption DEF TaskKept
  <2> HIDE DEF part
  <2>3. QED
    BY <1>2, <2>1, <2>2, SentKeeps DEF Sets
<1>4. CASE UNCHANGED task /\ \E args : Sends(c, call[c].client, "upload_finish", args)
  <2>1. task' = [task EXCEPT ![c] = task[c]]
    BY <1>4 DEF CallsInv
  <2>2. QED
    BY <1>1, <1>2, <1>4, <2>1, SentKeeps
<1>5. QED
  BY <1>3, <1>4 DEF UploadPart

LEMMA DownloadMoreKeeps ==
  ASSUME CallsInv, NEW c \in Callers, call[c] # Nothing, call[c].method = "download_range",
         NEW data, DownloadMore(c, data)
  PROVE  CallsInv'
<1> DEFINE t == task[c]
           all == t.data \o data
<1>1. OnItsWay(call[c], executed[c]) /\ TaskKept(t)
  BY DEF CallsInv
<1>2. CASE Ends(c, [t EXCEPT !.data = all, !.end = "ok"])
  <2>1. TaskKept([t EXCEPT !.data = all, !.end = "ok"])
    BY <1>1 DEF TaskKept
  <2> HIDE DEF t, all
  <2>2. QED
    BY <1>2, <2>1, OverKeeps
<1>3. CASE \E args : Sets(c, [t EXCEPT !.data = all]) /\ Sends(c, call[c].client, "download_range", args)
  <2>1. TaskKept([t EXCEPT !.data = all])
    BY <1>1 DEF TaskKept
  <2>2. call[c].client \in DOMAIN Clients /\ "download_range" \in DOMAIN Clients[call[c].client].methods
    BY <1>1 DEF OnItsWay
  <2> HIDE DEF t, all
  <2>3. QED
    BY <1>3, <2>1, <2>2, SentKeeps DEF Sets
<1>4. QED
  BY <1>2, <1>3 DEF DownloadMore

LEMMA ContinuesKeeps ==
  ASSUME CallsInv, NEW c \in Callers, Continues(c)
  PROVE  CallsInv'
<1>1. call[c] # Nothing
  BY DEF Continues, Ended, Waits
<1>2. CASE \E data : call[c].method = "download_range" /\ DownloadMore(c, data)
  BY <1>1, <1>2, DownloadMoreKeeps
<1>3. CASE \E id : call[c].method \in {"upload_begin", "upload_part"} /\ UploadPart(c, id)
  BY <1>1, <1>3, UploadPartKeeps DEF FileMethods
<1>4. ASSUME NEW id, Ends(c, IF task[c].job = "put"
                             THEN [job |-> "put", file |-> task[c].file, id |-> id, end |-> "ok"]
                             ELSE [job |-> "once", end |-> "ok"])
      PROVE  CallsInv'
  <2>2. TaskKept([job |-> "put", file |-> task[c].file, id |-> id, end |-> "ok"])
        /\ TaskKept([job |-> "once", end |-> "ok"])
    BY DEF TaskKept
  <2>3. QED
    BY <1>4, <2>2, OverKeeps
<1> DEFINE args == Response(c).args
<1>5. \/ call[c].method = "download_range" /\ DownloadMore(c, args.bytes)
      \/ call[c].method = "upload_begin" /\ UploadPart(c, args.id)
      \/ call[c].method = "upload_part" /\ UploadPart(c, task[c].id)
      \/ Ends(c, IF task[c].job = "put" THEN [job |-> "put", file |-> task[c].file, id |-> args.id, end |-> "ok"]
                 ELSE [job |-> "once", end |-> "ok"])
  BY DEF Continues
<1> HIDE DEF args
<1>6. QED
  BY <1>2, <1>3, <1>4, <1>5

LEMMA FailsKeeps ==
  ASSUME CallsInv, NEW c \in Callers, Fails(c)
  PROVE  CallsInv'
<1>1. /\ call[c] # Nothing /\ call[c].at \in {"answered", "ended"}
      /\ Verdict(c) # "ok" /\ Ends(c, [task[c] EXCEPT !.end = Verdict(c)])
  BY DEF Fails, Ended, Waits
<1>2. Verdict(c) # "unexpected"
  <2>1. CASE call[c].at = "answered"
    BY <1>1, <2>1, AnswerRead
  <2>2. CASE call[c].at = "ended"
    BY <2>2 DEF Verdict
  <2>3. QED
    BY <1>1, <2>1, <2>2
<1>3. TaskKept([task[c] EXCEPT !.end = Verdict(c)])
  BY <1>2 DEF TaskKept, CallsInv
<1>4. QED
  BY <1>1, <1>3, OverKeeps

LEMMA LosesKeeps ==
  ASSUME CallsInv, NEW c \in Callers,
         VoidAccepts(c) \/ MassAccepts(c) \/ Breaks(c) \/ Refused(c) \/ GoesAway(c)
  PROVE  CallsInv'
<1>1. CASE VoidAccepts(c) \/ MassAccepts(c)
  BY <1>1, Moved DEF VoidAccepts, MassAccepts, Waits
<1>2. CASE Breaks(c) \/ Refused(c)
  BY <1>2, Moved DEF Breaks, Refused, Waits
<1>3. CASE GoesAway(c)
  <2>1. Ends(c, [job |-> "gone", end |-> Nothing]) /\ TaskKept([job |-> "gone", end |-> Nothing])
    BY <1>3, NewTask DEF GoesAway
  <2>2. QED
    BY <2>1, OverKeeps
<1>4. QED
  BY <1>1, <1>2, <1>3

LEMMA MassStopsKeeps ==
  ASSUME CallsInv, MassStops
  PROVE  CallsInv'
<1>1. UNCHANGED <<task, executed>>
  BY DEF MassStops
<1>2. call' = [c \in Callers |->
        IF Waits(c, "accepted") /\ Server(c) = "mass" /\ via = "quic" THEN [call[c] EXCEPT !.at = "ended"] ELSE call[c]]
  BY DEF MassStops
<1>3. ASSUME NEW c \in Callers, call'[c] # Nothing
      PROVE  OnItsWay(call'[c], executed'[c])
  <2>1. executed'[c] = executed[c]
    BY <1>1
  <2>2. CASE call'[c] = call[c]
    BY <1>3, <2>1, <2>2 DEF CallsInv
  <2>3. CASE Waits(c, "accepted") /\ call'[c] = [call[c] EXCEPT !.at = "ended"]
    <3>1. OnItsWay(call[c], executed[c])
      BY <2>3 DEF CallsInv, Waits
    <3>2. call'[c] = [client |-> call[c].client, method |-> call[c].method, at |-> "ended", frame |-> call[c].frame]
      BY <2>3, <3>1 DEF OnItsWay
    <3>3. QED
      BY <2>1, <3>1, <3>2 DEF OnItsWay, Request, MethodOf
  <2>4. QED
    BY <1>2, <2>2, <2>3
<1>4. call' = [c \in Callers |-> call'[c]]
  BY <1>2
<1>5. task' = [c \in Callers |-> task'[c]] /\ executed' = [c \in Callers |-> executed'[c]]
      /\ \A c \in Callers : TaskKept(task'[c])
  BY <1>1 DEF CallsInv
<1>6. QED
  BY <1>3, <1>4, <1>5 DEF CallsInv

LEMMA CallsInitially == CallsInit => CallsInv
<1>1. SUFFICES ASSUME CallsInit PROVE CallsInv
  OBVIOUS
<1>2. call = [c \in Callers |-> Nothing] /\ executed = [c \in Callers |-> Nothing]
      /\ task = [c \in Callers |-> [job |-> "none", end |-> Nothing]]
  BY <1>1 DEF CallsInit
<1>3. TaskKept([job |-> "none", end |-> Nothing])
  BY NewTask
<1>4. QED
  BY <1>2, <1>3 DEF CallsInv

LEMMA CallsStep == CallsInv /\ [CallsNext]_callVars => CallsInv'
<1>1. SUFFICES ASSUME CallsInv, [CallsNext]_callVars PROVE CallsInv'
  OBVIOUS
<1>2. ASSUME NEW c \in Callers, NEW client \in DOMAIN Clients, CallOnce(c, client) \/ CallAlone(c, client)
      PROVE  CallsInv'
  BY <1>1, <1>2, BeginsKeep
<1>3. ASSUME NEW c \in Callers, NEW client \in VoidClients, UploadFile(c, client) \/ DownloadToFile(c, client)
      PROVE  CallsInv'
  <2>1. client \in DOMAIN Clients
    BY DEF VoidClients, Clients
  <2>2. QED
    BY <1>1, <1>3, <2>1, BeginsKeep
<1>4. ASSUME NEW c \in Callers, VoidStream(c) \/ VoidTcp(c)
      PROVE  CallsInv'
  BY <1>1, <1>4, VoidServesKeeps DEF VoidStream, VoidTcp, Waits
<1>5. ASSUME NEW c \in Callers, MassStream(c) \/ MassTcp(c)
      PROVE  CallsInv'
  BY <1>1, <1>5, MassServesKeeps DEF MassStream, MassTcp, Waits
<1>6. ASSUME NEW request \in left, RunsLeft(request)
      PROVE  CallsInv'
  BY <1>1, <1>6 DEF RunsLeft, CallsInv
<1>7. CASE UNCHANGED callVars
  BY <1>1, <1>7 DEF callVars, CallsInv
<1>8. QED
  BY <1>1, <1>2, <1>3, <1>4, <1>5, <1>6, <1>7, ContinuesKeeps, FailsKeeps, LosesKeeps, MassStopsKeeps DEF CallsNext

\* Both ends mean the same by every call: whatever fails, whoever goes away and
\* whenever Mass stops, a handler that ran is the one its caller asked for, and a call
\* ends with the answer of its handler, an error or none.
THEOREM BothEndsAgree == CallsSpec => []CallsMeanTheSame
  BY CallsInitially, CallsStep, CallsInvImplies, PTL DEF CallsSpec

----------------------------------------------------------------------------
(* Files                                                                   *)

Cells == Nat \X Nat
Files == {File(n) : n \in FileSizes}

\* The session has p parts, which are the first s cells of the file.
Has(session, p, n, s) ==
  /\ session \in Seq(Seq(Cells)) /\ Len(session) = p
  /\ FlattenSeq(session) = SubSeq(File(n), 1, s)
Held(id, p, n, s) == uploads[id] # Nothing => Has(uploads[id], p, n, s)

\* What was put, and the beginning that was got, are the object's, unless it was replaced.
Put(id, n) == id \in ObjectIds /\ n \in FileSizes /\ (id \notin replaced => objects[id] = File(n))
Fetched(id, data) ==
  /\ id \in ObjectIds /\ data \in Seq(Cells)
  /\ data # <<>> /\ id \notin replaced =>
       /\ objects[id] # Nothing /\ Len(data) <= Len(objects[id])
       /\ data = SubSeq(objects[id], 1, Len(data))

Drawn(id) == id \in 1..spent.ids
Putting(t) == t.job = "put" /\ t.file \in FileSizes /\ t.part \in Nat \ {0} /\ t.sent \in 0..t.file
Asking(f) == f.at \in {"connecting", "accepted"}
Says(f, kind) == f.at = "answered" /\ f.frame = Reply(f, kind, f.frame.args)

\* The task t waits for the call f: of a whole file,
Wholly(t, f) ==
  LET a == f.frame.args IN
  /\ t.job = "once" \/ (t.job = "put" /\ f.method = "upload" /\ t.file \in FileSizes)
  /\ Asking(f) => /\ a.bytes \in Files /\ (t.job = "put" => a.bytes = File(t.file))
                  /\ f.method = "upload_with" => a.id \in ObjectIds
  /\ t.job = "put" /\ Says(f, "Uploaded") => Put(a.id, t.file)
\* of the session it begins,
Beginning(t, f) ==
  /\ Putting(t) /\ t.part = 1 /\ t.sent = 0 /\ t.file # 0
  /\ Says(f, "Uploaded") => Drawn(f.frame.args.id) /\ Held(f.frame.args.id, 0, t.file, 0)
\* of the part that comes next,
NextPart(t, f) ==
  LET a == f.frame.args IN
  /\ Putting(t) /\ t.part # 1 /\ Drawn(t.id)
  /\ Asking(f) => /\ a.id = t.id /\ a.number = t.part - 1
                  /\ \E s \in 0..t.sent : /\ a.bytes = SubSeq(File(t.file), s + 1, t.sent)
                                          /\ Held(t.id, t.part - 2, t.file, s)
  /\ f.at = "answered" => Held(t.id, t.part - 1, t.file, t.sent)
\* of the end of them,
Finishing(t, f) ==
  LET a == f.frame.args IN
  /\ Putting(t) /\ Drawn(t.id)
  /\ Asking(f) => a.id = t.id /\ a.count = t.part - 1 /\ Held(t.id, t.part - 1, t.file, t.file)
  /\ Says(f, "Uploaded") => Put(a.id, t.file)
\* or of the range after what it got.
Ranging(t, f) ==
  LET a == f.frame.args IN
  /\ t = [job |-> "get", id |-> t.id, data |-> t.data, end |-> Nothing] /\ Fetched(t.id, t.data)
  /\ Asking(f) => a.id = t.id /\ a.offset = Len(t.data) /\ a.length = PartLen
  /\ Says(f, "Downloaded") =>
       /\ a.bytes \in Seq(Cells)
       /\ t.id \notin replaced => objects[t.id] # Nothing /\ a.bytes = Slice(objects[t.id], Len(t.data), PartLen)

Exact(t, f) ==
  /\ f.method \in {"upload", "upload_with"} => Wholly(t, f)
  /\ f.method = "upload_begin" => Beginning(t, f)
  /\ f.method = "upload_part" => NextPart(t, f)
  /\ f.method = "upload_finish" => Finishing(t, f)
  /\ f.method = "download_range" => Ranging(t, f)
  /\ f.method \notin FileMethods => t.job = "once"

\* How a task that ended well left Void.
Done(t) ==
  t.end = "ok" =>
    /\ t.job = "put" => Put(t.id, t.file)
    /\ t.job = "get" => t.id \in ObjectIds /\ (t.id \notin replaced => objects[t.id] # Nothing /\ t.data = objects[t.id])

Sane(t, f) == Done(t) /\ (f # Nothing => Exact(t, f))

\* The session a call, or a request left behind, is about.
SessionsOf(t, f) ==
  IF f = Nothing THEN {}
  ELSE IF f.method \in {"upload_part", "upload_finish"} THEN {t.id}
  ELSE IF f.method = "upload_begin" /\ Says(f, "Uploaded") THEN {f.frame.args.id} ELSE {}
Mine(c) == SessionsOf(task[c], call[c])

SessionOf(r) == IF VoidHandlers[r.variant].does \in {"upload_part", "upload_finish"} THEN {r.args.id} ELSE {}

Left(r) ==
  LET does == VoidHandlers[r.variant].does IN
  /\ r.variant \in DOMAIN VoidHandlers /\ does \in FileWork
  /\ does \in {"upload", "upload_with"} => r.args.bytes \in Files
  /\ does = "upload_with" => r.args.id \in ObjectIds
  /\ \A id \in SessionOf(r) : Drawn(id)
  /\ does = "upload_finish" => \E n \in FileSizes : Held(r.args.id, r.args.count, n, n)

Stored ==
  /\ objects = [i \in ObjectIds |-> objects[i]] /\ uploads = [i \in ObjectIds |-> uploads[i]]
  /\ \A i \in ObjectIds : objects[i] # Nothing => \E n \in FileSizes \cup {StoredSize} : objects[i] = File(n)
  /\ spent = [tasks |-> spent.tasks, errors |-> spent.errors, ids |-> spent.ids]
  /\ spent.ids \in Nat \ {0} /\ 1..spent.ids \subseteq ObjectIds

FilesInv ==
  /\ Stored
  /\ \A c \in Callers : Sane(task[c], call[c])
  /\ \A c, d \in Callers : c # d => Mine(c) \cap Mine(d) = {}
  /\ \A r \in left : Left(r) /\ \A c \in Callers : SessionOf(r) \cap Mine(c) = {}
  /\ \A r, q \in left : r # q => SessionOf(r) \cap SessionOf(q) = {}

\* A nonempty set of numbers has a least.
LEMMA LeastNumber ==
  ASSUME NEW S, S \subseteq Nat, S # {}
  PROVE  \E m \in S : \A k \in S : m <= k
<1> DEFINE R == {ss \in Nat \X Nat : ss[1] < ss[2]}
<1>1. IsWellFoundedOn(R, Nat)
  BY NatLessThanWellFounded DEF OpToRel
<1> HIDE DEF R
<1>2. PICK m \in S : \A k \in S : <<k, m>> \notin R
  BY <1>1, WFMin
<1> USE DEF R
<1>3. \A k \in S : m <= k
  <2>1. TAKE k \in S
  <2>2. k \in Nat /\ m \in Nat
    OBVIOUS
  <2>3. ~(k < m)
    BY <1>2, <2>2
  <2>4. QED
    BY <2>2, <2>3
<1>4. QED
  BY <1>3

\* The first n parts of u, put together one after another.
Together(u, f, n) == f = [i \in 1..n |-> IF i = 1 THEN u[i] ELSE f[i - 1] \o u[i]]

LEMMA TogetherExists ==
  ASSUME NEW u, NEW n \in Nat
  PROVE  \E f : Together(u, f, n)
<1> DEFINE Bad == {m \in Nat : ~\E f : Together(u, f, m)}
<1>1. ASSUME Bad # {} PROVE FALSE
  <2>1. PICK m \in Bad : \A k \in Bad : m <= k
    BY <1>1, LeastNumber
  <2>2. m # 0
    <3> DEFINE f == [i \in 1..0 |-> u]
    <3>1. Together(u, f, 0)
      BY DEF Together
    <3>2. QED
      BY <3>1
  <2>3. m \in Nat /\ m - 1 \in Nat /\ m - 1 \notin Bad
    BY <2>1, <2>2
  <2>4. PICK f : Together(u, f, m - 1)
    BY <2>3
  <2> DEFINE g == [i \in 1..m |-> IF i = m THEN IF m = 1 THEN u[m] ELSE f[m - 1] \o u[m] ELSE f[i]]
  <2>5. \A i \in 1..m : g[i] = IF i = 1 THEN u[i] ELSE g[i - 1] \o u[i]
    <3>1. TAKE i \in 1..m
    <3>2. \A j \in 1..(m - 1) : g[j] = f[j]
      BY <2>3
    <3>3. CASE i = m
      <4>1. g[i] = IF m = 1 THEN u[m] ELSE f[m - 1] \o u[m]
        BY <3>3
      <4>2. m # 1 => g[m - 1] = f[m - 1]
        BY <2>3, <3>2
      <4> HIDE DEF g
      <4>3. QED
        BY <3>3, <4>1, <4>2
    <3>4. CASE i # m
      <4>1. i \in 1..(m - 1) /\ (i # 1 => i - 1 \in 1..(m - 1))
        BY <2>3, <3>4
      <4>2. g[i] = f[i] /\ (i # 1 => g[i - 1] = f[i - 1])
        BY <3>2, <4>1
      <4> HIDE DEF g
      <4>3. f[i] = IF i = 1 THEN u[i] ELSE f[i - 1] \o u[i]
        BY <2>4, <4>1 DEF Together
      <4>4. QED
        BY <4>2, <4>3
    <3>5. QED
      BY <3>3, <3>4
  <2>6. g = [i \in 1..m |-> g[i]]
    OBVIOUS
  <2> HIDE DEF g
  <2>7. Together(u, g, m)
    BY <2>5, <2>6 DEF Together
  <2>8. QED
    BY <2>1, <2>7
<1>2. QED
  BY <1>1

\* It is the same for all that begin with them.
LEMMA TogetherAgree ==
  ASSUME NEW S, NEW n \in Nat, NEW m \in Nat, NEW u, NEW v, NEW f, NEW g,
         Together(u, f, n), Together(v, g, m), n <= m,
         \A i \in 1..n : u[i] = v[i] /\ u[i] \in Seq(S)
  PROVE  \A i \in 1..n : f[i] = g[i] /\ f[i] \in Seq(S)
<1> DEFINE Bad == {i \in 1..n : ~(f[i] = g[i] /\ f[i] \in Seq(S))}
<1>1. ASSUME Bad # {} PROVE FALSE
  <2>1. Bad \subseteq Nat
    OBVIOUS
  <2>2. PICK i \in Bad : \A k \in Bad : i <= k
    BY <1>1, <2>1, LeastNumber
  <2>3. i \in 1..n /\ i \in 1..m /\ (i # 1 => i - 1 \in 1..n /\ ~(i <= i - 1))
    BY <2>2
  <2>4. i # 1 => i - 1 \notin Bad
    BY <2>2, <2>3
  <2>5. i # 1 => f[i - 1] = g[i - 1] /\ f[i - 1] \in Seq(S)
    BY <2>3, <2>4
  <2>6. /\ f[i] = IF i = 1 THEN u[i] ELSE f[i - 1] \o u[i]
        /\ g[i] = IF i = 1 THEN v[i] ELSE g[i - 1] \o v[i]
    BY <2>3 DEF Together
  <2>7. f[i] = g[i]
    BY <2>3, <2>5, <2>6
  <2>8. f[i] \in Seq(S)
    BY <2>3, <2>5, <2>6, ConcatProperties
  <2>9. QED
    BY <2>2, <2>7, <2>8
<1>2. QED
  BY <1>1

\* One more part comes after those before it.
LEMMA FlattenAppend ==
  ASSUME NEW S, NEW u \in Seq(Seq(S)), NEW x \in Seq(S)
  PROVE  FlattenSeq(u) \in Seq(S) /\ FlattenSeq(Append(u, x)) = FlattenSeq(u) \o x
<1>0. PICK v : v = Append(u, x)
  OBVIOUS
<1>1. /\ Len(u) \in Nat /\ Len(v) = Len(u) + 1 /\ Len(v) \in Nat /\ v[Len(v)] = x
      /\ \A i \in 1..Len(u) : u[i] = v[i] /\ u[i] \in Seq(S)
  BY <1>0, AppendProperties
<1> DEFINE n == Len(u)
           m == Len(v)
           f == CHOOSE h : Together(u, h, n)
           g == CHOOSE h : Together(v, h, m)
<1>2. Together(u, f, n) /\ Together(v, g, m)
  BY <1>1, TogetherExists
<1>3. FlattenSeq(v) = IF m = 0 THEN v ELSE g[m]
  BY Zenon DEF FlattenSeq, Together
<1>4. FlattenSeq(u) = IF n = 0 THEN u ELSE f[n]
  BY Zenon DEF FlattenSeq, Together
<1> HIDE DEF f, g
<1>5. g[m] = IF m = 1 THEN v[m] ELSE g[m - 1] \o v[m]
  <2>1. m \in 1..m
    BY <1>1
  <2>2. QED
    BY <1>2, <2>1 DEF Together
<1>6. \A i \in 1..n : f[i] = g[i] /\ f[i] \in Seq(S)
  <2>1. n \in Nat /\ m \in Nat /\ n <= m /\ \A i \in 1..n : u[i] = v[i] /\ u[i] \in Seq(S)
    BY <1>1
  <2> HIDE DEF n, m
  <2>2. QED
    BY <1>2, <2>1, TogetherAgree
<1>7. CASE n = 0
  <2>1. u = <<>>
    BY <1>7
  <2>2. u \in Seq(S) /\ u \o x = x
    BY <2>1, ConcatEmptySeq
  <2>3. m = 1
    BY <1>1, <1>7
  <2>4. QED
    BY <1>0, <1>1, <1>3, <1>4, <1>5, <1>7, <2>2, <2>3
<1>8. CASE n # 0
  <2>1. n \in 1..n /\ m # 1 /\ m # 0 /\ m - 1 = n
    BY <1>1, <1>8
  <2> HIDE DEF n, m
  <2>2. FlattenSeq(u) = f[n] /\ f[n] = g[n] /\ f[n] \in Seq(S)
    BY <1>4, <1>6, <1>8, <2>1
  <2>3. FlattenSeq(v) = g[n] \o x
    BY <1>1, <1>3, <1>5, <2>1 DEF m
  <2>4. QED
    BY <1>0, <2>2, <2>3
<1>9. QED
  BY <1>0, <1>7, <1>8

LEMMA FileIs ==
  ASSUME NEW n \in Nat
  PROVE  File(n) \in Seq(Cells) /\ Len(File(n)) = n /\ SubSeq(File(n), 1, n) = File(n)
<1>1. File(n) = [i \in 1..n |-> <<n, i>>] /\ \A i \in 1..n : <<n, i>> \in Cells
  BY DEF File, Cells
<1>2. File(n) \in [1..n -> Cells]
  BY <1>1
<1>3. File(n) \in Seq(Cells) /\ Len(File(n)) = n
  BY <1>2
<1>4. QED
  BY <1>3, SubSeqFull

LEMMA OneMore ==
  ASSUME NEW S, NEW u \in Seq(Seq(S)), NEW x \in Seq(S)
  PROVE  /\ Append(u, x) \in Seq(Seq(S)) /\ Len(Append(u, x)) = Len(u) + 1
         /\ FlattenSeq(Append(u, x)) = FlattenSeq(u) \o x
<1>1. Append(u, x) \in Seq(Seq(S)) /\ Len(Append(u, x)) = Len(u) + 1
  BY AppendProperties
<1>2. FlattenSeq(Append(u, x)) = FlattenSeq(u) \o x
  BY FlattenAppend
<1>3. QED
  BY <1>1, <1>2

\* A session to which the next part is added has one part more, and what they hold is
\* the beginning of the file up to where that part ends.
LEMMA OnePartMore ==
  ASSUME NEW n \in Nat, NEW p \in Nat, NEW s \in 0..n, NEW e \in s..n, NEW u, Has(u, p, n, s),
         NEW x, x = SubSeq(File(n), s + 1, e), NEW v, v = Both([k \in {p + 1} |-> x], u)
  PROVE  Has(v, p + 1, n, e)
<1>1. File(n) \in Seq(Cells) /\ Len(File(n)) = n
  BY FileIs
<1>2. x \in Seq(Cells)
  <2>1. \A i \in (s + 1)..e : File(n)[i] \in Cells
    BY <1>1
  <2>2. s + 1 \in Int /\ e \in Int
    OBVIOUS
  <2>3. QED
    BY <2>1, <2>2, SubSeqProperties
<1>3. u \in Seq(Seq(Cells)) /\ Len(u) = p /\ FlattenSeq(u) = SubSeq(File(n), 1, s)
  BY DEF Has
<1>4. v = Append(u, x)
  <2>1. v = [k \in {p + 1} \cup 1..p |-> IF k \in {p + 1} THEN x ELSE u[k]]
    BY <1>3 DEF Both
  <2>2. Append(u, x) = [k \in 1..(p + 1) |-> IF k = p + 1 THEN x ELSE u[k]]
    BY <1>3
  <2>3. {p + 1} \cup 1..p = 1..(p + 1)
    OBVIOUS
  <2>4. QED
    BY <2>1, <2>2, <2>3
<1>5. v \in Seq(Seq(Cells)) /\ Len(v) = p + 1 /\ FlattenSeq(v) = SubSeq(File(n), 1, s) \o x
  <2>1. PICK y : y = Append(u, x)
    OBVIOUS
  <2>2. y \in Seq(Seq(Cells)) /\ Len(y) = Len(u) + 1 /\ FlattenSeq(y) = FlattenSeq(u) \o x
    BY <1>2, <1>3, <2>1, OneMore
  <2>3. QED
    BY <1>3, <1>4, <2>1, <2>2
<1>7. SubSeq(File(n), 1, s) \o SubSeq(File(n), s + 1, e) = SubSeq(File(n), 1, e)
  <2>1. 1 \in 1..(Len(File(n)) + 1) /\ s \in (1 - 1)..Len(File(n)) /\ e \in s..Len(File(n))
    BY <1>1
  <2>2. QED
    BY <1>1, <2>1, ConcatAdjacentSubSeq
<1>8. QED
  BY <1>5, <1>7 DEF Has

\* An upload that begins has no part.
LEMMA NoPartYet ==
  ASSUME NEW n \in Nat
  PROVE  Has(<<>>, 0, n, 0)
<1>1. <<>> \in Seq(Seq(Cells)) /\ Len(<<>>) = 0
  OBVIOUS
<1>2. FlattenSeq(<<>>) = <<>>
  BY <1>1 DEF FlattenSeq
<1>3. SubSeq(File(n), 1, 0) = <<>>
  BY SubSeqEmpty
<1>4. QED
  BY <1>1, <1>2, <1>3 DEF Has

\* A range begins where it is asked for, and is shorter than that only at the end.
LEMMA Sliced ==
  ASSUME NEW o \in Seq(Cells), NEW offset \in Nat, NEW length \in Nat \ {0}
  PROVE  LET d == Slice(o, offset, length) IN
         /\ d \in Seq(Cells)
         /\ offset <= Len(o) => /\ SubSeq(o, 1, offset) \o d = SubSeq(o, 1, offset + Len(d))
                                /\ offset + Len(d) <= Len(o)
                                /\ Len(d) < length => offset + Len(d) = Len(o)
<1>0. PICK m, d : m = Len(o) /\ d = Slice(o, offset, length)
  OBVIOUS
<1>1. m \in Nat
  BY <1>0
<1>2. PICK e : e = IF offset + length < m THEN offset + length ELSE m
  OBVIOUS
<1>3. d = SubSeq(o, offset + 1, e) /\ e \in Nat /\ e <= m
  BY <1>0, <1>1, <1>2 DEF Slice
<1>4. /\ d \in Seq(Cells)
      /\ Len(d) = IF offset + 1 <= e THEN e - (offset + 1) + 1 ELSE 0
  <2>1. \A i \in (offset + 1)..e : o[i] \in Cells
    BY <1>0, <1>1, <1>3
  <2>2. offset + 1 \in Int /\ e \in Int
    BY <1>3
  <2>3. QED
    BY <1>3, <2>1, <2>2, SubSeqProperties
<1>5. ASSUME offset <= m
      PROVE  /\ SubSeq(o, 1, offset) \o d = SubSeq(o, 1, offset + Len(d))
             /\ offset + Len(d) <= m
             /\ Len(d) < length => offset + Len(d) = m
  <2>1. e \in offset..m
    BY <1>1, <1>2, <1>5
  <2>2. offset + Len(d) = e
    BY <1>4, <2>1
  <2>3. 1 \in 1..(m + 1) /\ offset \in (1 - 1)..m
    BY <1>1, <1>5
  <2>4. SubSeq(o, 1, offset) \o SubSeq(o, offset + 1, e) = SubSeq(o, 1, e)
    BY <1>0, <2>1, <2>3, ConcatAdjacentSubSeq
  <2>5. Len(d) < length => e = m
    BY <1>1, <1>2, <1>5, <2>1, <2>2
  <2>6. QED
    BY <1>3, <2>2, <2>4, <2>5
<1>6. QED
  BY <1>0, <1>4, <1>5

\* What changes in Void besides the sessions in S: objects that stay are those that
\* were not replaced, and sessions only go.
Steady(S) ==
  /\ \A i \in ObjectIds : i \notin replaced' => i \notin replaced /\ (objects[i] # Nothing => objects'[i] = objects[i])
  /\ \A i \in ObjectIds \ S : uploads'[i] \in {uploads[i], Nothing}
  /\ spent'.ids \in Nat /\ spent.ids <= spent'.ids

LEMMA SessionsDrawn ==
  ASSUME NEW t, NEW f, Sane(t, f)
  PROVE  \A id \in SessionsOf(t, f) : Drawn(id)
  BY DEF SessionsOf, Sane, Exact, NextPart, Finishing, Beginning

LEMMA PutKept ==
  ASSUME Stored, NEW S, Steady(S), NEW id, NEW n, Put(id, n)
  PROVE  Put(id, n)'
<1>1. File(n) # Nothing
  BY FilesAssumption DEF Put
<1>2. QED
  BY <1>1 DEF Put, Steady

LEMMA HeldKept ==
  ASSUME Stored, NEW S, Steady(S), NEW id, id \notin S, Drawn(id), NEW p, NEW n, NEW s, Held(id, p, n, s)
  PROVE  Held(id, p, n, s)'
<1>1. id \in ObjectIds
  BY DEF Stored, Drawn
<1>2. QED
  BY <1>1 DEF Held, Has, Steady

LEMMA DrawnKept ==
  ASSUME Stored, NEW S, Steady(S), NEW id, Drawn(id)
  PROVE  Drawn(id)'
  BY DEF Drawn, Steady, Stored

\* What is true of a task stays true when others store, or end its session.
LEMMA SaneKept ==
  ASSUME Stored, NEW S, Steady(S), NEW t, NEW f, Sane(t, f), SessionsOf(t, f) \cap S = {}
  PROVE  Sane(t, f)'
<1>1. Done(t)'
  <2>1. SUFFICES ASSUME t.end = "ok", Done(t) PROVE Done(t)'
    BY DEF Done, Sane
  <2>2. t.job = "put" => Put(t.id, t.file)'
    BY <2>1, PutKept DEF Done
  <2>3. t.job = "get" => t.id \in ObjectIds
          /\ (t.id \notin replaced' => objects'[t.id] # Nothing /\ t.data = objects'[t.id])
    BY <2>1 DEF Done, Steady
  <2>4. QED
    BY <2>2, <2>3 DEF Done
<1> DEFINE a == f.frame.args
<1>2. ASSUME f # Nothing, f.method \in {"upload", "upload_with"} PROVE Wholly(t, f)'
  <2>1. Wholly(t, f)
    BY <1>2 DEF Sane, Exact
  <2>2. t.job = "put" /\ Says(f, "Uploaded") => Put(a.id, t.file)'
    BY <2>1, PutKept DEF Wholly
  <2>3. QED
    BY <2>1, <2>2 DEF Wholly
<1>3. ASSUME f # Nothing, f.method = "upload_begin" PROVE Beginning(t, f)'
  <2>1. Beginning(t, f)
    BY <1>3 DEF Sane, Exact
  <2>2. ASSUME Says(f, "Uploaded") PROVE Drawn(a.id)' /\ Held(a.id, 0, t.file, 0)'
    <3>1. a.id \notin S
      BY <1>3, <2>2 DEF SessionsOf
    <3>2. QED
      BY <2>1, <2>2, <3>1, HeldKept, DrawnKept DEF Beginning
  <2>3. QED
    BY <2>1, <2>2 DEF Beginning
<1>4. ASSUME f # Nothing, f.method = "upload_part" PROVE NextPart(t, f)'
  <2>1. NextPart(t, f) /\ t.id \notin S
    BY <1>4 DEF Sane, Exact, SessionsOf
  <2>2. Drawn(t.id) /\ Drawn(t.id)'
    BY <2>1, DrawnKept DEF NextPart
  <2>3. \A s : Held(t.id, t.part - 2, t.file, s) => Held(t.id, t.part - 2, t.file, s)'
    <3>1. TAKE s
    <3>2. QED
      BY <2>1, <2>2, HeldKept
  <2>4. Held(t.id, t.part - 1, t.file, t.sent) => Held(t.id, t.part - 1, t.file, t.sent)'
    BY <2>1, <2>2, HeldKept
  <2>5. QED
    BY <2>1, <2>2, <2>3, <2>4 DEF NextPart
<1>5. ASSUME f # Nothing, f.method = "upload_finish" PROVE Finishing(t, f)'
  <2>1. Finishing(t, f) /\ t.id \notin S
    BY <1>5 DEF Sane, Exact, SessionsOf
  <2>2. Drawn(t.id) /\ Drawn(t.id)'
    BY <2>1, DrawnKept DEF Finishing
  <2>3. Held(t.id, t.part - 1, t.file, t.file) => Held(t.id, t.part - 1, t.file, t.file)'
    BY <2>1, <2>2, HeldKept
  <2>4. Put(a.id, t.file) => Put(a.id, t.file)'
    BY PutKept
  <2>5. QED
    BY <2>1, <2>2, <2>3, <2>4 DEF Finishing
<1>6. ASSUME f # Nothing, f.method = "download_range" PROVE Ranging(t, f)'
  <2>1. Ranging(t, f)
    BY <1>6 DEF Sane, Exact
  <2>2. t.id \in ObjectIds /\ (t.id \notin replaced' => t.id \notin replaced /\ (objects[t.id] # Nothing => objects'[t.id] = objects[t.id]))
    BY <2>1 DEF Ranging, Fetched, Steady
  <2>3. Fetched(t.id, t.data)'
    BY <2>1, <2>2 DEF Ranging, Fetched
  <2>4. ASSUME Says(f, "Downloaded"), t.id \notin replaced'
        PROVE  objects'[t.id] # Nothing /\ a.bytes = Slice(objects'[t.id], Len(t.data), PartLen)
    BY <2>1, <2>2, <2>4 DEF Ranging
  <2>5. QED
    BY <2>1, <2>3, <2>4 DEF Ranging
<1>7. f # Nothing => Exact(t, f)'
  BY <1>2, <1>3, <1>4, <1>5, <1>6 DEF Sane, Exact
<1>8. QED
  BY <1>1, <1>7 DEF Sane

\* When no session is touched, nothing is left to show.
LEMMA SaneSteady ==
  ASSUME Stored, Steady({}), NEW t, NEW f, Sane(t, f)
  PROVE  Sane(t, f)'
<1>1. SessionsOf(t, f) \cap {} = {}
  OBVIOUS
<1>2. QED
  BY <1>1, SaneKept

\* A range asked for has a length.
LEMMA RangesAreAsked ==
  ASSUME NEW t, NEW f, Ranging(t, f), Asking(f)
  PROVE  f.frame.args.length # 0
<1>1. f.frame.args.length = PartLen
  BY DEF Ranging
<1>2. QED
  BY <1>1, LimitsAssumption

LEMMA LeftKept ==
  ASSUME Stored, NEW S, Steady(S), NEW r, Left(r), SessionOf(r) \cap S = {}
  PROVE  Left(r)'
<1> DEFINE does == VoidHandlers[r.variant].does
<1>1. \A id \in SessionOf(r) : Drawn(id)'
  BY DrawnKept DEF Left
<1>2. ASSUME does = "upload_finish" PROVE \E n \in FileSizes : Held(r.args.id, r.args.count, n, n)'
  <2>1. PICK n \in FileSizes : Held(r.args.id, r.args.count, n, n)
    BY <1>2 DEF Left
  <2>2. Drawn(r.args.id) /\ r.args.id \notin S
    BY <1>2 DEF Left, SessionOf
  <2>3. Held(r.args.id, r.args.count, n, n)'
    BY <2>1, <2>2, HeldKept
  <2>4. QED
    BY <2>3
<1>3. QED
  BY <1>1, <1>2 DEF Left

LEMMA OtherKept ==
  ASSUME FilesInv, NEW S, Steady(S), NEW d \in Callers, UNCHANGED <<task[d], call[d]>>, Mine(d) \cap S = {}
  PROVE  Sane(task[d], call[d])' /\ Mine(d)' = Mine(d)
<1>1. PICK t, f : t = task[d] /\ f = call[d] /\ t = task'[d] /\ f = call'[d]
  OBVIOUS
<1>2. Stored /\ Sane(t, f) /\ SessionsOf(t, f) = Mine(d)
  BY <1>1 DEF FilesInv, Mine
<1>3. Sane(t, f)'
  BY <1>2, SaneKept
<1>4. Mine(d)' = SessionsOf(t, f)
  BY <1>1 DEF Mine
<1>5. Sane(task[d], call[d])'
  BY <1>1, <1>3
<1>6. QED
  BY <1>2, <1>4, <1>5

\* Nobody has the next id yet.
LEMMA NextIsNew ==
  ASSUME FilesInv
  PROVE  /\ \A d \in Callers : NextId \notin Mine(d)
         /\ \A r \in left : NextId \notin SessionOf(r)
<1>1. ~Drawn(NextId)
  BY DEF FilesInv, Stored, NextId, Drawn
<1>2. ASSUME NEW d \in Callers PROVE NextId \notin Mine(d)
  BY <1>1, SessionsDrawn DEF FilesInv, Mine
<1>3. ASSUME NEW r \in left PROVE NextId \notin SessionOf(r)
  BY <1>1 DEF FilesInv, Left
<1>4. QED
  BY <1>2, <1>3

\* One caller moves, and with it only its own session and the next.
LEMMA OneTaskMoves ==
  ASSUME FilesInv, CallsInv, NEW c \in Callers, NEW t, NEW f, NEW S,
         task' = [task EXCEPT ![c] = t], call' = [call EXCEPT ![c] = f], left' = left,
         Stored', Steady(S), S \subseteq Mine(c) \cup {NextId},
         Sane(t, f)', SessionsOf(t, f) \subseteq Mine(c) \cup {NextId}
  PROVE  FilesInv'
<1>1. task'[c] = t /\ call'[c] = f /\ \A d \in Callers \ {c} : task'[d] = task[d] /\ call'[d] = call[d]
  BY DEF CallsInv
<1>2. ASSUME NEW d \in Callers \ {c} PROVE Sane(task[d], call[d])' /\ Mine(d)' = Mine(d)
  <2>1. Mine(d) \cap S = {}
    BY NextIsNew DEF FilesInv
  <2>2. QED
    BY <1>1, <2>1, OtherKept
<1>3. Mine(c)' = SessionsOf(t, f)
  BY <1>1 DEF Mine
<1>4. ASSUME NEW d \in Callers PROVE Sane(task[d], call[d])'
  <2>1. CASE d = c
    BY <1>1, <2>1
  <2>2. QED
    BY <1>2, <2>1
<1>5. ASSUME NEW d \in Callers \ {c} PROVE Mine(d)' \cap Mine(c)' = {}
  <2>1. Mine(d) \cap Mine(c) = {} /\ NextId \notin Mine(d)
    BY NextIsNew DEF FilesInv
  <2>2. QED
    BY <1>2, <1>3, <2>1
<1>6. ASSUME NEW d \in Callers, NEW e \in Callers, d # e PROVE Mine(d)' \cap Mine(e)' = {}
  <2>1. CASE d = c
    BY <1>5, <1>6, <2>1
  <2>2. CASE e = c
    BY <1>5, <1>6, <2>2
  <2>3. CASE d # c /\ e # c
    BY <1>2, <1>6, <2>3 DEF FilesInv
  <2>4. QED
    BY <2>1, <2>2, <2>3
<1>7. ASSUME NEW r \in left
      PROVE  Left(r)' /\ \A d \in Callers : SessionOf(r) \cap Mine(d)' = {}
  <2>1. Stored /\ Left(r) /\ NextId \notin SessionOf(r) /\ \A d \in Callers : SessionOf(r) \cap Mine(d) = {}
    BY NextIsNew DEF FilesInv
  <2>2. SessionOf(r) \cap S = {}
    BY <2>1
  <2>3. Left(r)'
    BY <2>1, <2>2, LeftKept
  <2>4. QED
    BY <1>2, <1>3, <2>1, <2>3
<1>8. \A r, q \in left : r # q => SessionOf(r) \cap SessionOf(q) = {}
  BY DEF FilesInv
<1>9. (\A r \in left : Left(r) /\ \A d \in Callers : SessionOf(r) \cap Mine(d) = {})'
  <2>1. SUFFICES ASSUME NEW r \in left' PROVE Left(r)' /\ \A d \in Callers : SessionOf(r) \cap Mine(d)' = {}
    OBVIOUS
  <2>2. QED
    BY <1>7
<1>10. QED
  BY <1>4, <1>6, <1>8, <1>9 DEF FilesInv

\* A request is left behind, or an earlier one runs.
LEMMA LeftBehind ==
  ASSUME FilesInv, CallsInv, NEW c \in Callers, NEW t, t.end # "ok", NEW r,
         task' = [task EXCEPT ![c] = t], call' = [call EXCEPT ![c] = Nothing], left' \in {left, left \cup {r}},
         Stored', Steady({}), left' # left => Left(r)' /\ SessionOf(r) \subseteq Mine(c)
  PROVE  FilesInv'
<1>1. task'[c] = t /\ call'[c] = Nothing /\ \A d \in Callers \ {c} : task'[d] = task[d] /\ call'[d] = call[d]
  BY DEF CallsInv
<1>2. ASSUME NEW d \in Callers \ {c} PROVE Sane(task[d], call[d])' /\ Mine(d)' = Mine(d)
  BY <1>1, OtherKept
<1>3. Sane(task[c], call[c])' /\ Mine(c)' = {}
  BY <1>1 DEF Sane, Done, Mine, SessionsOf
<1>4. \A d \in Callers : Sane(task[d], call[d])' /\ Mine(d)' \subseteq Mine(d) /\ (d = c => Mine(d)' = {})
  BY <1>2, <1>3
<1>5. ASSUME NEW q \in left' PROVE Left(q)' /\ \A d \in Callers : SessionOf(q) \cap Mine(d)' = {}
  <2>1. CASE q \in left
    <3>1. Stored /\ Left(q) /\ \A d \in Callers : SessionOf(q) \cap Mine(d) = {}
      BY <2>1 DEF FilesInv
    <3>2. Left(q)'
      BY <3>1, LeftKept
    <3>3. QED
      BY <1>4, <3>1, <3>2
  <2>2. CASE q \notin left
    <3>1. q = r /\ Left(r)' /\ SessionOf(r) \subseteq Mine(c)
      BY <2>2
    <3>2. ASSUME NEW d \in Callers PROVE SessionOf(r) \cap Mine(d)' = {}
      BY <1>4, <3>1 DEF FilesInv
    <3>3. QED
      BY <3>1, <3>2
  <2>3. QED
    BY <2>1, <2>2
<1>6. ASSUME NEW p \in left', NEW q \in left', p # q PROVE SessionOf(p) \cap SessionOf(q) = {}
  <2>1. \A x \in left' : x \in left \/ (x = r /\ SessionOf(r) \subseteq Mine(c))
    OBVIOUS
  <2>2. \A x \in left : SessionOf(x) \cap Mine(c) = {} /\ \A y \in left : x # y => SessionOf(x) \cap SessionOf(y) = {}
    BY DEF FilesInv
  <2>3. QED
    BY <1>6, <2>1, <2>2
<1>7. \A d, e \in Callers : d # e => Mine(d)' \cap Mine(e)' = {}
  BY <1>4 DEF FilesInv
<1>8. QED
  BY <1>4, <1>5, <1>6, <1>7 DEF FilesInv

LEMMA LeftRuns ==
  ASSUME FilesInv, NEW r \in left, left' = left \ {r}, UNCHANGED <<task, call>>,
         NEW S, Stored', Steady(S), S \subseteq SessionOf(r) \cup {NextId}
  PROVE  FilesInv'
<1>1. ASSUME NEW d \in Callers PROVE Sane(task[d], call[d])' /\ Mine(d)' = Mine(d)
  <2>1. Mine(d) \cap S = {}
    BY NextIsNew DEF FilesInv
  <2>2. QED
    BY <2>1, OtherKept
<1>2. ASSUME NEW q \in left' PROVE Left(q)'
  <2>1. Stored /\ Left(q) /\ SessionOf(q) \cap S = {}
    BY NextIsNew DEF FilesInv
  <2>2. QED
    BY <2>1, LeftKept
<1>3. \A q \in left' : \A d \in Callers : SessionOf(q) \cap Mine(d)' = {}
  BY <1>1 DEF FilesInv
<1>4. \A p, q \in left' : p # q => SessionOf(p) \cap SessionOf(q) = {}
  BY DEF FilesInv
<1>5. \A d, e \in Callers : d # e => Mine(d)' \cap Mine(e)' = {}
  BY <1>1 DEF FilesInv
<1>6. QED
  BY <1>1, <1>2, <1>3, <1>4, <1>5 DEF FilesInv

\* What counts and what was drawn only grows.
Spends ==
  /\ spent' = [tasks |-> spent'.tasks, errors |-> spent'.errors, ids |-> spent'.ids]
  /\ spent'.ids \in Nat \ {0} /\ spent.ids <= spent'.ids /\ 1..spent'.ids \subseteq ObjectIds

LEMMA SpentGrows ==
  ASSUME Stored,
         \/ UNCHANGED spent
         \/ \E x : spent' = [spent EXCEPT !.tasks = x]
         \/ \E x : spent' = [spent EXCEPT !.errors = x]
         \/ Fresh /\ spent' = [spent EXCEPT !.ids = @ + 1]
  PROVE  Spends
<1>1. PICK a, b, n : spent = [tasks |-> a, errors |-> b, ids |-> n]
  BY DEF Stored
<1>2. spent.ids = n /\ n \in Nat \ {0} /\ 1..n \subseteq ObjectIds
  BY <1>1 DEF Stored
<1>3. CASE UNCHANGED spent
  BY <1>1, <1>2, <1>3 DEF Spends
<1>4. ASSUME NEW x, spent' = [spent EXCEPT !.tasks = x] PROVE Spends
  <2>1. spent' = [tasks |-> x, errors |-> b, ids |-> n]
    BY <1>1, <1>4
  <2>2. QED
    BY <1>2, <2>1 DEF Spends
<1>5. ASSUME NEW x, spent' = [spent EXCEPT !.errors = x] PROVE Spends
  <2>1. spent' = [tasks |-> a, errors |-> x, ids |-> n]
    BY <1>1, <1>5
  <2>2. QED
    BY <1>2, <2>1 DEF Spends
<1>6. CASE Fresh /\ spent' = [spent EXCEPT !.ids = @ + 1]
  <2>1. spent' = [tasks |-> a, errors |-> b, ids |-> n + 1]
    BY <1>1, <1>6
  <2>2. n + 1 \in ObjectIds
    BY <1>2, <1>6 DEF Fresh, NextId
  <2>3. 1..(n + 1) \subseteq ObjectIds
    BY <1>2, <2>2
  <2>4. QED
    BY <1>2, <2>1, <2>3 DEF Spends
<1>7. QED
  BY <1>3, <1>4, <1>5, <1>6

LEMMA TakenIsSteady ==
  ASSUME Stored, NEW o, Takes(o), Spends, NEW S,
         o.uploads = [i \in ObjectIds |-> o.uploads[i]],
         \A i \in ObjectIds \ S : o.uploads[i] \in {uploads[i], Nothing},
         o.objects = [i \in ObjectIds |-> o.objects[i]],
         \A i \in ObjectIds : o.objects[i] \in {objects[i]} \cup Files
  PROVE  Stored' /\ Steady(S)
<1>1. objects' = o.objects /\ uploads' = o.uploads
      /\ replaced' = replaced \cup {id \in ObjectIds : objects[id] # Nothing /\ o.objects[id] # objects[id]}
  BY DEF Takes
<1>2. ASSUME NEW i \in ObjectIds, objects'[i] # Nothing
      PROVE  \E n \in FileSizes \cup {StoredSize} : objects'[i] = File(n)
  BY <1>1, <1>2 DEF Stored, Files
<1>3. objects' = [i \in ObjectIds |-> objects'[i]] /\ uploads' = [i \in ObjectIds |-> uploads'[i]]
  BY <1>1
<1>4. Stored'
  BY <1>2, <1>3 DEF Stored, Spends
<1>5. Steady(S)
  BY <1>1 DEF Steady, Spends
<1>6. QED
  BY <1>4, <1>5

LEMMA StoreRests ==
  ASSUME Stored, UNCHANGED storage, Spends
  PROVE  Stored' /\ Steady({})
<1>1. UNCHANGED <<objects, uploads, replaced>>
  BY DEF storage
<1>2. Stored'
  BY <1>1 DEF Stored, Spends
<1>3. Steady({})
  BY <1>1 DEF Steady, Spends
<1>4. QED
  BY <1>2, <1>3

----------------------------------------------------------------------------
(* What the calls of files ask and answer                                  *)

LEMMA Answered ==
  ASSUME CallsInv, NEW c \in Callers, call[c] # Nothing, NEW frame, Responds(c, frame)
  PROVE  call' = [call EXCEPT ![c] = [client |-> call[c].client, method |-> call[c].method,
                                      at |-> "answered", frame |-> frame]]
<1>1. PICK f : f = call[c]
  OBVIOUS
<1>2. f = [client |-> f.client, method |-> f.method, at |-> f.at, frame |-> f.frame]
  BY <1>1 DEF CallsInv, OnItsWay
<1>3. call' = [call EXCEPT ![c] = [f EXCEPT !.at = "answered", !.frame = frame]]
  BY <1>1 DEF Responds
<1> DEFINE g == [f EXCEPT !.at = "answered", !.frame = frame]
<1>4. g = [client |-> f.client, method |-> f.method, at |-> "answered", frame |-> frame]
  <2>1. f = [x \in {"client", "method", "at", "frame"} |-> f[x]]
    BY <1>2
  <2>2. g = [x \in {"client", "method", "at", "frame"} |-> g[x]]
    BY <2>1
  <2>3. g.client = f.client
    BY <2>1
  <2>4. g.method = f.method
    BY <2>1
  <2>5. g.at = "answered" /\ g.frame = frame
    BY <2>1
  <2> HIDE DEF g
  <2>6. QED
    BY <2>2, <2>3, <2>4, <2>5
<1> HIDE DEF g
<1>5. QED
  BY <1>1, <1>3, <1>4 DEF g

\* An answer says one kind, with what it carries.
LEMMA SaysOne ==
  ASSUME NEW f, f.client \in DOMAIN Clients, f.at = "answered",
         NEW kind \in Kinds(ServerOf(f)), NEW args, f.frame = Reply(f, kind, args)
  PROVE  /\ \A other \in Kinds(ServerOf(f)) : Says(f, other) => other = kind
         /\ kind \notin RecordKinds => f.frame.args = args /\ Says(f, kind)
<1>1. ASSUME NEW other \in Kinds(ServerOf(f)), Says(f, other) PROVE other = kind
  <2>1. PICK d : d = Decode(AnswerTable(ServerOf(f)), f.frame)
    OBVIOUS
  <2>2. Kind(d) = kind
    BY <2>1, AnswerDecoded DEF Reply
  <2>3. Kind(d) = other
    <3>1. PICK x : x = f.frame.args
      OBVIOUS
    <3>2. f.frame = Answer(AnswerTable(ServerOf(f)), other, x)
      BY <1>1, <3>1 DEF Says, Reply
    <3>3. d = Decode(AnswerTable(ServerOf(f)), Answer(AnswerTable(ServerOf(f)), other, x))
      BY <2>1, <3>2
    <3>4. QED
      BY <3>3, AnswerDecoded
  <2>4. QED
    BY <2>2, <2>3
<1>2. kind \notin RecordKinds => f.frame.args = args
  BY DEF Reply, Answer, Encode
<1>3. QED
  BY <1>1, <1>2 DEF Says

\* Methods that have one answer besides an error.
Only == [upload |-> "Uploaded", upload_begin |-> "Uploaded", upload_part |-> "Ack", upload_finish |-> "Uploaded",
         download_range |-> "Downloaded"]

LEMMA OnlyAccepted ==
  ASSUME NEW client \in DOMAIN Clients, NEW m \in FileMethods, m \in DOMAIN Clients[client].methods
  PROVE  Clients[client].methods[m].accepted = {Only[m]} /\ Clients[client].server = "void"
<1>1. client \in VoidClients
  BY FilesByVoid
<1>2. CASE client = "sun_void"
  BY <1>2 DEF Clients, SunVoidClient, Client, Both, SunVoidMethods, Method, Only, FileMethods
<1>3. CASE client = "mass_void"
  BY <1>3 DEF Clients, MassVoidClient, Client, Both, MassVoidMethods, Method, Only, FileMethods
<1>4. QED
  BY <1>1, <1>2, <1>3 DEF VoidClients

\* A call of files that ended well has the answer of its method.
LEMMA EndsWell ==
  ASSUME CallsInv, NEW c \in Callers, call[c] # Nothing, Ended(c), Verdict(c) = "ok",
         call[c].method \in FileMethods
  PROVE  Says(call[c], Only[call[c].method]) /\ Response(c).args = call[c].frame.args
<1>1. PICK f : f = call[c]
  OBVIOUS
<1>2. f.at = "answered"
  BY <1>1 DEF Ended, Waits, Verdict
<1>3. OnItsWay(f, executed[c])
  BY <1>1 DEF CallsInv
<1>4. PICK kind \in MethodOf(f).accepted \cup {"Error"} :
        \E args : kind \in Kinds(ServerOf(f)) /\ f.frame = Reply(f, kind, args)
  BY <1>2, <1>3 DEF OnItsWay
<1>5. PICK args : kind \in Kinds(ServerOf(f)) /\ f.frame = Reply(f, kind, args)
  BY <1>4
<1>6. MethodOf(f).accepted = {Only[f.method]}
  BY <1>1, <1>3, OnlyAccepted DEF MethodOf, OnItsWay
<1> DEFINE d == Decode(AnswerTable(ServerOf(f)), f.frame)
<1>7. d # Unreadable /\ Kind(d) = kind /\ (d.variant = "Error" <=> kind = "Error")
  BY <1>5, AnswerDecoded DEF Reply
<1>8. Response(c) = d
  <2>1. Clients[f.client].end.table = AnswerTable(ServerOf(f))
    BY <1>3, ClientsAgree DEF OnItsWay, Agreed, ServerOf
  <2>2. Response(c) # Unreadable
    BY DEF Verdict
  <2>3. QED
    BY <1>1, <2>1, <2>2 DEF Response, Reads
<1>9. kind # "Error"
  BY <1>7, <1>8 DEF Verdict
<1>10. kind = Only[f.method] /\ kind \notin RecordKinds
  <2>1. kind = Only[f.method]
    BY <1>6, <1>9
  <2>2. Only[f.method] \notin RecordKinds
    BY <1>1 DEF Only, FileMethods, RecordKinds
  <2>3. QED
    BY <2>1, <2>2
<1>11. Says(f, kind) /\ f.frame.args = args
  BY <1>2, <1>3, <1>5, <1>10, SaysOne DEF OnItsWay
<1>12. d.args = f.frame.args
  BY <1>7 DEF Decode
<1>13. QED
  BY <1>1, <1>8, <1>10, <1>11, <1>12

----------------------------------------------------------------------------
(* What the handlers of files do                                           *)

Outcome(kind, args, objs, ups) == [kind |-> kind, args |-> args, objects |-> objs, uploads |-> ups]

LEMMA OutcomeParts ==
  ASSUME NEW kind, NEW args, NEW objs, NEW ups, NEW o, o = Outcome(kind, args, objs, ups)
  PROVE  o.kind = kind /\ o.args = args /\ o.objects = objs /\ o.uploads = ups
  BY DEF Outcome

LEMMA OutcomesAre ==
  /\ Refuses = Outcome("Error", <<>>, objects, uploads)
  /\ \A kind, args : Same(kind, args) = Outcome(kind, args, objects, uploads)
  /\ \A id, data : Stores(id, data) = Outcome("Uploaded", [id |-> id], [objects EXCEPT ![id] = data], uploads)
  /\ \A kind, args, objs, ups, id :
       Forgets(Outcome(kind, args, objs, ups), id) = Outcome(kind, args, objs, [uploads EXCEPT ![id] = Nothing])
  BY DEF Refuses, Same, Stores, Forgets, Outcome

\* What the outcome of each is.
LEMMA UploadOutcome ==
  ASSUME NEW a
  PROVE  /\ VoidOutcome("upload", a) = Outcome("Uploaded", [id |-> NextId], [objects EXCEPT ![NextId] = a.bytes], uploads)
         /\ VoidOutcome("upload_with", a) = Outcome("Uploaded", [id |-> a.id], [objects EXCEPT ![a.id] = a.bytes], uploads)
  BY OutcomesAre DEF VoidOutcome

LEMMA DownloadOutcome ==
  ASSUME NEW a, NEW does \in {"download", "download_wait", "download_range"}
  PROVE  \E kind, args : VoidOutcome(does, a) = Outcome(kind, args, objects, uploads)
<1>1. \A kind, args : Same(kind, args) = Outcome(kind, args, objects, uploads)
  BY OutcomesAre
<1>2. Refuses = Outcome("Error", <<>>, objects, uploads)
  BY OutcomesAre
<1>3. CASE does = "download"
  BY <1>1, <1>2, <1>3 DEF VoidOutcome
<1>4. CASE does = "download_wait"
  BY <1>1, <1>2, <1>4 DEF VoidOutcome
<1>5. CASE does = "download_range"
  BY <1>1, <1>2, <1>5 DEF VoidOutcome, DownloadRange
<1>6. QED
  BY <1>3, <1>4, <1>5

LEMMA BeginOutcome ==
  ASSUME NEW a
  PROVE  VoidOutcome("upload_begin", a) = Outcome("Uploaded", [id |-> NextId], objects, [uploads EXCEPT ![NextId] = <<>>])
<1>1. VoidOutcome("upload_begin", a) = [Same("Uploaded", [id |-> NextId]) EXCEPT !.uploads = [uploads EXCEPT ![NextId] = <<>>]]
  BY DEF VoidOutcome
<1>2. QED
  BY <1>1 DEF Same, Outcome

LEMMA PartOutcome ==
  ASSUME NEW a
  PROVE  VoidOutcome("upload_part", a) =
           IF uploads[a.id] = Nothing THEN Outcome("Error", <<>>, objects, uploads)
           ELSE Outcome("Ack", <<>>, objects,
                        [uploads EXCEPT ![a.id] = Both([k \in {a.number} |-> a.bytes], uploads[a.id])])
<1>1. VoidOutcome("upload_part", a) =
        IF uploads[a.id] = Nothing THEN Refuses
        ELSE [Same("Ack", <<>>) EXCEPT !.uploads = [uploads EXCEPT ![a.id] = Both([k \in {a.number} |-> a.bytes], @)]]
  BY DEF VoidOutcome
<1>2. CASE uploads[a.id] = Nothing
  BY <1>1, <1>2, OutcomesAre
<1>3. CASE uploads[a.id] # Nothing
  <2>1. PICK x : x = Both([k \in {a.number} |-> a.bytes], uploads[a.id])
    OBVIOUS
  <2>2. VoidOutcome("upload_part", a) = [Same("Ack", <<>>) EXCEPT !.uploads = [uploads EXCEPT ![a.id] = x]]
    BY <1>1, <1>3, <2>1
  <2>3. VoidOutcome("upload_part", a) = Outcome("Ack", <<>>, objects, [uploads EXCEPT ![a.id] = x])
    BY <2>2 DEF Same, Outcome
  <2>4. QED
    BY <1>3, <2>1, <2>3
<1>4. QED
  BY <1>2, <1>3

\* A finish that stores stores what the session holds.
LEMMA FinishOutcome ==
  ASSUME NEW a
  PROVE  \/ VoidOutcome("upload_finish", a) = Outcome("Error", <<>>, objects, uploads)
         \/ VoidOutcome("upload_finish", a) = Outcome("Error", <<>>, objects, [uploads EXCEPT ![a.id] = Nothing])
         \/ /\ uploads[a.id] # Nothing
            /\ VoidOutcome("upload_finish", a) =
                 Outcome("Uploaded", [id |-> a.id], [objects EXCEPT ![a.id] = FlattenSeq(uploads[a.id])],
                         [uploads EXCEPT ![a.id] = Nothing])
<1>1. VoidOutcome("upload_finish", a) = UploadFinish(a)
  BY DEF VoidOutcome
<1>2. QED
  BY <1>1, OutcomesAre DEF UploadFinish

LEMMA FilesAreStored ==
  ASSUME Stored, NEW id \in ObjectIds, objects[id] # Nothing
  PROVE  objects[id] \in Seq(Cells) /\ \E n \in Nat : objects[id] = File(n) /\ Len(objects[id]) = n
<1>1. PICK n \in FileSizes \cup {StoredSize} : objects[id] = File(n)
  BY DEF Stored
<1>2. n \in Nat
  BY SizesAssumption
<1>3. QED
  BY <1>1, <1>2, FileIs

\* Whoever asked for it: only the session of the request and the next id change
\* what others rely on.
LEMMA RanSteady ==
  ASSUME Stored, NEW r, Left(r), NEW does \in FileWork, does = VoidHandlers[r.variant].does,
         Draws(does) => Fresh, NEW o, o = VoidOutcome(does, r.args), Takes(o), Spends
  PROVE  Stored' /\ Steady(SessionOf(r) \cup {NextId})
<1> DEFINE a == r.args
<1>0. PICK S : S = SessionOf(r) \cup {NextId}
  OBVIOUS
<1>1. ASSUME NEW kind, NEW args, NEW objs, NEW ups, o = Outcome(kind, args, objs, ups),
             objs = [i \in ObjectIds |-> objs[i]], \A i \in ObjectIds : objs[i] \in {objects[i]} \cup Files,
             ups = [i \in ObjectIds |-> ups[i]], \A i \in ObjectIds \ S : ups[i] \in {uploads[i], Nothing}
      PROVE  Stored' /\ Steady(S)
  <2>1. o.objects = objs /\ o.uploads = ups
    BY <1>1, OutcomeParts
  <2>2. QED
    BY <1>1, <2>1, TakenIsSteady
<1>2. objects = [i \in ObjectIds |-> objects[i]] /\ uploads = [i \in ObjectIds |-> uploads[i]]
  BY DEF Stored
<1>5. /\ \A i \in ObjectIds : objects[i] \in {objects[i]} \cup Files
      /\ \A i \in ObjectIds \ S : uploads[i] \in {uploads[i], Nothing}
  OBVIOUS
<1>6. ASSUME NEW kind, NEW args, o = Outcome(kind, args, objects, uploads)
      PROVE  Stored' /\ Steady(S)
  <2>1. QED
    BY <1>1, <1>2, <1>5, <1>6
<1>7. ASSUME NEW kind, NEW args, NEW ups, o = Outcome(kind, args, objects, ups),
             ups = [i \in ObjectIds |-> ups[i]], \A i \in ObjectIds \ S : ups[i] \in {uploads[i], Nothing}
      PROVE  Stored' /\ Steady(S)
  BY <1>1, <1>2, <1>5, <1>7
<1>9. ASSUME does \in {"upload", "upload_with"} PROVE Stored' /\ Steady(S)
  <2>1. a.bytes \in Files
    BY <1>9 DEF Left
  <2>2. PICK id : o = Outcome("Uploaded", [id |-> id], [objects EXCEPT ![id] = a.bytes], uploads)
    BY <1>9, UploadOutcome
  <2>3. PICK objs : objs = [objects EXCEPT ![id] = a.bytes]
    OBVIOUS
  <2>4. objs = [i \in ObjectIds |-> objs[i]] /\ \A i \in ObjectIds : objs[i] \in {objects[i]} \cup Files
    BY <1>2, <2>1, <2>3
  <2>5. o = Outcome("Uploaded", [id |-> id], objs, uploads)
    BY <2>2, <2>3
  <2>6. QED
    BY <1>1, <1>2, <1>5, <2>4, <2>5
<1>10. ASSUME does \in {"download", "download_wait", "download_range"} PROVE Stored' /\ Steady(S)
  <2>1. PICK kind, args : o = Outcome(kind, args, objects, uploads)
    BY <1>10, DownloadOutcome
  <2>2. QED
    BY <1>6, <2>1
<1>11. ASSUME does = "upload_begin" PROVE Stored' /\ Steady(S)
  <2>1. PICK ups : ups = [uploads EXCEPT ![NextId] = <<>>]
    OBVIOUS
  <2>2. o = Outcome("Uploaded", [id |-> NextId], objects, ups)
    BY <1>11, <2>1, BeginOutcome
  <2>3. ups = [i \in ObjectIds |-> ups[i]] /\ \A i \in ObjectIds \ S : ups[i] \in {uploads[i], Nothing}
    BY <1>0, <1>2, <2>1
  <2>4. QED
    BY <1>7, <2>2, <2>3
<1>12. ASSUME does = "upload_part" PROVE Stored' /\ Steady(S)
  <2>1. a.id \in S
    BY <1>0, <1>12 DEF SessionOf
  <2>2. CASE o = Outcome("Error", <<>>, objects, uploads)
    BY <1>6, <2>2
  <2>3. ASSUME NEW x, o = Outcome("Ack", <<>>, objects, [uploads EXCEPT ![a.id] = x]) PROVE Stored' /\ Steady(S)
    <3>1. PICK ups : ups = [uploads EXCEPT ![a.id] = x]
      OBVIOUS
    <3>2. o = Outcome("Ack", <<>>, objects, ups)
      BY <2>3, <3>1
    <3>3. ups = [i \in ObjectIds |-> ups[i]] /\ \A i \in ObjectIds \ S : ups[i] \in {uploads[i], Nothing}
      BY <1>2, <2>1, <3>1
    <3>4. QED
      BY <1>7, <3>2, <3>3
  <2>4. QED
    BY <1>12, <2>2, <2>3, PartOutcome
<1>13. ASSUME does = "upload_finish" PROVE Stored' /\ Steady(S)
  <2>1. PICK ups : ups = [uploads EXCEPT ![a.id] = Nothing]
    OBVIOUS
  <2>2. ups = [i \in ObjectIds |-> ups[i]] /\ \A i \in ObjectIds \ S : ups[i] \in {uploads[i], Nothing}
    BY <1>2, <2>1
  <2>3. CASE o = Outcome("Error", <<>>, objects, uploads)
    <3>1. QED
      BY <1>6, <2>3
  <2>4. CASE o = Outcome("Error", <<>>, objects, [uploads EXCEPT ![a.id] = Nothing])
    <3>1. o = Outcome("Error", <<>>, objects, ups)
      BY <2>1, <2>4
    <3>2. QED
      BY <1>7, <2>2, <3>1
  <2>5. CASE /\ uploads[a.id] # Nothing
             /\ o = Outcome("Uploaded", [id |-> a.id], [objects EXCEPT ![a.id] = FlattenSeq(uploads[a.id])],
                            [uploads EXCEPT ![a.id] = Nothing])
    <3>1. PICK n \in FileSizes : Held(a.id, a.count, n, n)
      BY <1>13 DEF Left
    <3>2. n \in Nat
      BY SizesAssumption
    <3>3. FlattenSeq(uploads[a.id]) = File(n)
      BY <2>5, <3>1, <3>2, FileIs DEF Held, Has
    <3>4. PICK objs : objs = [objects EXCEPT ![a.id] = FlattenSeq(uploads[a.id])]
      OBVIOUS
    <3>5. objs = [i \in ObjectIds |-> objs[i]] /\ \A i \in ObjectIds : objs[i] \in {objects[i]} \cup Files
      BY <1>2, <3>3, <3>4 DEF Files
    <3>6. o = Outcome("Uploaded", [id |-> a.id], objs, ups)
      BY <2>1, <2>5, <3>4
    <3>7. QED
      BY <1>1, <2>2, <3>5, <3>6
  <2>6. QED
    BY <1>13, <2>3, <2>4, <2>5, FinishOutcome
<1>14. QED
  BY <1>0, <1>9, <1>10, <1>11, <1>12, <1>13 DEF FileWork

----------------------------------------------------------------------------
(* Requests and their answers                                              *)

LEMMA RequestOf ==
  ASSUME CallsInv, NEW c \in Callers, NEW f, f = call[c], f # Nothing, Asking(f), ServerOf(f) = "void",
         NEW request, request = Reads(VoidEnd, f.frame), request # Unreadable
  PROVE  /\ request.variant \in DOMAIN VoidHandlers /\ VoidHandlers[request.variant].does = f.method
         /\ request.args = f.frame.args
<1>1. Server(c) = "void" /\ VoidEnd.table = RequestTable(Server(c)) /\ Handlers(Server(c)) = VoidHandlers
  BY DEF Server, ServerOf, VoidEnd, End, RequestTable, Handlers
<1>2. request.variant = MethodOf(f).variant
  BY <1>1, RequestRead DEF Asking
<1>3. OnItsWay(f, executed[c])
  BY DEF CallsInv
<1>4. Agreed(Clients[f.client])
  BY <1>3, ClientsAgree DEF OnItsWay
<1>5. request = Decode(VoidEnd.table, f.frame)
  BY DEF Reads
<1>6. request.args = f.frame.args
  BY <1>5 DEF Decode
<1>7. QED
  BY <1>1, <1>2, <1>3, <1>4, <1>6 DEF Agreed, Understood, OnItsWay, MethodOf, Server

\* What is asked for a task could be left behind.
LEMMA RequestIsSound ==
  ASSUME NEW t, NEW f, Sane(t, f), f # Nothing, Asking(f), NEW r, r.variant \in DOMAIN VoidHandlers,
         VoidHandlers[r.variant].does = f.method, f.method \in FileWork, r.args = f.frame.args
  PROVE  Left(r) /\ SessionOf(r) \subseteq SessionsOf(t, f)
<1>1. f.method \in {"upload", "upload_with"} => Wholly(t, f)
  BY DEF Sane, Exact
<1>2. f.method = "upload_part" => NextPart(t, f)
  BY DEF Sane, Exact
<1>3. f.method = "upload_finish" => Finishing(t, f)
  BY DEF Sane, Exact
<1>4. f.method \in {"upload_part", "upload_finish"} => r.args.id = t.id /\ Drawn(t.id)
  BY <1>2, <1>3 DEF NextPart, Finishing
<1>5. SessionOf(r) \subseteq SessionsOf(t, f) /\ \A id \in SessionOf(r) : Drawn(id)
  BY <1>4 DEF SessionOf, SessionsOf
<1>6. f.method \in {"upload", "upload_with"} =>
        r.args.bytes \in Files /\ (f.method = "upload_with" => r.args.id \in ObjectIds)
  BY <1>1 DEF Wholly
<1>7. f.method = "upload_finish" => \E n \in FileSizes : Held(r.args.id, r.args.count, n, n)
  BY <1>3 DEF Finishing, Putting
<1>8. QED
  BY <1>5, <1>6, <1>7 DEF Left

\* A call that moves, or is answered about something else, says nothing new of files.
LEMMA SaneMoved ==
  ASSUME NEW t, NEW f, Sane(t, f), f # Nothing, NEW g, g.method = f.method, g.frame = f.frame,
         g.at = "ended" \/ (g.at = "accepted" /\ f.at = "connecting")
  PROVE  Sane(t, g) /\ SessionsOf(t, g) \subseteq SessionsOf(t, f)
<1>1. ~Says(g, "Uploaded") /\ ~Says(g, "Downloaded") /\ g.at # "answered" /\ (Asking(g) => Asking(f))
  BY DEF Says, Asking
<1>2. g.method \in {"upload", "upload_with"} => Wholly(t, g)
  BY <1>1 DEF Sane, Exact, Wholly
<1>3. g.method = "upload_begin" => Beginning(t, g)
  BY <1>1 DEF Sane, Exact, Beginning
<1>4. g.method = "upload_part" => NextPart(t, g)
  BY <1>1 DEF Sane, Exact, NextPart
<1>5. g.method = "upload_finish" => Finishing(t, g)
  BY <1>1 DEF Sane, Exact, Finishing
<1>6. g.method = "download_range" => Ranging(t, g)
  BY <1>1 DEF Sane, Exact, Ranging
<1>7. Sane(t, g)
  BY <1>2, <1>3, <1>4, <1>5, <1>6 DEF Sane, Exact
<1>8. SessionsOf(t, g) \subseteq SessionsOf(t, f)
  BY <1>1 DEF SessionsOf
<1>9. QED
  BY <1>7, <1>8

LEMMA SaneElsewhere ==
  ASSUME NEW t, NEW f, Sane(t, f), f # Nothing, f.method \notin FileMethods,
         NEW g, g.method = f.method, g.at = "answered"
  PROVE  Sane(t, g) /\ SessionsOf(t, g) = {}
<1>1. t.job = "once" /\ ~Asking(g)
  BY DEF Sane, Exact, Asking
<1>2. g.method \in {"upload", "upload_with"} => Wholly(t, g)
  BY <1>1 DEF Wholly
<1>3. g.method \notin FileMethods
  OBVIOUS
<1>4. Exact(t, g)
  BY <1>1, <1>2, <1>3 DEF Exact, FileMethods
<1>5. SessionsOf(t, g) = {}
  BY <1>3 DEF SessionsOf, FileMethods
<1>6. QED
  BY <1>4, <1>5 DEF Sane

\* It is answered with an error; a part that was not taken has lost its session.
LEMMA SaneErred ==
  ASSUME NEW t, NEW f, Sane(t, f)', f # Nothing, NEW g, g.method = f.method, g.at = "answered",
         ~Says(g, "Uploaded"), ~Says(g, "Downloaded"), f.method = "upload_part" => uploads'[t.id] = Nothing
  PROVE  Sane(t, g)' /\ SessionsOf(t, g) \subseteq SessionsOf(t, f)
<1>1. ~Asking(g)
  BY DEF Asking
<1>2. g.method \in {"upload", "upload_with"} => Wholly(t, g)'
  BY <1>1 DEF Sane, Exact, Wholly
<1>3. g.method = "upload_begin" => Beginning(t, g)'
  BY <1>1 DEF Sane, Exact, Beginning
<1>4. g.method = "upload_part" => NextPart(t, g)'
  BY <1>1 DEF Sane, Exact, NextPart, Held
<1>5. g.method = "upload_finish" => Finishing(t, g)'
  BY <1>1 DEF Sane, Exact, Finishing
<1>6. g.method = "download_range" => Ranging(t, g)'
  BY <1>1 DEF Sane, Exact, Ranging
<1>7. Sane(t, g)'
  BY <1>2, <1>3, <1>4, <1>5, <1>6 DEF Sane, Exact
<1>8. SessionsOf(t, g) \subseteq SessionsOf(t, f)
  BY DEF SessionsOf
<1>9. QED
  BY <1>7, <1>8

\* A file in one frame is stored under the next id.
LEMMA UploadAnswered ==
  ASSUME Stored, NEW t, NEW f, Sane(t, f), Sane(t, Nothing)', f # Nothing, f.method = "upload", Asking(f), Fresh,
         NEW g, g.method = f.method, g.at = "answered", NEW n, n = NextId, g.frame.args = [id |-> n],
         objects' = [objects EXCEPT ![n] = f.frame.args.bytes]
  PROVE  Sane(t, g)' /\ SessionsOf(t, g) = {}
<1>1. Wholly(t, f)
  BY DEF Sane, Exact
<1>2. t.job = "put" => f.frame.args.bytes = File(t.file)
  BY <1>1 DEF Wholly
<1>3. n \in ObjectIds /\ objects'[n] = f.frame.args.bytes
  BY DEF Fresh, Stored
<1>4. t.job = "put" => Put(n, t.file)'
  BY <1>1, <1>2, <1>3 DEF Put, Wholly
<1>5. Wholly(t, g)'
  BY <1>1, <1>4 DEF Wholly, Asking
<1>6. QED
  BY <1>5 DEF Sane, Exact, SessionsOf, FileMethods

\* A session begins without parts.
LEMMA BeginAnswered ==
  ASSUME Stored, NEW t, NEW f, Sane(t, f), Sane(t, Nothing)', f # Nothing, f.method = "upload_begin", Fresh,
         NEW g, g.method = f.method, g.at = "answered", NEW n, n = NextId, g.frame.args = [id |-> n],
         uploads' = [uploads EXCEPT ![n] = <<>>], spent'.ids = spent.ids + 1
  PROVE  Sane(t, g)' /\ SessionsOf(t, g) \subseteq {n}
<1>1. Beginning(t, f)
  BY DEF Sane, Exact
<1>2. t.file \in Nat
  BY <1>1, SizesAssumption DEF Beginning, Putting
<1>3. n \in ObjectIds /\ uploads'[n] = <<>>
  BY DEF Fresh, Stored
<1>4. Held(n, 0, t.file, 0)'
  BY <1>2, <1>3, NoPartYet DEF Held, Has
<1>5. Drawn(n)'
  BY DEF Drawn, NextId, Stored
<1>6. Beginning(t, g)'
  BY <1>1, <1>4, <1>5 DEF Beginning
<1>7. QED
  BY <1>6 DEF Sane, Exact, SessionsOf, FileMethods

\* A part is added to those before it.
LEMMA PartAnswered ==
  ASSUME Stored, NEW t, NEW f, Sane(t, f), Sane(t, Nothing)', f # Nothing, f.method = "upload_part", Asking(f),
         NEW g, g.method = f.method, g.at = "answered", NEW a, a = f.frame.args, uploads[a.id] # Nothing,
         NEW v, v = Both([k \in {a.number} |-> a.bytes], uploads[a.id]), uploads' = [uploads EXCEPT ![a.id] = v],
         Spends
  PROVE  Sane(t, g)' /\ SessionsOf(t, g) \subseteq SessionsOf(t, f)
<1>1. NextPart(t, f)
  BY DEF Sane, Exact
<1>2. a.id = t.id /\ a.number = t.part - 1 /\ Putting(t) /\ t.part # 1 /\ Drawn(t.id)
  BY <1>1 DEF NextPart
<1>3. PICK s \in 0..t.sent : a.bytes = SubSeq(File(t.file), s + 1, t.sent) /\ Held(t.id, t.part - 2, t.file, s)
  BY <1>1 DEF NextPart
<1>4. PICK n, p, e, u : n = t.file /\ p = t.part - 2 /\ e = t.sent /\ u = uploads[t.id]
  OBVIOUS
<1>5. n \in Nat /\ p \in Nat /\ s \in 0..n /\ e \in s..n
  <2>1. PICK k : k = t.part
    OBVIOUS
  <2>2. k \in Nat /\ k # 0 /\ k # 1 /\ p = k - 2
    BY <1>2, <1>4, <2>1 DEF Putting
  <2>3. n \in Nat /\ e \in 0..n /\ s \in 0..e
    BY <1>2, <1>4, SizesAssumption DEF Putting
  <2>4. p \in Nat
    BY <2>2
  <2>5. QED
    BY <2>3, <2>4
<1>6. Has(u, p, n, s)
  BY <1>2, <1>3, <1>4 DEF Held
<1>7. a.number = p + 1
  BY <1>2, <1>4 DEF Putting
<1>8. v = Both([k \in {p + 1} |-> a.bytes], u)
  BY <1>2, <1>4, <1>7
<1>9. Has(v, p + 1, n, e)
  <2>1. PICK x : x = a.bytes
    OBVIOUS
  <2>2. x = SubSeq(File(n), s + 1, e) /\ v = Both([k \in {p + 1} |-> x], u)
    BY <1>3, <1>4, <1>8, <2>1
  <2>3. QED
    BY <1>5, <1>6, <2>2, OnePartMore
<1>10. t.id \in ObjectIds /\ uploads'[t.id] = v
  BY <1>2 DEF Stored, Drawn
<1>11. t.part - 1 = p + 1
  BY <1>2, <1>4 DEF Putting
<1>12. Held(t.id, t.part - 1, t.file, t.sent)'
  BY <1>4, <1>9, <1>10, <1>11 DEF Held, Has
<1>13. Drawn(t.id)'
  BY <1>2 DEF Drawn, Stored, Spends
<1>14. NextPart(t, g)'
  BY <1>2, <1>12, <1>13 DEF NextPart, Asking
<1>15. QED
  BY <1>14 DEF Sane, Exact, SessionsOf, FileMethods

\* The finish stores the whole file.
LEMMA FinishAnswered ==
  ASSUME Stored, NEW t, NEW f, Sane(t, f), Sane(t, Nothing)', f # Nothing, f.method = "upload_finish", Asking(f),
         NEW g, g.method = f.method, g.at = "answered", NEW a, a = f.frame.args, uploads[a.id] # Nothing,
         g.frame.args = [id |-> a.id], objects' = [objects EXCEPT ![a.id] = FlattenSeq(uploads[a.id])], Spends
  PROVE  Sane(t, g)' /\ SessionsOf(t, g) \subseteq SessionsOf(t, f)
<1>1. Finishing(t, f)
  BY DEF Sane, Exact
<1>2. a.id = t.id /\ Held(t.id, t.part - 1, t.file, t.file) /\ Putting(t) /\ Drawn(t.id) /\ t.id \in ObjectIds
  BY <1>1 DEF Finishing, Drawn, Stored
<1>3. t.file \in Nat /\ t.file \in FileSizes
  BY <1>2, SizesAssumption DEF Putting
<1>4. FlattenSeq(uploads[t.id]) = File(t.file)
  BY <1>2, <1>3, FileIs DEF Held, Has
<1>5. objects'[t.id] = File(t.file)
  BY <1>2, <1>4 DEF Stored
<1>6. Put(t.id, t.file)' /\ g.frame.args.id = t.id
  BY <1>2, <1>3, <1>5 DEF Put
<1>7. Drawn(t.id)'
  BY <1>2 DEF Drawn, Stored, Spends
<1>8. Finishing(t, g)'
  BY <1>2, <1>6, <1>7 DEF Finishing, Asking
<1>9. QED
  BY <1>8 DEF Sane, Exact, SessionsOf, FileMethods

\* A range is answered from where the last one ended.
LEMMA RangeAnswered ==
  ASSUME Stored, NEW t, NEW f, Sane(t, f), Sane(t, f)', f # Nothing, f.method = "download_range", Asking(f),
         NEW g, g.method = f.method, g.at = "answered", NEW a, a = f.frame.args, objects[a.id] # Nothing,
         g.frame.args = [bytes |-> Slice(objects[a.id], a.offset, a.length)], UNCHANGED objects
  PROVE  Sane(t, g)' /\ SessionsOf(t, g) = {}
<1>1. Ranging(t, f) /\ Ranging(t, f)'
  BY DEF Sane, Exact
<1>2. a.id = t.id /\ a.offset = Len(t.data) /\ a.length = PartLen /\ t.id \in ObjectIds /\ t.data \in Seq(Cells)
  BY <1>1 DEF Ranging, Fetched
<1>3. objects[t.id] \in Seq(Cells)
  BY <1>2, FilesAreStored
<1>4. PICK d : d = Slice(objects[t.id], Len(t.data), PartLen)
  OBVIOUS
<1>5. d \in Seq(Cells)
  <2>1. Len(t.data) \in Nat /\ PartLen \in Nat \ {0}
    BY <1>2, LimitsAssumption
  <2>2. QED
    BY <1>3, <1>4, <2>1, Sliced
<1>6. g.frame.args.bytes = d
  BY <1>2, <1>4
<1>7. Ranging(t, g)'
  BY <1>1, <1>2, <1>4, <1>5, <1>6 DEF Ranging, Asking
<1>8. QED
  BY <1>7 DEF Sane, Exact, SessionsOf, FileMethods

LEMMA AnswerKeeps ==
  ASSUME FilesInv, CallsInv, NEW c \in Callers, NEW t, t = task[c], NEW g, call' = [call EXCEPT ![c] = g],
         UNCHANGED <<task, left>>, NEW S, Stored', Steady(S), S \subseteq Mine(c) \cup {NextId},
         Sane(t, g)', SessionsOf(t, g) \subseteq Mine(c) \cup {NextId}
  PROVE  FilesInv'
<1>1. task' = [task EXCEPT ![c] = t] /\ left' = left
  BY DEF CallsInv
<1>2. QED
  BY <1>1, OneTaskMoves

\* An outcome without a new object takes nothing from anybody but a session that goes.
LEMMA QuietOutcome ==
  ASSUME Stored, NEW kind, NEW args, NEW o, NEW ups, o = Outcome(kind, args, objects, ups), Takes(o), Spends,
         NEW id, ups = uploads \/ ups = [uploads EXCEPT ![id] = Nothing]
  PROVE  Stored' /\ Steady({})
<1>1. o.objects = objects /\ o.uploads = ups
  BY OutcomeParts
<1>2. objects = [i \in ObjectIds |-> objects[i]] /\ uploads = [i \in ObjectIds |-> uploads[i]]
  BY DEF Stored
<1>3. ups = [i \in ObjectIds |-> ups[i]] /\ \A i \in ObjectIds \ {} : ups[i] \in {uploads[i], Nothing}
  BY <1>2
<1>4. QED
  BY <1>1, <1>2, <1>3, TakenIsSteady

LEMMA RunsFileKeeps ==
  ASSUME FilesInv, CallsInv, NEW c \in Callers, Waits(c, "accepted"), Server(c) = "void",
         NEW r, r = Reads(VoidEnd, call[c].frame), r # Unreadable,
         NEW does \in FileWork, does = VoidHandlers[r.variant].does, Draws(does) => Fresh,
         NEW o, o = VoidOutcome(does, r.args), Takes(o), Responds(c, Answer(VoidOut, o.kind, o.args)),
         spent' = IF Draws(does) THEN [spent EXCEPT !.ids = @ + 1] ELSE spent, UNCHANGED <<task, left>>
  PROVE  FilesInv'
<1>1. PICK t, f, S, n : t = task[c] /\ f = call[c] /\ S = SessionOf(r) \cup {NextId} /\ n = NextId
  OBVIOUS
<1>2. f # Nothing /\ f.at = "accepted" /\ Asking(f) /\ Stored /\ Sane(t, f) /\ Mine(c) = SessionsOf(t, f)
      /\ ServerOf(f) = "void" /\ f.client \in DOMAIN Clients
  BY <1>1 DEF Waits, Asking, FilesInv, Mine, Server, ServerOf, CallsInv, OnItsWay
<1>3. r.variant \in DOMAIN VoidHandlers /\ does = f.method /\ r.args = f.frame.args
  BY <1>1, <1>2, RequestOf
<1>4. Left(r) /\ SessionOf(r) \subseteq Mine(c)
  BY <1>2, <1>3, RequestIsSound
<1>5. Spends
  BY <1>2, SpentGrows
<1>6. Stored' /\ Steady(S)
  BY <1>1, <1>2, <1>4, <1>5, RanSteady
<1>7. S \subseteq Mine(c) \cup {NextId}
  BY <1>1, <1>4
<1>8. Sane(t, Nothing)'
  <2>1. Sane(t, Nothing) /\ SessionsOf(t, Nothing) \cap S = {}
    BY <1>2 DEF Sane, SessionsOf
  <2>2. QED
    BY <1>2, <1>6, <2>1, SaneKept
<1>9. PICK frame : frame = Answer(VoidOut, o.kind, o.args)
  OBVIOUS
<1>10. PICK g : g = [client |-> f.client, method |-> f.method, at |-> "answered", frame |-> frame]
  OBVIOUS
<1>11. call' = [call EXCEPT ![c] = g]
  BY <1>1, <1>2, <1>9, <1>10, Answered
<1>12. g.method = f.method /\ g.at = "answered" /\ g.frame = frame /\ g.client = f.client
  BY <1>10
<1>13. o.kind \in Kinds(ServerOf(g)) /\ g.frame = Reply(g, o.kind, o.args) /\ ServerOf(g) = "void"
  <2>1. ServerOf(g) = "void"
    BY <1>2, <1>12 DEF ServerOf
  <2>2. o.kind \in VoidHandlers[r.variant].answers \cup {"Error"}
    BY <1>3, FilesAnswered
  <2>3. o.kind \in Kinds("void")
    BY <1>3, <2>2, HandlersAnswer DEF Handlers, Kinds, VoidKinds
  <2>4. QED
    BY <1>9, <1>12, <2>1, <2>3 DEF Reply, AnswerTable
<1>14. /\ o.kind \notin RecordKinds => g.frame.args = o.args
       /\ o.kind = "Error" => ~Says(g, "Uploaded") /\ ~Says(g, "Downloaded")
  <2>1. /\ \A other \in Kinds(ServerOf(g)) : Says(g, other) => other = o.kind
        /\ o.kind \notin RecordKinds => g.frame.args = o.args
    BY <1>2, <1>12, <1>13, SaysOne
  <2>2. "Uploaded" \in Kinds("void") /\ "Downloaded" \in Kinds("void")
    BY DEF Kinds, VoidKinds
  <2>3. QED
    BY <1>13, <2>1, <2>2
<1>15. \A kind \in {"Uploaded", "Downloaded", "Ack", "Error"} : kind \notin RecordKinds
  BY DEF RecordKinds
<1>16. SUFFICES Sane(t, g)' /\ SessionsOf(t, g) \subseteq Mine(c) \cup {NextId}
  BY <1>1, <1>6, <1>7, <1>11, AnswerKeeps
<1> DEFINE a == f.frame.args
<1>17. objects' = o.objects /\ uploads' = o.uploads
  BY DEF Takes
<1>18. ASSUME o.kind = "Error", NEW args, NEW ups, NEW id, o = Outcome("Error", args, objects, ups),
              ups = uploads \/ ups = [uploads EXCEPT ![id] = Nothing],
              f.method = "upload_part" => uploads'[t.id] = Nothing
       PROVE  Sane(t, g)' /\ SessionsOf(t, g) \subseteq Mine(c) \cup {NextId}
  <2>1. Steady({})
    BY <1>2, <1>5, <1>18, QuietOutcome
  <2>2. Sane(t, f)'
    BY <1>2, <2>1, SaneSteady
  <2>3. QED
    BY <1>2, <1>12, <1>14, <1>18, <2>2, SaneErred
<1>19. CASE f.method = "upload"
  <2>1. o = Outcome("Uploaded", [id |-> n], [objects EXCEPT ![n] = a.bytes], uploads)
    BY <1>1, <1>3, <1>19, UploadOutcome
  <2>2. o.kind = "Uploaded" /\ o.args = [id |-> n] /\ o.objects = [objects EXCEPT ![n] = a.bytes]
    BY <2>1, OutcomeParts
  <2>3. g.frame.args = [id |-> n] /\ objects' = [objects EXCEPT ![n] = a.bytes] /\ Fresh
    BY <1>3, <1>14, <1>15, <1>17, <1>19, <2>2 DEF Draws
  <2>4. QED
    BY <1>1, <1>2, <1>8, <1>12, <1>19, <2>3, UploadAnswered
<1>20. CASE f.method = "upload_begin"
  <2>1. o = Outcome("Uploaded", [id |-> n], objects, [uploads EXCEPT ![n] = <<>>])
    BY <1>1, <1>3, <1>20, BeginOutcome
  <2>2. o.kind = "Uploaded" /\ o.args = [id |-> n] /\ o.uploads = [uploads EXCEPT ![n] = <<>>]
    BY <2>1, OutcomeParts
  <2>3. g.frame.args = [id |-> n] /\ uploads' = [uploads EXCEPT ![n] = <<>>] /\ Fresh
    BY <1>3, <1>14, <1>15, <1>17, <1>20, <2>2 DEF Draws
  <2>4. spent'.ids = spent.ids + 1
    BY <1>2, <1>3, <1>20 DEF Draws, Stored
  <2>5. Sane(t, g)' /\ SessionsOf(t, g) \subseteq {n}
    BY <1>1, <1>2, <1>8, <1>12, <1>20, <2>3, <2>4, BeginAnswered
  <2>6. QED
    BY <1>1, <2>5
<1>21. CASE f.method = "upload_part"
  <2>1. NextPart(t, f)
    BY <1>2, <1>21 DEF Sane, Exact
  <2>2. a.id = t.id
    BY <1>2, <2>1 DEF NextPart
  <2>3. CASE uploads[a.id] = Nothing
    <3>1. o = Outcome("Error", <<>>, objects, uploads)
      BY <1>3, <1>21, <2>3, PartOutcome
    <3>2. o.kind = "Error" /\ o.uploads = uploads
      BY <3>1, OutcomeParts
    <3>3. uploads'[t.id] = Nothing
      BY <1>17, <2>2, <2>3, <3>2
    <3>4. QED
      BY <1>18, <3>1, <3>2, <3>3
  <2>4. CASE uploads[a.id] # Nothing
    <3>1. PICK b, v : b = a /\ v = Both([k \in {b.number} |-> b.bytes], uploads[b.id])
      OBVIOUS
    <3>2. o = Outcome("Ack", <<>>, objects, [uploads EXCEPT ![b.id] = v])
      BY <1>3, <1>21, <2>4, <3>1, PartOutcome
    <3>3. o.uploads = [uploads EXCEPT ![b.id] = v]
      BY <3>2, OutcomeParts
    <3>4. uploads' = [uploads EXCEPT ![b.id] = v]
      BY <1>17, <3>3
    <3>5. Stored /\ Sane(t, f) /\ f # Nothing /\ Asking(f) /\ g.method = f.method /\ g.at = "answered"
      BY <1>2, <1>12
    <3>6. b = f.frame.args /\ uploads[b.id] # Nothing
      BY <2>4, <3>1
    <3>7. Sane(t, g)' /\ SessionsOf(t, g) \subseteq SessionsOf(t, f)
      BY <1>5, <1>8, <1>21, <3>1, <3>4, <3>5, <3>6, PartAnswered
    <3>8. QED
      BY <1>2, <3>7
  <2>5. QED
    BY <2>3, <2>4
<1>22. CASE f.method = "upload_finish"
  <2>1. CASE o = Outcome("Error", <<>>, objects, uploads)
    <3>1. o.kind = "Error"
      BY <2>1, OutcomeParts
    <3>2. QED
      BY <1>18, <1>22, <2>1, <3>1
  <2>2. CASE o = Outcome("Error", <<>>, objects, [uploads EXCEPT ![a.id] = Nothing])
    <3>1. PICK ups : ups = [uploads EXCEPT ![a.id] = Nothing]
      OBVIOUS
    <3>2. o = Outcome("Error", <<>>, objects, ups)
      BY <2>2, <3>1
    <3>3. o.kind = "Error"
      BY <3>2, OutcomeParts
    <3>4. QED
      BY <1>18, <1>22, <3>1, <3>2, <3>3
  <2>3. CASE /\ uploads[a.id] # Nothing
             /\ o = Outcome("Uploaded", [id |-> a.id], [objects EXCEPT ![a.id] = FlattenSeq(uploads[a.id])],
                            [uploads EXCEPT ![a.id] = Nothing])
    <3>1. PICK b : b = a
      OBVIOUS
    <3>2. o.kind = "Uploaded" /\ o.args = [id |-> b.id]
          /\ o.objects = [objects EXCEPT ![b.id] = FlattenSeq(uploads[b.id])]
      <4>1. PICK args, objs, ups : /\ args = [id |-> b.id] /\ objs = [objects EXCEPT ![b.id] = FlattenSeq(uploads[b.id])]
                                   /\ ups = [uploads EXCEPT ![b.id] = Nothing]
        OBVIOUS
      <4>2. o = Outcome("Uploaded", args, objs, ups)
        BY <2>3, <3>1, <4>1
      <4>3. QED
        BY <4>1, <4>2, OutcomeParts
    <3>3. g.frame.args = [id |-> b.id] /\ objects' = [objects EXCEPT ![b.id] = FlattenSeq(uploads[b.id])]
      BY <1>14, <1>15, <1>17, <3>2
    <3>4. Sane(t, g)' /\ SessionsOf(t, g) \subseteq SessionsOf(t, f)
      BY <1>2, <1>5, <1>8, <1>12, <1>22, <2>3, <3>1, <3>3, FinishAnswered
    <3>5. QED
      BY <1>2, <3>4
  <2>4. QED
    BY <1>3, <1>22, <2>1, <2>2, <2>3, FinishOutcome
<1>23. CASE f.method = "download_range"
  <2>1. Ranging(t, f)
    BY <1>2, <1>23 DEF Sane, Exact
  <2>2. a.length # 0
    BY <1>2, <2>1, RangesAreAsked
  <2>3. CASE objects[a.id] = Nothing
    <3>1. o = Outcome("Error", <<>>, objects, uploads)
      BY <1>3, <1>23, <2>2, <2>3, OutcomesAre DEF VoidOutcome, DownloadRange
    <3>2. o.kind = "Error"
      BY <3>1, OutcomeParts
    <3>3. QED
      BY <1>18, <1>23, <3>1, <3>2
  <2>4. CASE objects[a.id] # Nothing
    <3>1. PICK b, args : b = a /\ args = [bytes |-> Slice(objects[b.id], b.offset, b.length)]
      OBVIOUS
    <3>2. o = Outcome("Downloaded", args, objects, uploads)
      <4>1. o = Same("Downloaded", args)
        BY <1>3, <1>23, <2>2, <2>4, <3>1 DEF VoidOutcome, DownloadRange
      <4>2. QED
        BY <4>1, OutcomesAre
    <3>3. o.kind = "Downloaded" /\ o.args = args /\ o.objects = objects
      BY <3>2, OutcomeParts
    <3>4. g.frame.args = [bytes |-> Slice(objects[b.id], b.offset, b.length)] /\ UNCHANGED objects
      BY <1>14, <1>15, <1>17, <3>1, <3>3
    <3>5. Steady({})
      BY <1>2, <1>5, <3>2, QuietOutcome
    <3>6. Sane(t, f)'
      BY <1>2, <3>5, SaneSteady
    <3>7. QED
      BY <1>2, <1>12, <1>23, <2>4, <3>1, <3>4, <3>6, RangeAnswered
  <2>5. QED
    BY <2>3, <2>4
<1>24. CASE f.method \notin FileMethods
  <2>1. Sane(t, g) /\ SessionsOf(t, g) = {}
    BY <1>2, <1>12, <1>24, SaneElsewhere
  <2>2. Sane(t, g)'
    BY <1>2, <1>6, <2>1, SaneKept
  <2>3. QED
    BY <2>1, <2>2
<1>25. QED
  BY <1>19, <1>20, <1>21, <1>22, <1>23, <1>24 DEF FileMethods

\* A failing store answers an error, and the session of a part or a finish is gone.
LEMMA FailureKeeps ==
  ASSUME FilesInv, CallsInv, NEW c \in Callers, Waits(c, "accepted"), Server(c) = "void",
         NEW r, r = Reads(VoidEnd, call[c].frame), r # Unreadable, Takes(VoidFailure(VoidHandlers[r.variant].does, r.args)),
         Responds(c, Answer(VoidOut, "Error", <<>>)), Errs, UNCHANGED <<task, left>>
  PROVE  FilesInv'
<1>1. PICK t, f, o : t = task[c] /\ f = call[c] /\ o = VoidFailure(VoidHandlers[r.variant].does, r.args)
  OBVIOUS
<1>2. f # Nothing /\ f.at = "accepted" /\ Asking(f) /\ Stored /\ Sane(t, f) /\ Mine(c) = SessionsOf(t, f)
      /\ ServerOf(f) = "void" /\ f.client \in DOMAIN Clients
  BY <1>1 DEF Waits, Asking, FilesInv, Mine, Server, ServerOf, CallsInv, OnItsWay
<1>3. VoidHandlers[r.variant].does = f.method /\ r.args = f.frame.args
  BY <1>1, <1>2, RequestOf
<1>4. Spends
  BY <1>2, SpentGrows DEF Errs
<1>5. PICK b, ups : b = r.args /\ ups = o.uploads
  OBVIOUS
<1>6. /\ o = Outcome("Error", <<>>, objects, ups)
      /\ ups = uploads \/ ups = [uploads EXCEPT ![b.id] = Nothing]
      /\ f.method = "upload_part" => uploads[b.id] = Nothing \/ ups = [uploads EXCEPT ![b.id] = Nothing]
  <2>1. CASE f.method \in {"upload_part", "upload_finish"} /\ uploads[b.id] # Nothing
    <3>1. o = Outcome("Error", <<>>, objects, [uploads EXCEPT ![b.id] = Nothing])
      <4>1. o = Forgets(Refuses, b.id)
        BY <1>1, <1>3, <1>5, <2>1 DEF VoidFailure
      <4>2. QED
        BY <4>1, OutcomesAre
    <3>2. ups = [uploads EXCEPT ![b.id] = Nothing]
      BY <1>5, <3>1, OutcomeParts
    <3>3. QED
      BY <3>1, <3>2
  <2>2. CASE ~(f.method \in {"upload_part", "upload_finish"} /\ uploads[b.id] # Nothing)
    <3>1. o = Outcome("Error", <<>>, objects, uploads)
      BY <1>1, <1>3, <1>5, <2>2, OutcomesAre DEF VoidFailure
    <3>2. ups = uploads
      BY <1>5, <3>1, OutcomeParts
    <3>3. QED
      BY <2>2, <3>1, <3>2
  <2>3. QED
    BY <2>1, <2>2
<1>7. Stored' /\ Steady({})
  BY <1>1, <1>2, <1>4, <1>6, QuietOutcome
<1>8. Sane(t, f)'
  BY <1>2, <1>7, SaneSteady
<1>9. f.method = "upload_part" => uploads'[t.id] = Nothing
  <2>1. ASSUME f.method = "upload_part" PROVE uploads'[t.id] = Nothing
    <3>1. NextPart(t, f)
      BY <1>2, <2>1 DEF Sane, Exact
    <3>2. b.id = t.id /\ t.id \in ObjectIds
      BY <1>2, <1>3, <1>5, <3>1 DEF NextPart, Drawn, Stored
    <3>3. uploads' = ups
      BY <1>1, <1>5 DEF Takes
    <3>4. QED
      BY <1>2, <1>6, <2>1, <3>2, <3>3 DEF Stored
  <2>2. QED
    BY <2>1
<1>10. PICK g : g = [client |-> f.client, method |-> f.method, at |-> "answered", frame |-> Answer(VoidOut, "Error", <<>>)]
  OBVIOUS
<1>11. call' = [call EXCEPT ![c] = g]
  BY <1>1, <1>2, <1>10, Answered
<1>12. g.method = f.method /\ g.at = "answered" /\ g.client = f.client /\ g.frame = Reply(g, "Error", <<>>)
       /\ ServerOf(g) = "void"
  BY <1>2, <1>10 DEF Reply, ServerOf, AnswerTable
<1>13. ~Says(g, "Uploaded") /\ ~Says(g, "Downloaded")
  <2>1. {"Uploaded", "Downloaded", "Error"} \subseteq Kinds(ServerOf(g))
    BY <1>12 DEF Kinds, VoidKinds
  <2>2. \A other \in Kinds(ServerOf(g)) : Says(g, other) => other = "Error"
    BY <1>2, <1>12, <2>1, SaysOne
  <2>3. QED
    BY <2>1, <2>2
<1>14. Sane(t, g)' /\ SessionsOf(t, g) \subseteq SessionsOf(t, f)
  BY <1>2, <1>8, <1>9, <1>12, <1>13, SaneErred
<1>15. QED
  BY <1>1, <1>2, <1>7, <1>11, <1>14, AnswerKeeps

\* An answer about something else, and a call that is accepted or ends.
LEMMA ElsewhereKeeps ==
  ASSUME FilesInv, CallsInv, NEW c \in Callers, call[c] # Nothing, call[c].method \notin FileMethods,
         NEW frame, Responds(c, frame), UNCHANGED <<task, left, storage>>, Spends
  PROVE  FilesInv'
<1>1. PICK t, f : t = task[c] /\ f = call[c]
  OBVIOUS
<1>2. f # Nothing /\ Stored /\ Sane(t, f)
  BY <1>1 DEF FilesInv
<1>3. Stored' /\ Steady({})
  BY <1>2, StoreRests
<1>4. PICK g : g = [client |-> f.client, method |-> f.method, at |-> "answered", frame |-> frame]
  OBVIOUS
<1>5. call' = [call EXCEPT ![c] = g]
  BY <1>1, <1>2, <1>4, Answered
<1>6. g.method = f.method /\ g.at = "answered"
  BY <1>4
<1>7. Sane(t, g) /\ SessionsOf(t, g) = {}
  BY <1>1, <1>2, <1>6, SaneElsewhere
<1>8. Sane(t, g)'
  BY <1>2, <1>3, <1>7, SaneKept
<1>9. QED
  BY <1>1, <1>3, <1>5, <1>7, <1>8, AnswerKeeps

LEMMA BecomesKeeps ==
  ASSUME FilesInv, CallsInv, NEW c \in Callers, call[c] # Nothing, NEW at \in {"accepted", "ended"},
         at = "accepted" => call[c].at = "connecting",
         Becomes(c, at), UNCHANGED <<task, left, storage>>, Spends
  PROVE  FilesInv'
<1>1. PICK t, f : t = task[c] /\ f = call[c]
  OBVIOUS
<1>2. f # Nothing /\ Stored /\ Sane(t, f) /\ Mine(c) = SessionsOf(t, f)
  BY <1>1 DEF FilesInv, Mine
<1>3. Stored' /\ Steady({})
  BY <1>2, StoreRests
<1>4. PICK g : g = [f EXCEPT !.at = at]
  OBVIOUS
<1>5. call' = [call EXCEPT ![c] = g]
  BY <1>1, <1>4 DEF Becomes
<1>6. g.method = f.method /\ g.frame = f.frame /\ g.at = at
  <2>1. f = [client |-> f.client, method |-> f.method, at |-> f.at, frame |-> f.frame]
    BY <1>1, <1>2 DEF CallsInv, OnItsWay
  <2>2. QED
    BY <1>4, <2>1
<1>7. Sane(t, g) /\ SessionsOf(t, g) \subseteq SessionsOf(t, f)
  BY <1>1, <1>2, <1>6, SaneMoved
<1>8. Sane(t, g)'
  BY <1>2, <1>3, <1>7, SaneKept
<1>9. QED
  BY <1>1, <1>2, <1>3, <1>5, <1>7, <1>8, AnswerKeeps

LEMMA VoidServesFiles ==
  ASSUME FilesInv, CallsInv, NEW c \in Callers, VoidStream(c) \/ VoidTcp(c)
  PROVE  FilesInv'
<1>1. Waits(c, "accepted") /\ Server(c) = "void" /\ VoidServes(c) /\ call[c] # Nothing
  BY DEF VoidStream, VoidTcp, Waits
<1>2. PICK r : r = Reads(VoidEnd, call[c].frame)
  OBVIOUS
<1>3. Stored
  BY DEF FilesInv
<1>4. CASE r = Unreadable
  <2>1. VoidHangsUp(c)
    BY <1>1, <1>2, <1>4 DEF VoidServes
  <2>2. Becomes(c, "ended") /\ UNCHANGED <<task, left, storage>> /\ Spends
    BY <1>3, <2>1, SpentGrows DEF VoidHangsUp
  <2>3. QED
    BY <1>1, <2>2, BecomesKeeps
<1>5. CASE r # Unreadable
  <2>1. VoidRuns(c, r)
    BY <1>1, <1>2, <1>5 DEF VoidServes
  <2>2. PICK does : does = VoidHandlers[r.variant].does
    OBVIOUS
  <2>3. does = call[c].method
    BY <1>1, <1>2, <1>5, <2>2, RequestOf DEF Waits, Asking, Server, ServerOf
  <2>4. ASSUME does \in FileWork, Draws(does) => Fresh, Takes(VoidOutcome(does, r.args)),
               Responds(c, Answer(VoidOut, VoidOutcome(does, r.args).kind, VoidOutcome(does, r.args).args)),
               spent' = IF Draws(does) THEN [spent EXCEPT !.ids = @ + 1] ELSE spent
        PROVE  FilesInv'
    <3>1. PICK o : o = VoidOutcome(does, r.args)
      OBVIOUS
    <3>2. Takes(o) /\ Responds(c, Answer(VoidOut, o.kind, o.args))
      BY <2>4, <3>1
    <3>3. UNCHANGED <<task, left>>
      BY <2>1 DEF VoidRuns
    <3>4. QED
      BY <1>1, <1>2, <1>5, <2>2, <2>4, <3>1, <3>2, <3>3, RunsFileKeeps
  <2>5. ASSUME does \in FileWork, Errs, Takes(VoidFailure(does, r.args)), Responds(c, Answer(VoidOut, "Error", <<>>))
        PROVE  FilesInv'
    <3>1. UNCHANGED <<task, left>>
      BY <2>1 DEF VoidRuns
    <3>2. QED
      BY <1>1, <1>2, <1>5, <2>2, <2>5, <3>1, FailureKeeps
  <2>6. ASSUME does \notin FileWork, NEW kind, Responds(c, Answer(VoidOut, kind, <<>>)), UNCHANGED <<storage, spent>>
        PROVE  FilesInv'
    <3>1. UNCHANGED <<task, left, storage>>
      BY <2>1, <2>6 DEF VoidRuns
    <3>2. call[c].method \notin FileMethods
      BY <2>3, <2>6 DEF FileMethods, FileWork
    <3>3. Spends
      BY <1>3, <2>6, SpentGrows
    <3>4. QED
      BY <1>1, <2>6, <3>1, <3>2, <3>3, ElsewhereKeeps
  <2>7. QED
    BY <2>1, <2>2, <2>4, <2>5, <2>6 DEF VoidRuns
<1>6. QED
  BY <1>4, <1>5

LEMMA MassServesFiles ==
  ASSUME FilesInv, CallsInv, NEW c \in Callers, MassStream(c) \/ MassTcp(c)
  PROVE  FilesInv'
<1>1. Waits(c, "accepted") /\ Server(c) = "mass" /\ call[c] # Nothing /\ Stored
  BY DEF MassStream, MassTcp, Waits, FilesInv
<1>2. call[c].method \notin FileMethods
  <2>1. OnItsWay(call[c], executed[c])
    BY <1>1 DEF CallsInv
  <2>2. QED
    BY <1>1, <2>1, OnlyAccepted DEF Server, OnItsWay
<1>3. UNCHANGED <<task, left, storage, spent>>
  BY DEF MassStream, MassTcp, MassRuns
<1>4. Spends
  BY <1>1, <1>3, SpentGrows
<1>5. (\E frame : Responds(c, frame)) \/ Becomes(c, "ended")
  BY DEF MassStream, MassTcp, MassRuns
<1>6. CASE \E frame : Responds(c, frame)
  BY <1>1, <1>2, <1>3, <1>4, <1>6, ElsewhereKeeps
<1>7. CASE Becomes(c, "ended")
  BY <1>1, <1>3, <1>4, <1>7, BecomesKeeps
<1>8. QED
  BY <1>5, <1>6, <1>7

LEMMA LosesFiles ==
  ASSUME FilesInv, CallsInv, NEW c \in Callers, VoidAccepts(c) \/ MassAccepts(c) \/ Breaks(c) \/ Refused(c)
  PROVE  FilesInv'
<1>1. call[c] # Nothing /\ Stored
  BY DEF VoidAccepts, MassAccepts, Breaks, Refused, Waits, FilesInv
<1>2. UNCHANGED <<task, left, storage>>
  BY DEF VoidAccepts, MassAccepts, Breaks, Refused
<1>3. Spends
  BY <1>1, SpentGrows DEF VoidAccepts, MassAccepts, Breaks, Refused, Errs
<1>4. CASE VoidAccepts(c) \/ MassAccepts(c)
  <2>1. Becomes(c, "accepted") /\ call[c].at = "connecting"
    BY <1>4 DEF VoidAccepts, MassAccepts, Waits
  <2>2. QED
    BY <1>1, <1>2, <1>3, <2>1, BecomesKeeps
<1>5. CASE Breaks(c) \/ Refused(c)
  <2>1. Becomes(c, "ended")
    BY <1>5 DEF Breaks, Refused
  <2>2. QED
    BY <1>1, <1>2, <1>3, <2>1, BecomesKeeps
<1>6. QED
  BY <1>4, <1>5

LEMMA FailsFiles ==
  ASSUME FilesInv, CallsInv, NEW c \in Callers, Fails(c)
  PROVE  FilesInv'
<1>1. PICK t : t = [task[c] EXCEPT !.end = Verdict(c)]
  OBVIOUS
<1>2. Ends(c, t) /\ Verdict(c) # "ok" /\ UNCHANGED <<left, storage, spent>> /\ Stored
  BY <1>1 DEF Fails, FilesInv
<1>3. t.end # "ok"
  <2>1. "end" \in DOMAIN task[c]
    BY DEF CallsInv, TaskKept
  <2>2. QED
    BY <1>1, <1>2, <2>1
<1>4. Stored' /\ Steady({})
  BY <1>2, SpentGrows, StoreRests
<1>5. task' = [task EXCEPT ![c] = t] /\ call' = [call EXCEPT ![c] = Nothing] /\ left' = left
  BY <1>2 DEF Ends
<1>6. QED
  BY <1>3, <1>4, <1>5, LeftBehind

LEMMA GoesAwayFiles ==
  ASSUME FilesInv, CallsInv, NEW c \in Callers, GoesAway(c)
  PROVE  FilesInv'
<1>1. PICK t, f, g, r : /\ t = task[c] /\ f = call[c] /\ g = [job |-> "gone", end |-> Nothing]
                        /\ r = Reads(VoidEnd, f.frame)
  OBVIOUS
<1>2. f # Nothing /\ Stored /\ Sane(t, f) /\ Mine(c) = SessionsOf(t, f)
  BY <1>1 DEF FilesInv, GoesAway, Mine
<1>3. Ends(c, g) /\ UNCHANGED storage /\ Errs
  BY <1>1 DEF GoesAway
<1>4. g.end # "ok"
  BY <1>1, NothingAssumption
<1>5. Stored' /\ Steady({})
  BY <1>2, <1>3, SpentGrows, StoreRests DEF Errs
<1>6. task' = [task EXCEPT ![c] = g] /\ call' = [call EXCEPT ![c] = Nothing]
  BY <1>3 DEF Ends
<1>7. CASE left' = left
  BY <1>4, <1>5, <1>6, <1>7, LeftBehind
<1>8. CASE Asking(f) /\ ServerOf(f) = "void" /\ r # Unreadable /\ VoidHandlers[r.variant].does \in FileWork /\ left' = left \cup {r}
  <2>1. /\ r.variant \in DOMAIN VoidHandlers /\ VoidHandlers[r.variant].does = f.method
        /\ r.args = f.frame.args
    BY <1>1, <1>2, <1>8, RequestOf
  <2>2. Left(r) /\ SessionOf(r) \subseteq Mine(c)
    BY <1>2, <1>8, <2>1, RequestIsSound
  <2>3. Left(r)'
    BY <1>2, <1>5, <2>2, LeftKept
  <2>4. QED
    BY <1>4, <1>5, <1>6, <1>8, <2>2, <2>3, LeftBehind
<1>9. QED
  BY <1>1, <1>7, <1>8 DEF GoesAway, Asking, Server, ServerOf

LEMMA RunsLeftFiles ==
  ASSUME FilesInv, NEW r \in left, RunsLeft(r)
  PROVE  FilesInv'
<1>1. PICK does, o : does = VoidHandlers[r.variant].does /\ o = VoidOutcome(does, r.args)
  OBVIOUS
<1>2. Stored /\ Left(r)
  BY DEF FilesInv
<1>3. /\ Draws(does) => Fresh
      /\ Takes(o) /\ left' = left \ {r} /\ UNCHANGED <<task, call>>
      /\ spent' = IF Draws(does) THEN [spent EXCEPT !.ids = @ + 1] ELSE spent
  BY <1>1 DEF RunsLeft
<1>4. Spends
  BY <1>2, <1>3, SpentGrows
<1>5. does \in FileWork
  BY <1>1, <1>2 DEF Left
<1>6. PICK S : S = SessionOf(r) \cup {NextId}
  OBVIOUS
<1>7. Stored' /\ Steady(S)
  BY <1>1, <1>2, <1>3, <1>4, <1>5, <1>6, RanSteady
<1>8. QED
  BY <1>3, <1>6, <1>7, LeftRuns

LEMMA MassStopsFiles ==
  ASSUME FilesInv, CallsInv, MassStops
  PROVE  FilesInv'
<1>1. UNCHANGED <<task, left, storage, spent>> /\ Stored
  BY DEF MassStops, FilesInv
<1>2. Stored' /\ Steady({})
  BY <1>1, SpentGrows, StoreRests
<1>3. ASSUME NEW c \in Callers PROVE Sane(task[c], call[c])' /\ Mine(c)' \subseteq Mine(c)
  <2>1. PICK t, f, g : t = task[c] /\ t = task'[c] /\ f = call[c] /\ g = call'[c]
    BY <1>1
  <2>2. Sane(t, f) /\ Mine(c) = SessionsOf(t, f) /\ Mine(c)' = SessionsOf(t, g)
    BY <2>1 DEF FilesInv, Mine
  <2>3. Sane(t, g) /\ SessionsOf(t, g) \subseteq SessionsOf(t, f)
    <3>1. CASE g = f
      BY <2>2, <3>1
    <3>2. CASE f # Nothing /\ g = [f EXCEPT !.at = "ended"]
      <4>1. f = [client |-> f.client, method |-> f.method, at |-> f.at, frame |-> f.frame]
        BY <2>1, <3>2 DEF CallsInv, OnItsWay
      <4>2. g.method = f.method /\ g.frame = f.frame /\ g.at = "ended"
        BY <3>2, <4>1
      <4>3. QED
        BY <2>2, <3>2, <4>2, SaneMoved
    <3>3. QED
      BY <2>1, <3>1, <3>2 DEF MassStops, Waits
  <2>4. Sane(t, g)'
    BY <1>1, <1>2, <2>3, SaneKept
  <2>5. QED
    BY <2>1, <2>2, <2>3, <2>4
<1>4. ASSUME NEW r \in left PROVE Left(r)'
  BY <1>1, <1>2, LeftKept DEF FilesInv
<1>5. \A c, d \in Callers : c # d => Mine(c)' \cap Mine(d)' = {}
  BY <1>3 DEF FilesInv
<1>6. \A r \in left' : \A c \in Callers : SessionOf(r) \cap Mine(c)' = {}
  BY <1>1, <1>3 DEF FilesInv
<1>7. \A r, q \in left' : r # q => SessionOf(r) \cap SessionOf(q) = {}
  BY <1>1 DEF FilesInv
<1>8. \A c \in Callers : Sane(task[c], call[c])'
  BY <1>3
<1>9. \A r \in left' : Left(r)'
  BY <1>1, <1>4
<1>10. QED
  BY <1>2, <1>5, <1>6, <1>7, <1>8, <1>9 DEF FilesInv

----------------------------------------------------------------------------
(* What callers ask next                                                   *)

Sent(client, method, args) ==
  [client |-> client, method |-> method, at |-> "connecting",
   frame |-> Encode(Clients[client].table, Clients[client].methods[method].variant, args)]

LEMMA SentParts ==
  ASSUME NEW client, NEW method, NEW args, NEW f, f = Sent(client, method, args)
  PROVE  f.client = client /\ f.method = method /\ f.at = "connecting" /\ f.frame.args = args
         /\ ~Says(f, "Uploaded") /\ ~Says(f, "Downloaded")
  BY DEF Sent, Encode, Says

\* A task that goes on, or begins, with a call.
LEMMA SendsFiles ==
  ASSUME FilesInv, CallsInv, NEW c \in Callers, NEW client, NEW method, NEW args, NEW t,
         Sends(c, client, method, args), task' = [task EXCEPT ![c] = t], UNCHANGED <<left, storage>>, Spends,
         NEW f, f = Sent(client, method, args), Sane(t, f), SessionsOf(t, f) \subseteq Mine(c)
  PROVE  FilesInv'
<1>1. Stored
  BY DEF FilesInv
<1>2. Stored' /\ Steady({})
  BY <1>1, StoreRests
<1>3. Sane(t, f)'
  BY <1>1, <1>2, SaneKept
<1>4. call' = [call EXCEPT ![c] = f] /\ left' = left
  BY DEF Sends, Sent
<1>5. QED
  BY <1>2, <1>3, <1>4, OneTaskMoves

\* It ends well.
LEMMA EndsFiles ==
  ASSUME FilesInv, CallsInv, NEW c \in Callers, NEW t, Ends(c, t), Done(t), UNCHANGED <<left, storage>>, Spends
  PROVE  FilesInv'
<1>1. Stored
  BY DEF FilesInv
<1>2. Stored' /\ Steady({})
  BY <1>1, StoreRests
<1>3. Sane(t, Nothing) /\ SessionsOf(t, Nothing) = {}
  BY DEF Sane, SessionsOf
<1>4. Sane(t, Nothing)'
  BY <1>1, <1>2, <1>3, SaneKept
<1>5. task' = [task EXCEPT ![c] = t] /\ call' = [call EXCEPT ![c] = Nothing] /\ left' = left
  BY DEF Ends
<1>6. QED
  BY <1>2, <1>3, <1>4, <1>5, OneTaskMoves

\* The next part goes where the last one ended; at the end of the file, the finish.
LEMMA UploadPartFiles ==
  ASSUME FilesInv, CallsInv, NEW c \in Callers, NEW id, NEW t, t = task[c], UploadPart(c, id),
         Putting(t), Done(t), Drawn(id), id \in Mine(c), Held(id, t.part - 1, t.file, t.sent),
         t.sent = t.file => t.id = id, UNCHANGED <<left, storage, spent>>
  PROVE  FilesInv'
<1>1. PICK client : client = call[c].client
  OBVIOUS
<1>2. Stored /\ Spends
  BY SpentGrows DEF FilesInv
<1>3. ASSUME NEW k \in 1..(IF t.file - t.sent < PartLen THEN t.file - t.sent ELSE PartLen),
             Sends(c, client, "upload_part", [id |-> id, number |-> t.part, bytes |-> Slice(File(t.file), t.sent, k)]),
             Sets(c, [job |-> "put", file |-> t.file, part |-> t.part + 1, sent |-> t.sent + k, end |-> Nothing, id |-> id])
      PROVE  FilesInv'
  <2>1. PICK u, a, f : /\ u = [job |-> "put", file |-> t.file, part |-> t.part + 1, sent |-> t.sent + k, end |-> Nothing, id |-> id]
                       /\ a = [id |-> id, number |-> t.part, bytes |-> Slice(File(t.file), t.sent, k)]
                       /\ f = Sent(client, "upload_part", a)
    OBVIOUS
  <2>2. PICK n, p, s : n = t.file /\ p = t.part /\ s = t.sent
    OBVIOUS
  <2>3. n \in FileSizes /\ n \in Nat /\ p \in Nat /\ p # 0 /\ s \in 0..n
    BY <2>2, SizesAssumption DEF Putting
  <2>4. k \in Nat /\ k # 0 /\ s + k \in 0..n /\ s \in 0..(s + k)
    BY <2>2, <2>3, LimitsAssumption
  <2>5. u.job = "put" /\ u.file = n /\ u.part = p + 1 /\ u.sent = s + k /\ u.end = Nothing /\ u.id = id
    BY <2>1, <2>2
  <2>6. a.id = id /\ a.number = p /\ a.bytes = Slice(File(n), s, k)
    BY <2>1, <2>2
  <2>7. a.bytes = SubSeq(File(n), s + 1, s + k)
    <3>1. Len(File(n)) = n
      BY <2>3, FileIs
    <3>2. (IF s + k < n THEN s + k ELSE n) = s + k
      BY <2>3, <2>4
    <3>3. QED
      BY <2>6, <3>1, <3>2 DEF Slice
  <2>8. f.method = "upload_part" /\ f.at = "connecting" /\ f.frame.args = a
    BY <2>1, SentParts
  <2>9. Putting(u) /\ u.part # 1
    BY <2>3, <2>4, <2>5 DEF Putting
  <2>10. Held(id, u.part - 2, u.file, s)
    <3>1. u.part - 2 = p - 1
      BY <2>3, <2>5
    <3>2. QED
      BY <2>2, <2>5, <3>1
  <2>11. a.number = u.part - 1
    BY <2>3, <2>5, <2>6
  <2>12. NextPart(u, f)
    <3>1. \E q \in 0..u.sent : f.frame.args.bytes = SubSeq(File(u.file), q + 1, u.sent) /\ Held(u.id, u.part - 2, u.file, q)
      BY <2>4, <2>5, <2>7, <2>8, <2>10
    <3>2. QED
      BY <2>5, <2>6, <2>8, <2>9, <2>11, <3>1 DEF NextPart
  <2>13. Sane(u, f)
    BY <2>5, <2>8, <2>12, NothingAssumption DEF Sane, Done, Exact, FileMethods
  <2>14. SessionsOf(u, f) \subseteq Mine(c)
    BY <2>5, <2>8 DEF SessionsOf
  <2>15. Sends(c, client, "upload_part", a) /\ task' = [task EXCEPT ![c] = u]
    BY <1>3, <2>1 DEF Sets
  <2>16. QED
    BY <1>2, <2>1, <2>13, <2>14, <2>15, SendsFiles
<1>4. ASSUME t.sent = t.file, UNCHANGED task, Sends(c, client, "upload_finish", [id |-> id, count |-> t.part - 1])
      PROVE  FilesInv'
  <2>1. PICK a, f : a = [id |-> id, count |-> t.part - 1] /\ f = Sent(client, "upload_finish", a)
    OBVIOUS
  <2>2. f.method = "upload_finish" /\ f.at = "connecting" /\ f.frame.args = a /\ ~Says(f, "Uploaded")
    BY <2>1, SentParts
  <2>3. a.id = id /\ a.count = t.part - 1
    BY <2>1
  <2>4. Finishing(t, f)
    BY <1>4, <2>2, <2>3 DEF Finishing
  <2>5. Sane(t, f)
    BY <2>2, <2>4 DEF Sane, Exact, FileMethods
  <2>6. SessionsOf(t, f) \subseteq Mine(c)
    BY <1>4, <2>2 DEF SessionsOf
  <2>7. Sends(c, client, "upload_finish", a) /\ task' = [task EXCEPT ![c] = t]
    BY <1>4, <2>1 DEF CallsInv
  <2>8. QED
    BY <1>2, <2>1, <2>5, <2>6, <2>7, SendsFiles
<1>5. QED
  BY <1>1, <1>3, <1>4 DEF UploadPart

\* A range that comes back is put after what was got, and a short one is the last.
LEMMA DownloadMoreFiles ==
  ASSUME FilesInv, CallsInv, NEW c \in Callers, NEW t, t = task[c], NEW f, f = call[c], Ranging(t, f),
         Says(f, "Downloaded"), NEW data, data = f.frame.args.bytes, DownloadMore(c, data),
         UNCHANGED <<left, storage, spent>>
  PROVE  FilesInv'
<1>1. PICK id, old, all, client : id = t.id /\ old = t.data /\ all = old \o data /\ client = f.client
  OBVIOUS
<1>2. Stored /\ Spends
  BY SpentGrows DEF FilesInv
<1>3. t = [job |-> "get", id |-> id, data |-> old, end |-> Nothing] /\ Fetched(id, old)
  BY <1>1 DEF Ranging
<1>4. id \in ObjectIds /\ old \in Seq(Cells) /\ data \in Seq(Cells) /\ all \in Seq(Cells)
  <2>1. id \in ObjectIds /\ old \in Seq(Cells)
    BY <1>3 DEF Fetched
  <2>2. data \in Seq(Cells)
    BY DEF Ranging
  <2>3. QED
    BY <1>1, <2>1, <2>2, ConcatProperties
<1>5. PICK len : len = Len(old)
  OBVIOUS
<1>6. len \in Nat /\ PartLen \in Nat \ {0}
  BY <1>4, <1>5, LimitsAssumption
<1>7. ASSUME id \notin replaced
      PROVE  /\ objects[id] # Nothing /\ Len(all) <= Len(objects[id])
             /\ all = SubSeq(objects[id], 1, Len(all))
             /\ Len(data) < PartLen => all = objects[id]
  <2>1. PICK o : o = objects[id]
    OBVIOUS
  <2>2. o # Nothing /\ data = Slice(o, len, PartLen)
    BY <1>1, <1>5, <1>7, <2>1 DEF Ranging
  <2>3. o \in Seq(Cells)
    BY <1>2, <1>4, <2>1, <2>2, FilesAreStored
  <2>4. len <= Len(o) /\ old = SubSeq(o, 1, len)
    <3>1. CASE old = <<>>
      <4>1. len = 0
        BY <1>5, <3>1
      <4>2. SubSeq(o, 1, 0) = <<>>
        BY SubSeqEmpty
      <4>3. QED
        BY <2>3, <3>1, <4>1, <4>2
    <3>2. CASE old # <<>>
      BY <1>3, <1>5, <1>7, <2>1, <3>2 DEF Fetched
    <3>3. QED
      BY <3>1, <3>2
  <2>5. /\ SubSeq(o, 1, len) \o data = SubSeq(o, 1, len + Len(data)) /\ len + Len(data) <= Len(o)
        /\ Len(data) < PartLen => len + Len(data) = Len(o)
    <3>1. LET d == Slice(o, len, PartLen) IN
          /\ SubSeq(o, 1, len) \o d = SubSeq(o, 1, len + Len(d)) /\ len + Len(d) <= Len(o)
          /\ Len(d) < PartLen => len + Len(d) = Len(o)
      BY <1>6, <2>3, <2>4, Sliced
    <3>2. QED
      BY <2>2, <3>1
  <2>6. all = SubSeq(o, 1, len + Len(data)) /\ Len(all) = len + Len(data)
    <3>1. Len(old \o data) = Len(old) + Len(data)
      BY <1>4, ConcatProperties
    <3>2. QED
      BY <1>1, <1>5, <2>4, <2>5, <3>1
  <2>7. SubSeq(o, 1, Len(o)) = o
    BY <2>3, SubSeqFull
  <2>8. QED
    BY <2>1, <2>2, <2>5, <2>6, <2>7
<1>8. ASSUME Len(data) < PartLen, Ends(c, [t EXCEPT !.data = all, !.end = "ok"])
      PROVE  FilesInv'
  <2>1. PICK u : u = [job |-> "get", id |-> id, data |-> all, end |-> "ok"]
    OBVIOUS
  <2>2. [t EXCEPT !.data = all, !.end = "ok"] = u
    <3> DEFINE v == [t EXCEPT !.data = all, !.end = "ok"]
    <3>1. t = [x \in {"job", "id", "data", "end"} |-> t[x]] /\ t.job = "get" /\ t.id = id
      BY <1>3
    <3>2. v = [x \in {"job", "id", "data", "end"} |-> v[x]]
      BY <3>1
    <3>3. v.job = "get" /\ v.id = id
      BY <3>1
    <3>4. v.data = all /\ v.end = "ok"
      BY <3>1
    <3> HIDE DEF v
    <3>5. v = u
      BY <2>1, <3>2, <3>3, <3>4
    <3>6. QED
      BY <3>5 DEF v
  <2>3. u.job = "get" /\ u.id = id /\ u.data = all
    BY <2>1
  <2>4. Done(u)
    BY <1>4, <1>7, <1>8, <2>3 DEF Done
  <2>5. QED
    BY <1>2, <1>8, <2>2, <2>4, EndsFiles
<1>9. ASSUME Sets(c, [t EXCEPT !.data = all]),
             Sends(c, client, "download_range", [id |-> id, offset |-> Len(all), length |-> PartLen])
      PROVE  FilesInv'
  <2>1. PICK u, a, g : /\ u = [job |-> "get", id |-> id, data |-> all, end |-> Nothing]
                       /\ a = [id |-> id, offset |-> Len(all), length |-> PartLen]
                       /\ g = Sent(client, "download_range", a)
    OBVIOUS
  <2>2. [t EXCEPT !.data = all] = u
    BY <1>3, <2>1
  <2>3. u.id = id /\ u.data = all /\ u.end = Nothing /\ u = [job |-> "get", id |-> u.id, data |-> u.data, end |-> Nothing]
    BY <2>1
  <2>4. a.id = id /\ a.offset = Len(all) /\ a.length = PartLen
    BY <2>1
  <2>5. g.method = "download_range" /\ g.at = "connecting" /\ g.frame.args = a /\ ~Says(g, "Downloaded")
    BY <2>1, SentParts
  <2>6. Fetched(id, all)
    BY <1>4, <1>7 DEF Fetched
  <2>7. Ranging(u, g)
    BY <2>3, <2>4, <2>5, <2>6 DEF Ranging
  <2>8. Sane(u, g) /\ SessionsOf(u, g) = {}
    BY <2>3, <2>5, <2>7, NothingAssumption DEF Sane, Done, Exact, SessionsOf, FileMethods
  <2>9. Sends(c, client, "download_range", a) /\ task' = [task EXCEPT ![c] = u]
    BY <1>9, <2>1, <2>2 DEF Sets
  <2>10. QED
    BY <1>2, <2>1, <2>8, <2>9, SendsFiles
<1>10. QED
  BY <1>1, <1>8, <1>9 DEF DownloadMore

LEMMA ContinuesFiles ==
  ASSUME FilesInv, CallsInv, NEW c \in Callers, Continues(c)
  PROVE  FilesInv'
<1>1. PICK t, f, a, r : t = task[c] /\ f = call[c] /\ a = f.frame.args /\ r = Response(c).args
  OBVIOUS
<1>2. f # Nothing /\ Ended(c) /\ Verdict(c) = "ok" /\ UNCHANGED <<left, storage, spent>>
  BY <1>1 DEF Continues, Ended, Waits
<1>3. Stored /\ Sane(t, f) /\ Exact(t, f) /\ Done(t) /\ Mine(c) = SessionsOf(t, f)
  BY <1>1, <1>2 DEF FilesInv, Sane, Mine
<1>4. Spends
  BY <1>2, <1>3, SpentGrows
<1>5. f.method \in FileMethods => Says(f, Only[f.method]) /\ r = a
  BY <1>1, <1>2, EndsWell
<1>6. CASE f.method = "download_range"
  <2>1. Says(f, "Downloaded") /\ r = a
    BY <1>5, <1>6 DEF FileMethods, Only
  <2>2. Ranging(t, f)
    BY <1>3, <1>6 DEF Exact
  <2>3. PICK data : data = a.bytes
    OBVIOUS
  <2>4. DownloadMore(c, data)
    BY <1>1, <1>6, <2>1, <2>3 DEF Continues
  <2>5. QED
    BY <1>1, <1>2, <2>1, <2>2, <2>3, <2>4, DownloadMoreFiles
<1>7. CASE f.method = "upload_begin"
  <2>1. Says(f, "Uploaded") /\ r = a
    BY <1>5, <1>7 DEF FileMethods, Only
  <2>2. Beginning(t, f)
    BY <1>3, <1>7 DEF Exact
  <2>3. PICK id : id = a.id
    OBVIOUS
  <2>4. UploadPart(c, id)
    BY <1>1, <1>7, <2>1, <2>3 DEF Continues
  <2>5. Drawn(id) /\ Held(id, 0, t.file, 0) /\ Putting(t) /\ t.part = 1 /\ t.sent = 0 /\ t.sent # t.file
    BY <1>1, <2>1, <2>2, <2>3 DEF Beginning
  <2>6. Held(id, t.part - 1, t.file, t.sent)
    <3>1. t.part - 1 = 0
      BY <2>5
    <3>2. QED
      BY <2>5, <3>1
  <2>7. id \in Mine(c)
    BY <1>1, <1>2, <1>3, <1>7, <2>1, <2>3 DEF SessionsOf
  <2>8. QED
    BY <1>1, <1>2, <1>3, <2>4, <2>5, <2>6, <2>7, UploadPartFiles
<1>8. CASE f.method = "upload_part"
  <2>1. f.at = "answered"
    BY <1>5, <1>8 DEF FileMethods, Says
  <2>2. NextPart(t, f)
    BY <1>3, <1>8 DEF Exact
  <2>3. PICK id : id = t.id
    OBVIOUS
  <2>4. UploadPart(c, id)
    BY <1>1, <1>8, <2>3 DEF Continues
  <2>5. Drawn(id) /\ Held(id, t.part - 1, t.file, t.sent) /\ Putting(t)
    BY <2>1, <2>2, <2>3 DEF NextPart
  <2>6. id \in Mine(c)
    BY <1>2, <1>3, <1>8, <2>3 DEF SessionsOf
  <2>7. QED
    BY <1>1, <1>2, <1>3, <2>3, <2>4, <2>5, <2>6, UploadPartFiles
<1>9. CASE f.method \notin {"download_range", "upload_begin", "upload_part"}
  <2>1. PICK u : u = IF t.job = "put" THEN [job |-> "put", file |-> t.file, id |-> r.id, end |-> "ok"]
                     ELSE [job |-> "once", end |-> "ok"]
    OBVIOUS
  <2>2. Ends(c, u)
    BY <1>1, <1>9, <2>1 DEF Continues
  <2>3. Done(u)
    <3>1. CASE t.job = "put"
      <4>1. f.method \in {"upload", "upload_finish"}
        BY <1>3, <1>9, <3>1 DEF Exact, FileMethods
      <4>2. Says(f, "Uploaded") /\ r = a
        BY <1>5, <4>1 DEF FileMethods, Only
      <4>3. Put(a.id, t.file)
        BY <1>1, <1>3, <3>1, <4>1, <4>2 DEF Exact, Wholly, Finishing
      <4>4. u.job = "put" /\ u.file = t.file /\ u.id = a.id
        BY <2>1, <3>1, <4>2
      <4>5. QED
        BY <4>3, <4>4 DEF Done
    <3>2. CASE t.job # "put"
      <4>1. u.job = "once"
        BY <2>1, <3>2
      <4>2. QED
        BY <4>1 DEF Done
    <3>3. QED
      BY <3>1, <3>2
  <2>4. QED
    BY <1>2, <1>4, <2>2, <2>3, EndsFiles
<1>10. QED
  BY <1>6, <1>7, <1>8, <1>9

LEMMA NewDone ==
  ASSUME NEW t, t.end = Nothing
  PROVE  Done(t)
  BY NothingAssumption DEF Done

\* What a call of one method asks.
LEMMA VariantsOfFiles ==
  ASSUME NEW client \in DOMAIN Clients, NEW m \in DOMAIN Clients[client].methods
  PROVE  /\ m = "upload" => Clients[client].methods[m].variant = "Upload"
         /\ m = "upload_with" => Clients[client].methods[m].variant = "UploadWith"
<1>1. PICK server, v : server = Clients[client].server /\ v = Clients[client].methods[m].variant
  OBVIOUS
<1>2. server \in {"void", "mass"} /\ v \in DOMAIN Handlers(server) /\ Handlers(server)[v].does = m
  BY <1>1, ClientsAgree DEF Agreed, Understood
<1>3. CASE server = "void"
  BY <1>1, <1>2, <1>3 DEF Handlers, VoidHandlers, Handler
<1>4. CASE server = "mass"
  BY <1>1, <1>2, <1>4 DEF Handlers, MassHandlers, Handler
<1>5. QED
  BY <1>2, <1>3, <1>4

LEMMA BeginsFiles ==
  ASSUME FilesInv, CallsInv, NEW c \in Callers, NEW client \in DOMAIN Clients,
         \/ CallOnce(c, client) \/ CallAlone(c, client)
         \/ UploadFile(c, client) \/ DownloadToFile(c, client)
  PROVE  FilesInv'
<1>1. call[c] = Nothing /\ UNCHANGED <<left, storage>> /\ Stored
  BY DEF CallOnce, CallAlone, UploadFile, DownloadToFile, Begins, FilesInv
<1>2. Spends
  <2>1. \E x : spent' = [spent EXCEPT !.tasks = x]
    BY DEF CallOnce, CallAlone, UploadFile, DownloadToFile, Begins
  <2>2. QED
    BY <1>1, <2>1, SpentGrows
<1>3. Known \subseteq ObjectIds
  BY <1>1 DEF Known, Stored
<1>4. ASSUME NEW t, NEW method, NEW args, Sets(c, t), Sends(c, client, method, args), t.end = Nothing,
             \A f : f = Sent(client, method, args) => Exact(t, f) /\ SessionsOf(t, f) = {}
      PROVE  FilesInv'
  <2>1. PICK f : f = Sent(client, method, args)
    OBVIOUS
  <2>2. Sane(t, f) /\ SessionsOf(t, f) \subseteq Mine(c)
    BY <1>4, <2>1, NewDone DEF Sane
  <2>3. task' = [task EXCEPT ![c] = t]
    BY <1>4 DEF Sets
  <2>4. QED
    BY <1>1, <1>2, <1>4, <2>1, <2>2, <2>3, SendsFiles
<1>5. CASE CallOnce(c, client)
  <2>1. PICK m \in Singly(client) \cap FileWork :
          \E args \in ArgsOf(Clients[client].methods[m].variant) :
            Sets(c, [job |-> "once", end |-> Nothing]) /\ Sends(c, client, m, args)
    BY <1>5 DEF CallOnce
  <2>2. PICK args \in ArgsOf(Clients[client].methods[m].variant) :
          Sets(c, [job |-> "once", end |-> Nothing]) /\ Sends(c, client, m, args)
    BY <2>1
  <2>3. PICK t : t = [job |-> "once", end |-> Nothing]
    OBVIOUS
  <2>4. /\ m = "upload" => args \in {[bytes |-> File(n)] : n \in FileSizes}
        /\ m = "upload_with" => args \in {[id |-> i, bytes |-> File(n)] : i \in Known, n \in FileSizes}
    <3>1. m \in DOMAIN Clients[client].methods
      BY DEF Singly
    <3>2. /\ ArgsOf("Upload") = {[bytes |-> File(n)] : n \in FileSizes}
          /\ ArgsOf("UploadWith") = {[id |-> i, bytes |-> File(n)] : i \in Known, n \in FileSizes}
      BY DEF ArgsOf
    <3>3. QED
      BY <2>2, <3>1, <3>2, VariantsOfFiles
  <2>5. /\ m \in {"upload", "upload_with"} => args.bytes \in Files
        /\ m = "upload_with" => args.id \in ObjectIds
    BY <1>3, <2>4 DEF Files
  <2>6. m \notin {"upload_begin", "upload_part", "upload_finish", "download_range"}
    BY DEF Singly
  <2>7. ASSUME NEW f, f = Sent(client, m, args) PROVE Exact(t, f) /\ SessionsOf(t, f) = {}
    <3>1. f.method = m /\ f.at = "connecting" /\ f.frame.args = args /\ ~Says(f, "Uploaded")
      BY <2>7, SentParts
    <3>2. m \in {"upload", "upload_with"} => Wholly(t, f)
      BY <2>3, <2>5, <3>1 DEF Wholly
    <3>3. QED
      BY <2>3, <2>6, <3>1, <3>2 DEF Exact, SessionsOf
  <2>8. t.end = Nothing
    BY <2>3
  <2>9. QED
    BY <1>4, <2>2, <2>3, <2>7, <2>8
<1>6. CASE CallAlone(c, client)
  <2>1. PICK m \in Singly(client) \ FileWork :
          Sets(c, [job |-> "once", end |-> Nothing]) /\ Sends(c, client, m, <<>>)
    BY <1>6 DEF CallAlone
  <2>2. PICK t : t = [job |-> "once", end |-> Nothing]
    OBVIOUS
  <2>3. ASSUME NEW f, f = Sent(client, m, <<>>) PROVE Exact(t, f) /\ SessionsOf(t, f) = {}
    <3>1. f.method = m
      BY <2>3, SentParts
    <3>2. QED
      BY <2>2, <3>1 DEF Exact, SessionsOf, FileWork
  <2>4. t.end = Nothing
    BY <2>2
  <2>5. QED
    BY <1>4, <2>1, <2>2, <2>3, <2>4
<1>7. CASE UploadFile(c, client)
  <2>1. PICK n \in FileSizes :
          /\ Sets(c, [job |-> "put", file |-> n, part |-> 1, sent |-> 0, end |-> Nothing])
          /\ IF n <= FrameLimit THEN Sends(c, client, "upload", [bytes |-> File(n)])
             ELSE Sends(c, client, "upload_begin", [total |-> n])
    BY <1>7 DEF UploadFile
  <2>2. PICK t : t = [job |-> "put", file |-> n, part |-> 1, sent |-> 0, end |-> Nothing]
    OBVIOUS
  <2>3. t.job = "put" /\ t.file = n /\ t.part = 1 /\ t.sent = 0 /\ t.end = Nothing
    BY <2>2
  <2>4. n \in Nat
    BY SizesAssumption
  <2>5. CASE n <= FrameLimit
    <3>1. ASSUME NEW f, f = Sent(client, "upload", [bytes |-> File(n)])
          PROVE  Exact(t, f) /\ SessionsOf(t, f) = {}
      <4>1. f.method = "upload" /\ f.at = "connecting" /\ f.frame.args = [bytes |-> File(n)] /\ ~Says(f, "Uploaded")
        BY <3>1, SentParts
      <4>2. f.frame.args.bytes = File(n)
        BY <4>1
      <4>3. Wholly(t, f)
        BY <2>3, <4>1, <4>2 DEF Wholly, Files
      <4>4. QED
        BY <4>1, <4>3 DEF Exact, SessionsOf, FileMethods
    <3>2. QED
      BY <1>4, <2>1, <2>2, <2>3, <2>5, <3>1
  <2>6. CASE ~(n <= FrameLimit)
    <3>1. ASSUME NEW f, f = Sent(client, "upload_begin", [total |-> n])
          PROVE  Exact(t, f) /\ SessionsOf(t, f) = {}
      <4>1. f.method = "upload_begin" /\ ~Says(f, "Uploaded")
        BY <3>1, SentParts
      <4>2. Beginning(t, f)
        BY <2>3, <2>4, <2>6, <4>1, LimitsAssumption DEF Beginning, Putting
      <4>3. QED
        BY <4>1, <4>2 DEF Exact, SessionsOf, FileMethods
    <3>2. QED
      BY <1>4, <2>1, <2>2, <2>3, <2>6, <3>1
  <2>7. QED
    BY <2>5, <2>6
<1>8. CASE DownloadToFile(c, client)
  <2>1. PICK id \in Known :
          /\ Sets(c, [job |-> "get", id |-> id, data |-> <<>>, end |-> Nothing])
          /\ Sends(c, client, "download_range", [id |-> id, offset |-> 0, length |-> PartLen])
    BY <1>8 DEF DownloadToFile
  <2>2. PICK t, a : /\ t = [job |-> "get", id |-> id, data |-> <<>>, end |-> Nothing]
                    /\ a = [id |-> id, offset |-> 0, length |-> PartLen]
    OBVIOUS
  <2>3. t.id = id /\ t.data = <<>> /\ t.end = Nothing /\ t = [job |-> "get", id |-> t.id, data |-> t.data, end |-> Nothing]
    BY <2>2
  <2>4. a.id = id /\ a.offset = 0 /\ a.length = PartLen
    BY <2>2
  <2>5. Fetched(id, <<>>)
    BY <1>3 DEF Fetched
  <2>6. ASSUME NEW f, f = Sent(client, "download_range", a) PROVE Exact(t, f) /\ SessionsOf(t, f) = {}
    <3>1. f.method = "download_range" /\ f.frame.args = a /\ ~Says(f, "Downloaded")
      BY <2>6, SentParts
    <3>2. Len(t.data) = 0
      BY <2>3
    <3>3. Ranging(t, f)
      BY <2>3, <2>4, <2>5, <3>1, <3>2 DEF Ranging
    <3>4. QED
      BY <3>1, <3>3 DEF Exact, SessionsOf, FileMethods
  <2>7. QED
    BY <1>4, <2>1, <2>2, <2>3, <2>6
<1>9. QED
  BY <1>5, <1>6, <1>7, <1>8

LEMMA FilesInitially == CallsInit => FilesInv
<1>1. SUFFICES ASSUME CallsInit PROVE FilesInv
  OBVIOUS
<1>2. /\ objects = [i \in ObjectIds |-> IF i = 1 THEN File(StoredSize) ELSE Nothing]
      /\ uploads = [i \in ObjectIds |-> Nothing] /\ spent = [tasks |-> 0, errors |-> 0, ids |-> 1]
      /\ left = {}
  BY <1>1 DEF CallsInit
<1>3. Stored
  <2>1. spent.ids = 1 /\ spent = [tasks |-> spent.tasks, errors |-> spent.errors, ids |-> spent.ids]
    BY <1>2
  <2>2. 1..spent.ids \subseteq ObjectIds /\ spent.ids \in Nat \ {0}
    BY <2>1, SizesAssumption
  <2>3. objects = [i \in ObjectIds |-> objects[i]] /\ uploads = [i \in ObjectIds |-> uploads[i]]
    BY <1>2
  <2>4. \A i \in ObjectIds : objects[i] # Nothing => \E n \in FileSizes \cup {StoredSize} : objects[i] = File(n)
    BY <1>2
  <2>5. QED
    BY <2>1, <2>2, <2>3, <2>4 DEF Stored
<1>4. ASSUME NEW c \in Callers PROVE Sane(task[c], call[c]) /\ Mine(c) = {}
  <2>1. call[c] = Nothing /\ task[c].end = Nothing
    BY <1>1 DEF CallsInit
  <2>2. QED
    BY <2>1, NewDone DEF Sane, Mine, SessionsOf
<1>5. QED
  BY <1>2, <1>3, <1>4 DEF FilesInv

LEMMA FilesInvImplies == FilesInv => FilesComeBackWhole
<1>1. SUFFICES ASSUME FilesInv PROVE FilesComeBackWhole
  OBVIOUS
<1>2. ASSUME NEW id \in ObjectIds, objects[id] # Nothing PROVE objects[id] = File(Len(objects[id]))
  BY <1>1, <1>2, FilesAreStored DEF FilesInv
<1>3. ASSUME NEW c \in Callers, task[c].end = "ok" PROVE Done(task[c])
  BY <1>1 DEF FilesInv, Sane
<1>4. QED
  BY <1>2, <1>3 DEF FilesComeBackWhole, Done, Put

\* An object is a whole file, and a file put or got is the object, whatever the
\* lengths of the parts that were read, whoever goes away, and whatever fails, unless
\* the object was replaced: a request left behind ends no session but its own.
THEOREM FilesArrive == CallsSpec => []FilesComeBackWhole
<1>1. FilesInv /\ CallsInv /\ [CallsNext]_callVars => FilesInv'
  <2>1. SUFFICES ASSUME FilesInv, CallsInv, [CallsNext]_callVars PROVE FilesInv'
    OBVIOUS
  <2>2. ASSUME NEW c \in Callers, NEW client \in DOMAIN Clients, CallOnce(c, client) \/ CallAlone(c, client)
        PROVE  FilesInv'
    BY <2>1, <2>2, BeginsFiles
  <2>3. ASSUME NEW c \in Callers, NEW client \in VoidClients, UploadFile(c, client) \/ DownloadToFile(c, client)
        PROVE  FilesInv'
    <3>1. client \in DOMAIN Clients
      BY DEF VoidClients, Clients
    <3>2. QED
      BY <2>1, <2>3, <3>1, BeginsFiles
  <2>4. CASE UNCHANGED callVars
    <3>1. /\ Stored' = Stored /\ \A c \in Callers : Mine(c)' = Mine(c) /\ Sane(task[c], call[c])' = Sane(task[c], call[c])
          /\ \A r : Left(r)' = Left(r)
          /\ left' = left
      BY <2>4 DEF callVars, Stored, Mine, Sane, Left, Done, Put, Drawn, Held, Exact, Wholly, Beginning, NextPart,
                 Finishing, Ranging, Fetched
    <3>2. QED
      BY <2>1, <3>1 DEF FilesInv
  <2>5. QED
    BY <2>1, <2>2, <2>3, <2>4, VoidServesFiles, MassServesFiles, ContinuesFiles, FailsFiles, LosesFiles,
       GoesAwayFiles, RunsLeftFiles, MassStopsFiles DEF CallsNext
<1>2. QED
  BY <1>1, CallsInitially, CallsStep, FilesInitially, FilesInvImplies, PTL DEF CallsSpec

-----------------------------------------------------------------------------
(* The operations of an instance                                           *)

USE DEF vars, registry, model, Ok, MayFail, Holds, To, Answers, Idle

-----------------------------------------------------------------------------
(* Steps that serve a call.  They leave the registries alone and give the  *)
(* request an entry that is not one of a start or a shutdown.              *)

Starting == {"start", "route"}
Ending   == {"stop", "unlist", "unroute"}

IsEntry(q) == "at" \in DOMAIN q /\ q = [f \in DOMAIN q |-> q[f]]

Tables ==
  /\ req = [r \in Requests |-> req[r]] /\ hosted = [i \in Ids |-> hosted[i]]
  /\ \A r \in Requests : IsEntry(req[r])

Quiet(r) ==
  /\ UNCHANGED registry
  /\ req' = [req EXCEPT ![r] = req'[r]]
  /\ IsEntry(req'[r])
  /\ req[r].at \notin Starting \cup Ending /\ req'[r].at \notin Starting \cup Ending

LEMMA EnterIsQuiet ==
  ASSUME Tables, NEW r \in Requests, NEW i, NEW op, NEW input,
         NEW at \in {"download", "up", "down", "optimize", "other"}, Enter(r, i, op, at, input)
  PROVE  Quiet(r)
BY DEF Enter, Tables, Quiet, IsEntry, Starting, Ending

LEMMA OtherCallsAreQuiet ==
  ASSUME Tables, NEW r \in Requests, NEW i \in Ids,
         Forward(r, i) \/ PerturbUp(r, i) \/ PerturbDown(r, i) \/ Optimize(r, i) \/ OtherOperations(r, i)
  PROVE  Quiet(r)
BY EnterIsQuiet DEF Forward, PerturbUp, PerturbDown, Optimize, OtherOperations

LEMMA StepsAreQuiet ==
  ASSUME Tables, NEW r \in Requests, Steps(r)
  PROVE  Quiet(r)
BY DEF Steps, RunsPerturbUp, RunsPerturbDown, RunsOptimize, RunsOther, Tables, Quiet, IsEntry, Starting, Ending

LEMMA InvokesAreQuiet ==
  ASSUME Tables, NEW r \in Requests, Invokes(r)
  PROVE  Quiet(r) /\ UNCHANGED model
<1> USE DEF Tables, Quiet, IsEntry, Starting, Ending
<1>1. CASE Download(r) BY <1>1 DEF Download, Got
<1>2. CASE DownloadFails(r) BY <1>2 DEF DownloadFails
<1>3. CASE Fallback(r) BY <1>3 DEF Fallback, Got
<1>4. CASE ValidateReceived(r) BY <1>4 DEF ValidateReceived, Got, StreamFails
<1>5. CASE ReceiveBegin(r) BY <1>5 DEF ReceiveBegin, Receives, StreamFails
<1>6. CASE ReceiveChunk(r) BY <1>6 DEF ReceiveChunk, Receives, StreamFails
<1>7. CASE ReceiveCommit(r) BY <1>7 DEF ReceiveCommit, Receives, StreamFails
<1>8. CASE StreamBreaks(r) BY <1>8 DEF StreamBreaks, Receives, StreamFails
<1>9. CASE RunsForward(r) BY <1>9 DEF RunsForward, Runs, Publishes
<1>10. CASE QwenForward(r) BY <1>10 DEF QwenForward, Runs, Publishes
<1>11. CASE PublishArtifact(r) BY <1>11 DEF PublishArtifact
<1>12. CASE PublishFails(r) BY <1>12 DEF PublishFails
<1>13. CASE AnswersForward(r) BY <1>13 DEF AnswersForward
<1> QED
  BY <1>1, <1>2, <1>3, <1>4, <1>5, <1>6, <1>7, <1>8, <1>9, <1>10, <1>11, <1>12, <1>13 DEF Invokes

-----------------------------------------------------------------------------
(* The shared model of corgi-zo *)

\* Where the weights are while every perturbation was turned round once: home,
\* or as far from it as the downward perturbations of this step took them.
Offset ==
  /\ zo = [offset |-> zo.offset, direction |-> zo.direction, downs |-> zo.downs, steps |-> zo.steps]
  /\ zo.offset \in Int /\ zo.downs \in Nat
  /\ ~zo.direction => zo.downs = 0
  /\ orderly => zo.offset = IF zo.direction THEN 1 - 2 * zo.downs ELSE 0

LEMMA OffsetInductive == Offset /\ [Next]_vars => Offset'
<1> SUFFICES ASSUME Offset, [Next]_vars PROVE Offset' OBVIOUS
<1>1. CASE UNCHANGED model BY <1>1 DEF Offset
<1>2. ASSUME NEW r \in Requests, RunsPerturbUp(r) PROVE Offset'
  <2>1. CASE UNCHANGED model BY <1>1, <2>1
  <2>2. CASE ~UNCHANGED model
    <3>1. zo' = [zo EXCEPT !.offset = @ + 1, !.direction = TRUE]
      BY <1>2, <2>2 DEF RunsPerturbUp
    <3>2. orderly' = orderly /\ ~zo.direction
      BY <1>2, <2>2 DEF RunsPerturbUp
    <3>3. zo' = [offset |-> zo'.offset, direction |-> zo'.direction, downs |-> zo'.downs, steps |-> zo'.steps]
      BY <3>1 DEF Offset
    <3>4. zo'.offset = zo.offset + 1 /\ zo'.direction = TRUE /\ zo'.downs = zo.downs /\ zo'.steps = zo.steps
      BY <3>1 DEF Offset
    <3>5. zo'.offset \in Int /\ zo'.downs \in Nat BY <3>4 DEF Offset
    <3>6. ~zo'.direction => zo'.downs = 0 BY <3>2, <3>4 DEF Offset
    <3>7. orderly' => zo'.offset = IF zo'.direction THEN 1 - 2 * zo'.downs ELSE 0 BY <3>2, <3>4 DEF Offset
    <3> QED BY <3>3, <3>5, <3>6, <3>7 DEF Offset
  <2> QED BY <2>1, <2>2
<1>3. ASSUME NEW r \in Requests, RunsPerturbDown(r) PROVE Offset'
  <2>1. CASE UNCHANGED model BY <1>1, <2>1
  <2>2. CASE ~UNCHANGED model
    <3>1. zo' = [zo EXCEPT !.offset = @ - 2, !.downs = @ + 1]
      BY <1>3, <2>2 DEF RunsPerturbDown
    <3>2. orderly' = orderly /\ zo.direction
      BY <1>3, <2>2 DEF RunsPerturbDown
    <3>3. zo' = [offset |-> zo'.offset, direction |-> zo'.direction, downs |-> zo'.downs, steps |-> zo'.steps]
      BY <3>1 DEF Offset
    <3>4. zo'.offset = zo.offset - 2 /\ zo'.direction = zo.direction /\ zo'.downs = zo.downs + 1 /\ zo'.steps = zo.steps
      BY <3>1 DEF Offset
    <3>5. zo'.offset \in Int /\ zo'.downs \in Nat BY <3>4 DEF Offset
    <3>6. ~zo'.direction => zo'.downs = 0 BY <3>2, <3>4 DEF Offset
    <3>7. orderly' => zo'.offset = IF zo'.direction THEN 1 - 2 * zo'.downs ELSE 0 BY <3>2, <3>4 DEF Offset
    <3> QED BY <3>3, <3>5, <3>6, <3>7 DEF Offset
  <2> QED BY <2>1, <2>2
<1>4. ASSUME NEW r \in Requests, RunsOptimize(r) PROVE Offset'
  <2>1. CASE UNCHANGED model BY <1>1, <2>1
  <2>2. CASE ~UNCHANGED model
    <3>1. zo' = [zo EXCEPT !.offset = @ + 1, !.direction = FALSE, !.downs = 0, !.steps = @ + 1]
      BY <1>4, <2>2 DEF RunsOptimize
    <3>2. zo.direction /\ (orderly' => orderly /\ zo.downs = 1)
      BY <1>4, <2>2 DEF RunsOptimize
    <3>3. zo' = [offset |-> zo'.offset, direction |-> zo'.direction, downs |-> zo'.downs, steps |-> zo'.steps]
      BY <3>1 DEF Offset
    <3>4. zo'.offset = zo.offset + 1 /\ zo'.direction = FALSE /\ zo'.downs = 0 /\ zo'.steps = zo.steps + 1
      BY <3>1 DEF Offset
    <3>5. zo'.offset \in Int /\ zo'.downs \in Nat BY <3>4 DEF Offset
    <3>6. ~zo'.direction => zo'.downs = 0 BY <3>2, <3>4 DEF Offset
    <3>7. orderly' => zo'.offset = IF zo'.direction THEN 1 - 2 * zo'.downs ELSE 0 BY <3>2, <3>4 DEF Offset
    <3> QED BY <3>3, <3>5, <3>6, <3>7 DEF Offset
  <2> QED BY <2>1, <2>2
<1>5. ASSUME NEW r \in Requests, Calls(r) PROVE UNCHANGED model
  BY <1>5 DEF Calls, StartBegins, ShutdownBegins, Forward, PerturbUp, PerturbDown, Optimize, OtherOperations, Enter
<1>6. ASSUME NEW r \in Requests, Lifecycle(r) PROVE UNCHANGED model
  BY <1>6 DEF Lifecycle, StartLocal, StartFails, StartRoutes, ShutdownRuns, ShutdownUnlists, ShutdownUnroutes
<1>7. ASSUME NEW r \in Requests, Invokes(r) PROVE UNCHANGED model
  BY <1>7 DEF Invokes, Download, DownloadFails, Fallback, ValidateReceived, ReceiveBegin, ReceiveChunk,
    ReceiveCommit, StreamBreaks, Receives, RunsForward, QwenForward, Runs, PublishArtifact, PublishFails, AnswersForward
<1>8. ASSUME NEW r \in Requests, RunsOther(r) PROVE UNCHANGED model BY <1>8 DEF RunsOther
<1> QED BY <1>1, <1>2, <1>3, <1>4, <1>5, <1>6, <1>7, <1>8 DEF Next, Steps

\* The steps of corgi-zo's shared model end where they began, however the calls of
\* its instances and requests interleave, if each perturbation is turned round once.
THEOREM StepsEndWhereTheyBegan == Spec => []StepsReturn
<1>1. Init => Offset BY DEF Init, Offset
<1>2. Offset => StepsReturn BY DEF Offset, StepsReturn
<1> QED BY <1>1, <1>2, OffsetInductive, PTL DEF Spec

-----------------------------------------------------------------------------
(* The registries *)

\* What the entry of a start or a shutdown holds.
StartEntry(q) == \E i \in Ids, c \in Wanted : q = [at |-> q.at, id |-> i, capability |-> c]
StopEntry(q)  == \E i \in Ids : q = [at |-> "stop", id |-> i, instance |-> q.instance]
LeaveEntry(q) == \E i \in Ids : q = [at |-> q.at, id |-> i]

Entries ==
  \A r \in Requests :
    /\ req[r].at \in Starting => StartEntry(req[r]) /\ dispatch = r
    /\ req[r].at = "stop" => StopEntry(req[r])
    /\ req[r].at \in {"unlist", "unroute"} => LeaveEntry(req[r])

\* How far the start or the one shutdown of an id is, and where the id is meanwhile.
Phases(i) ==
  /\ \A r, s \in Stopping(i) : r = s
  /\ \A r \in Requests : req[r].at \in Starting \cup Ending /\ req[r].id = i =>
       /\ i \in routes <=> req[r].at \in Ending
       /\ hosted[i] # None <=> req[r].at \in {"route", "stop", "unlist"}
  /\ ~Changing(i) => (i \in routes <=> hosted[i] # None)

Registries == Tables /\ Entries /\ \A i \in Ids \ overlapped : Phases(i)

LEMMA QuietKeepsRegistries ==
  ASSUME Registries, NEW r \in Requests, Quiet(r)
  PROVE  Registries'
<1> USE DEF Registries, Quiet, Starting, Ending
<1>1. \A s \in Requests \ {r} : req'[s] = req[s] BY DEF Tables
<1>2. Tables' BY <1>1 DEF Tables
<1>3. Entries'
  <2>1. ASSUME NEW s \in Requests, req'[s].at \in Starting \cup Ending PROVE req'[s] = req[s] BY <1>1, <2>1
  <2> QED BY <2>1 DEF Entries
<1>4. ASSUME NEW i \in Ids \ overlapped' PROVE Phases(i)'
  <2>1. Phases(i) BY <1>4
  <2>2. Stopping(i)' = Stopping(i) BY <1>1 DEF Stopping
  <2>3. Changing(i)' <=> Changing(i) BY <1>1 DEF Changing
  <2>4. \A s \in Requests : req'[s].at \in Starting \cup Ending => req'[s] = req[s] BY <1>1
  <2> QED BY <2>1, <2>2, <2>3, <2>4 DEF Phases
<1> QED BY <1>2, <1>3, <1>4

Life(q, i) == q.at \in Starting \cup Ending => q.id = i

\* A step of a start or a shutdown is about one id, and one request.
LEMMA OneIdAtATime ==
  ASSUME Registries, NEW r \in Requests, NEW i \in Ids, NEW q,
         req' = [req EXCEPT ![r] = q], IsEntry(q), Life(req[r], i), Life(q, i),
         q.at \in Starting => StartEntry(q) /\ dispatch' = r,
         q.at = "stop" => StopEntry(q),
         q.at \in {"unlist", "unroute"} => LeaveEntry(q),
         dispatch' = dispatch \/ dispatch = r \/ dispatch \notin Requests,
         hosted' = [j \in Ids |-> hosted'[j]],
         \A j \in Ids \ {i} : hosted'[j] = hosted[j] /\ (j \in routes' <=> j \in routes),
         overlapped \subseteq overlapped',
         i \notin overlapped' => Phases(i)'
  PROVE  Registries'
<1>1. req'[r] = q /\ \A s \in Requests \ {r} : req'[s] = req[s] BY DEF Registries, Tables
<1>2. Tables' BY <1>1 DEF Registries, Tables
<1>3. Entries'
  <2>1. ASSUME NEW s \in Requests \ {r}, req'[s].at \in Starting PROVE dispatch' = s
    BY <1>1, <2>1 DEF Registries, Entries
  <2> QED BY <1>1, <2>1 DEF Registries, Entries
<1>4. ASSUME NEW j \in Ids \ overlapped', j # i PROVE Phases(j)'
  <2>1. Phases(j) BY <1>4 DEF Registries
  <2>2. ASSUME NEW s \in Requests, req[s].at \in Starting \cup Ending \/ req'[s].at \in Starting \cup Ending,
               req[s].id = j \/ req'[s].id = j
        PROVE  req'[s] = req[s] \/ (s = r /\ ~(req[s].at \in Starting \cup Ending /\ req[s].id = j)
                                        /\ ~(req'[s].at \in Starting \cup Ending /\ req'[s].id = j))
    BY <1>1, <1>4, <2>2 DEF Life
  <2>3. Stopping(j)' = Stopping(j) BY <1>1, <1>4, <2>2 DEF Stopping, Ending, Life
  <2>4. Changing(j)' <=> Changing(j) BY <1>1, <1>4, <2>2 DEF Changing, Starting, Ending, Life
  <2>5. hosted'[j] = hosted[j] /\ (j \in routes' <=> j \in routes) BY <1>4
  <2>6. ASSUME NEW s \in Requests, req'[s].at \in Starting \cup Ending, req'[s].id = j PROVE req'[s] = req[s]
    BY <1>4, <2>2, <2>6
  <2> QED BY <2>1, <2>3, <2>4, <2>5, <2>6 DEF Phases
<1>5. \A j \in Ids \ overlapped' : Phases(j)' BY <1>4
<1> QED BY <1>2, <1>3, <1>5 DEF Registries

Works(s, i) == req[s].at \in Starting \cup Ending /\ req[s].id = i

\* Who starts or shuts down an id does so alone.
LEMMA Alone ==
  ASSUME Registries, NEW r \in Requests, NEW i \in Ids \ overlapped, Works(r, i)
  PROVE  \A s \in Requests \ {r} : ~Works(s, i)
<1> SUFFICES ASSUME NEW s \in Requests \ {r}, Works(s, i) PROVE FALSE OBVIOUS
<1>1. Phases(i) BY DEF Registries
<1>2. CASE req[r].at \in Starting /\ req[s].at \in Starting BY <1>2 DEF Registries, Entries
<1>3. CASE req[r].at \in Ending /\ req[s].at \in Ending BY <1>1, <1>3 DEF Phases, Stopping, Works, Ending
<1>4. req[r].at \in Ending <=> req[s].at \in Ending BY <1>1 DEF Phases, Works
<1> QED BY <1>2, <1>3, <1>4 DEF Works

\* What is left to say of the id when nobody else works on it.
LEMMA PhasesOfOne ==
  ASSUME NEW r \in Requests, NEW i \in Ids,
         \A s \in Requests \ {r} : ~Works(s, i)',
         Works(r, i)' => /\ i \in routes' <=> req'[r].at \in Ending
                         /\ hosted'[i] # None <=> req'[r].at \in {"route", "stop", "unlist"},
         ~Works(r, i)' => (i \in routes' <=> hosted'[i] # None)
  PROVE  Phases(i)'
<1>1. ASSUME NEW s \in Stopping(i)' PROVE s = r BY DEF Stopping, Works, Ending
<1>2. ASSUME ~Changing(i)' PROVE ~Works(r, i)' BY <1>2 DEF Changing, Works, Starting, Ending
<1> QED BY <1>1, <1>2 DEF Phases, Works

LEMMA StartBeginsKeepsRegistries ==
  ASSUME Registries, NEW r \in Requests, NEW i \in Ids, NEW c \in Wanted, StartBegins(r, i, c)
  PROVE  Registries'
<1> DEFINE q == [at |-> "start", id |-> i, capability |-> c]
<1>1. req' = [req EXCEPT ![r] = q] /\ UNCHANGED <<hosted, routes, overlapped>> /\ dispatch = None /\ dispatch' = r
  BY DEF StartBegins
<1>2. req[r].at = "idle" /\ i \notin routes /\ hosted[i] = None BY DEF StartBegins, Hosted
<1>3. IsEntry(q) /\ StartEntry(q) BY DEF IsEntry, StartEntry
<1>4. req'[r] = q /\ \A s \in Requests \ {r} : req'[s] = req[s] BY <1>1 DEF Registries, Tables
<1>5. ASSUME i \notin overlapped' PROVE Phases(i)'
  <2>1. Phases(i) BY <1>1, <1>5 DEF Registries
  <2>2. \A s \in Requests \ {r} : ~Works(s, i)
    <3> SUFFICES ASSUME NEW s \in Requests \ {r}, Works(s, i) PROVE FALSE OBVIOUS
    <3>1. req[s].at \notin Starting BY <1>1, NoneAssumption DEF Registries, Entries
    <3>2. i \in routes BY <2>1, <3>1 DEF Phases, Works
    <3> QED BY <1>2, <3>2
  <2>3. \A s \in Requests \ {r} : ~Works(s, i)' BY <1>4, <2>2 DEF Works
  <2>4. i \notin routes' /\ ~(hosted'[i] # None) BY <1>1, <1>2
  <2> QED BY <1>4, <2>3, <2>4, PhasesOfOne DEF Ending
<1>6. Life(req[r], i) /\ Life(q, i) BY <1>2 DEF Life, Starting, Ending
<1>7. hosted' = [j \in Ids |-> hosted'[j]] BY <1>1 DEF Registries, Tables
<1> QED
  BY <1>1, <1>3, <1>5, <1>6, <1>7, NoneAssumption, OneIdAtATime DEF Starting

\* An entry stays one of its kind under another label.
LEMMA StartRelabelled ==
  ASSUME NEW q, StartEntry(q), NEW at, NEW relabelled, relabelled = [q EXCEPT !.at = at]
  PROVE  /\ q.id \in Ids /\ q.capability \in Wanted
         /\ IsEntry(relabelled) /\ StartEntry(relabelled) /\ relabelled.at = at /\ relabelled.id = q.id
<1>1. PICK i \in Ids, c \in Wanted : q = [at |-> q.at, id |-> i, capability |-> c] BY DEF StartEntry
<1>2. relabelled = [at |-> at, id |-> i, capability |-> c] BY <1>1
<1>3. q.id = i /\ q.capability = c BY <1>1
<1>4. relabelled.at = at /\ relabelled.id = i BY <1>2
<1>5. IsEntry(relabelled) BY <1>2 DEF IsEntry
<1>6. StartEntry(relabelled) BY <1>2, <1>4 DEF StartEntry
<1> QED BY <1>3, <1>4, <1>5, <1>6

LEMMA LeaveRelabelled ==
  ASSUME NEW q, LeaveEntry(q), NEW at, NEW relabelled, relabelled = [q EXCEPT !.at = at]
  PROVE  /\ q.id \in Ids
         /\ IsEntry(relabelled) /\ LeaveEntry(relabelled) /\ relabelled.at = at /\ relabelled.id = q.id
<1>1. PICK i \in Ids : q = [at |-> q.at, id |-> i] BY DEF LeaveEntry
<1>2. relabelled = [at |-> at, id |-> i] BY <1>1
<1>3. q.id = i BY <1>1
<1>4. relabelled.at = at /\ relabelled.id = i BY <1>2
<1>5. IsEntry(relabelled) BY <1>2 DEF IsEntry
<1>6. LeaveEntry(relabelled) BY <1>2, <1>4 DEF LeaveEntry
<1> QED BY <1>3, <1>4, <1>5, <1>6

\* One step of the request that has an id in hand: it suffices to look at that id.
LEMMA OneStepOfOne ==
  ASSUME Registries, NEW r \in Requests, NEW q, NEW i \in Ids, req[r].id = i, req[r].at \in Starting \cup Ending,
         req' = [req EXCEPT ![r] = q], IsEntry(q), Life(q, i),
         q.at \in Starting => StartEntry(q) /\ dispatch' = r,
         q.at = "stop" => StopEntry(q),
         q.at \in {"unlist", "unroute"} => LeaveEntry(q),
         dispatch' = dispatch \/ dispatch = r,
         hosted' = [j \in Ids |-> hosted'[j]],
         \A j \in Ids \ {i} : hosted'[j] = hosted[j] /\ (j \in routes' <=> j \in routes),
         overlapped' = overlapped,
         i \notin overlapped /\ Phases(i) =>
           IF q.at \in Starting \cup Ending
           THEN /\ i \in routes' <=> q.at \in Ending
                /\ hosted'[i] # None <=> q.at \in {"route", "stop", "unlist"}
           ELSE i \in routes' <=> hosted'[i] # None
  PROVE  Registries'
<1>1. req'[r] = q /\ \A s \in Requests \ {r} : req'[s] = req[s] BY DEF Registries, Tables
<1>2. ASSUME i \notin overlapped' PROVE Phases(i)'
  <2>1. Phases(i) BY <1>2 DEF Registries
  <2>2. \A s \in Requests \ {r} : ~Works(s, i)
    BY <1>2, Alone DEF Works
  <2>3. \A s \in Requests \ {r} : ~Works(s, i)' BY <1>1, <2>2 DEF Works
  <2>4. Works(r, i)' <=> q.at \in Starting \cup Ending BY <1>1 DEF Works, Life
  <2> QED BY <1>1, <1>2, <2>1, <2>3, <2>4, PhasesOfOne
<1>3. Life(req[r], i) BY DEF Life
<1> QED BY <1>2, <1>3, OneIdAtATime

LEMMA IdleEntry == IsEntry(Idle) /\ Idle.at = "idle"
BY DEF IsEntry

\* A start that fails, or ends, has nothing more to say of its id.
LEMMA StartFailsKeepsRegistries ==
  ASSUME Registries, NEW r \in Requests, req[r].at = "start", NEW why, StartFails(r, why)
  PROVE  Registries'
<1>1. StartEntry(req[r]) /\ dispatch = r BY DEF Registries, Entries, Starting
<1>2. req[r].id \in Ids BY <1>1 DEF StartEntry
<1>3. req' = [req EXCEPT ![r] = Idle] /\ UNCHANGED <<hosted, routes, overlapped>> BY DEF StartFails
<1>4. hosted' = [j \in Ids |-> hosted'[j]] BY <1>3 DEF Registries, Tables
<1>5. ASSUME Phases(req[r].id) PROVE req[r].id \in routes' <=> hosted'[req[r].id] # None
  BY <1>3, <1>5 DEF Phases, Starting, Ending
<1> QED BY <1>1, <1>2, <1>3, <1>4, <1>5, IdleEntry, OneStepOfOne DEF Life, Starting, Ending

LEMMA StartLocalKeepsRegistries ==
  ASSUME Registries, NEW r \in Requests, StartLocal(r)
  PROVE  Registries'
<1>1. StartEntry(req[r]) /\ dispatch = r /\ req[r].at = "start" BY DEF StartLocal, Registries, Entries, Starting
<1>2. CASE StartFails(r, TRUE) BY <1>1, <1>2, StartFailsKeepsRegistries
<1>3. CASE \E why : StartFails(r, why) BY <1>1, <1>3, StartFailsKeepsRegistries
<1>4. CASE /\ \E implementation \in {"Qwen", "Injected"} :
                hosted' = [hosted EXCEPT ![req[r].id] = [capability |-> req[r].capability, implementation |-> implementation]]
           /\ req' = [req EXCEPT ![r].at = "route"] /\ UNCHANGED <<routes, dispatch, overlapped>>
  <2> DEFINE q == [req[r] EXCEPT !.at = "route"]
  <2>1. /\ req[r].id \in Ids /\ req[r].capability \in Wanted
        /\ IsEntry(q) /\ StartEntry(q) /\ q.at = "route" /\ q.id = req[r].id
    BY <1>1, StartRelabelled
  <2>2. req' = [req EXCEPT ![r] = q] BY <1>4
  <2>3. hosted'[req[r].id] # None BY <1>4, <2>1, NoneAssumption DEF Registries, Tables
  <2>4. hosted' = [j \in Ids |-> hosted'[j]] /\ \A j \in Ids \ {req[r].id} : hosted'[j] = hosted[j]
    BY <1>4 DEF Registries, Tables
  <2>5. ASSUME Phases(req[r].id) PROVE req[r].id \notin routes'
    BY <1>1, <1>4, <2>5 DEF Phases, Starting, Ending
  <2> HIDE DEF q
  <2> QED BY ZenonT(60), <1>1, <1>4, <2>1, <2>2, <2>3, <2>4, <2>5, OneStepOfOne DEF Life, Starting, Ending
<1> QED BY <1>2, <1>3, <1>4 DEF StartLocal

LEMMA StartRoutesKeepsRegistries ==
  ASSUME Registries, NEW r \in Requests, StartRoutes(r)
  PROVE  Registries'
<1>1. StartEntry(req[r]) /\ dispatch = r /\ req[r].at = "route" BY DEF StartRoutes, Registries, Entries, Starting
<1>2. req[r].id \in Ids BY <1>1 DEF StartEntry
<1>3. req' = [req EXCEPT ![r] = Idle] /\ UNCHANGED <<hosted, overlapped>> /\ routes' = routes \cup {req[r].id}
  BY DEF StartRoutes
<1>4. hosted' = [j \in Ids |-> hosted'[j]] BY <1>3 DEF Registries, Tables
<1>5. ASSUME Phases(req[r].id) PROVE req[r].id \in routes' <=> hosted'[req[r].id] # None
  BY <1>1, <1>3, <1>5 DEF Phases, Starting, Ending
<1> QED BY <1>1, <1>2, <1>3, <1>4, <1>5, IdleEntry, OneStepOfOne DEF Life, Starting, Ending

LEMMA ShutdownBeginsKeepsRegistries ==
  ASSUME Registries, NEW r \in Requests, NEW i \in Ids, ShutdownBegins(r, i)
  PROVE  Registries'
<1> DEFINE q == [at |-> "stop", id |-> i, instance |-> hosted[i]]
<1>1. req' = [req EXCEPT ![r] = q] /\ UNCHANGED <<hosted, routes, dispatch>> BY DEF ShutdownBegins
<1>2. req[r].at = "idle" /\ i \in routes /\ hosted[i] # None BY DEF ShutdownBegins, Hosted
<1>3. overlapped \subseteq overlapped' /\ (i \notin overlapped' => i \notin overlapped /\ Stopping(i) = {})
  BY DEF ShutdownBegins
<1>4. IsEntry(q) /\ StopEntry(q) BY DEF IsEntry, StopEntry
<1>5. req'[r] = q /\ \A s \in Requests \ {r} : req'[s] = req[s] BY <1>1 DEF Registries, Tables
<1>6. ASSUME i \notin overlapped' PROVE Phases(i)'
  <2>1. Phases(i) BY <1>3, <1>6 DEF Registries
  <2>2. \A s \in Requests \ {r} : ~Works(s, i)
    <3> SUFFICES ASSUME NEW s \in Requests \ {r}, Works(s, i) PROVE FALSE OBVIOUS
    <3>1. req[s].at \in Ending BY <1>2, <2>1 DEF Phases, Works
    <3> QED BY <1>3, <1>6, <3>1 DEF Stopping, Works, Ending
  <2>3. \A s \in Requests \ {r} : ~Works(s, i)' BY <1>5, <2>2 DEF Works
  <2>4. i \in routes' /\ hosted'[i] # None BY <1>1, <1>2
  <2> QED BY <1>5, <2>3, <2>4, PhasesOfOne DEF Works, Starting, Ending
<1>7. Life(req[r], i) /\ Life(q, i) BY <1>2 DEF Life, Starting, Ending
<1>8. hosted' = [j \in Ids |-> hosted'[j]] BY <1>1 DEF Registries, Tables
<1>9. q.at = "stop" OBVIOUS
<1> HIDE DEF q
<1> QED BY <1>1, <1>3, <1>4, <1>6, <1>7, <1>8, <1>9, OneIdAtATime DEF Starting

LEMMA ShutdownRunsKeepsRegistries ==
  ASSUME Registries, NEW r \in Requests, ShutdownRuns(r)
  PROVE  Registries'
<1>1. StopEntry(req[r]) /\ req[r].at = "stop" BY DEF ShutdownRuns, Registries, Entries
<1>2. req[r].id \in Ids BY <1>1 DEF StopEntry
<1>3. UNCHANGED <<hosted, routes, dispatch, overlapped>> BY DEF ShutdownRuns
<1>4. hosted' = [j \in Ids |-> hosted'[j]] BY <1>3 DEF Registries, Tables
<1>5. ASSUME Phases(req[r].id) PROVE req[r].id \in routes' /\ hosted'[req[r].id] # None
  BY <1>1, <1>2, <1>3, <1>5 DEF Phases, Starting, Ending
<1>6. CASE req' = [req EXCEPT ![r] = Idle]
  BY <1>1, <1>2, <1>3, <1>4, <1>5, <1>6, IdleEntry, OneStepOfOne DEF Life, Starting, Ending
<1>7. CASE req' = [req EXCEPT ![r] = [at |-> "unlist", id |-> req[r].id]]
  <2> DEFINE q == [at |-> "unlist", id |-> req[r].id]
  <2>1. IsEntry(q) /\ LeaveEntry(q) BY <1>2 DEF IsEntry, LeaveEntry
  <2>2. q.at = "unlist" /\ q.id = req[r].id OBVIOUS
  <2>3. req' = [req EXCEPT ![r] = q] BY <1>7
  <2> HIDE DEF q
  <2> QED BY <1>1, <1>2, <1>3, <1>4, <1>5, <2>1, <2>2, <2>3, OneStepOfOne DEF Life, Starting, Ending
<1> QED BY <1>6, <1>7 DEF ShutdownRuns

LEMMA ShutdownUnlistsKeepsRegistries ==
  ASSUME Registries, NEW r \in Requests, ShutdownUnlists(r)
  PROVE  Registries'
<1> DEFINE q == [req[r] EXCEPT !.at = "unroute"]
<1>1. LeaveEntry(req[r]) /\ req[r].at = "unlist" BY DEF ShutdownUnlists, Registries, Entries
<1>2. /\ req[r].id \in Ids /\ IsEntry(q) /\ LeaveEntry(q) /\ q.at = "unroute" /\ q.id = req[r].id
  BY <1>1, LeaveRelabelled
<1>3. req' = [req EXCEPT ![r] = q] /\ UNCHANGED <<routes, dispatch, overlapped>> BY DEF ShutdownUnlists
<1>4. hosted' = [hosted EXCEPT ![req[r].id] = None] BY DEF ShutdownUnlists
<1>5. hosted' = [j \in Ids |-> hosted'[j]] /\ \A j \in Ids \ {req[r].id} : hosted'[j] = hosted[j]
  BY <1>4 DEF Registries, Tables
<1>6. ~(hosted'[req[r].id] # None) BY <1>2, <1>4 DEF Registries, Tables
<1>7. ASSUME Phases(req[r].id) PROVE req[r].id \in routes'
  BY <1>1, <1>2, <1>3, <1>7 DEF Phases, Ending
<1> HIDE DEF q
<1> QED BY <1>1, <1>2, <1>3, <1>5, <1>6, <1>7, OneStepOfOne DEF Life, Starting, Ending

LEMMA ShutdownUnroutesKeepsRegistries ==
  ASSUME Registries, NEW r \in Requests, ShutdownUnroutes(r)
  PROVE  Registries'
<1>1. LeaveEntry(req[r]) /\ req[r].at = "unroute" BY DEF ShutdownUnroutes, Registries, Entries
<1>2. req[r].id \in Ids BY <1>1 DEF LeaveEntry
<1>3. req' = [req EXCEPT ![r] = Idle] /\ UNCHANGED <<hosted, dispatch, overlapped>> /\ routes' = routes \ {req[r].id}
  BY DEF ShutdownUnroutes
<1>4. hosted' = [j \in Ids |-> hosted'[j]] BY <1>3 DEF Registries, Tables
<1>5. ASSUME Phases(req[r].id) PROVE req[r].id \notin routes' /\ ~(hosted'[req[r].id] # None)
  BY <1>1, <1>2, <1>3, <1>5 DEF Phases, Ending
<1> QED BY <1>1, <1>2, <1>3, <1>4, <1>5, IdleEntry, OneStepOfOne DEF Life, Starting, Ending

LEMMA RegistriesInductive == Registries /\ [Next]_vars => Registries'
<1> SUFFICES ASSUME Registries, [Next]_vars PROVE Registries' OBVIOUS
<1>1. CASE UNCHANGED vars
  BY <1>1 DEF Registries, Tables, Entries, Phases, Stopping, Changing
<1>2. ASSUME NEW r \in Requests, Calls(r) PROVE Registries'
  <2>1. PICK i \in Ids :
          \/ \E c \in Wanted : StartBegins(r, i, c)
          \/ ShutdownBegins(r, i) \/ Forward(r, i) \/ PerturbUp(r, i) \/ PerturbDown(r, i) \/ Optimize(r, i)
          \/ OtherOperations(r, i)
    BY <1>2 DEF Calls
  <2> QED
    BY <2>1, StartBeginsKeepsRegistries, ShutdownBeginsKeepsRegistries, OtherCallsAreQuiet, QuietKeepsRegistries
    DEF Registries
<1>3. ASSUME NEW r \in Requests, Lifecycle(r) PROVE Registries'
  BY <1>3, StartLocalKeepsRegistries, StartRoutesKeepsRegistries, ShutdownRunsKeepsRegistries,
    ShutdownUnlistsKeepsRegistries, ShutdownUnroutesKeepsRegistries DEF Lifecycle
<1>4. ASSUME NEW r \in Requests, Steps(r) \/ Invokes(r) PROVE Registries'
  BY <1>4, StepsAreQuiet, InvokesAreQuiet, QuietKeepsRegistries DEF Registries
<1> QED BY <1>1, <1>2, <1>3, <1>4 DEF Next

LEMMA RegistriesInitially == Init => Registries
<1> SUFFICES ASSUME Init PROVE Registries OBVIOUS
<1>1. \A r \in Requests : req[r] = Idle BY DEF Init
<1>2. Tables BY <1>1, IdleEntry DEF Init, Tables
<1>3. Entries BY <1>1 DEF Entries, Starting
<1>4. ASSUME NEW i \in Ids PROVE Phases(i) BY <1>1 DEF Init, Phases, Stopping, Starting, Ending
<1> QED BY <1>2, <1>3, <1>4 DEF Registries

\* An id is listed and routed, or neither, when no start or shutdown of it is under
\* way: for any number of ids and overlapping requests, and whatever fails, as long
\* as two shutdowns of it did not overlap.
THEOREM RegistriesAgreeOnIdsAtRest == Spec => []ListedAndRouted
<1>1. Registries => ListedAndRouted BY DEF Registries, Phases, ListedAndRouted, Hosted
<1> QED BY <1>1, RegistriesInitially, RegistriesInductive, PTL DEF Spec

-----------------------------------------------------------------------------
(* The list of a header's tensors *)

\* What a header lists: an object has one entry for a name.
Entered(S) ==
  /\ IsFiniteSet(S)
  /\ \A a \in S : a.name \in Nat /\ a.start \in Nat /\ a.end \in Nat
  /\ \A a, b \in S : a.name = b.name => a = b

Earlier(S, a) == {b \in S : StartBefore(b, a)}
Place(S, a)   == Cardinality(Earlier(S, a)) + 1
Spans(S, a)   == {b \in S : SpanBefore(b, a)}

\* An order of a header's tensors has a place for each of them, after those before it.
LEMMA PlacesAscend ==
  ASSUME NEW S, Entered(S)
  PROVE  /\ Cardinality(S) \in Nat
         /\ \A a \in S : Place(S, a) \in 1..Cardinality(S)
         /\ \A a, b \in S : StartBefore(a, b) => Place(S, a) < Place(S, b)
<1>1. IsFiniteSet(S)
  BY DEF Entered
<1>2. Cardinality(S) \in Nat
  BY <1>1, FS_CardinalityType
<1>3. \A a, b \in S : StartBefore(a, b) => ~StartBefore(b, a) /\ a # b
  BY DEF StartBefore, Entered
<1>4. \A a, b, c \in S : StartBefore(a, b) /\ StartBefore(b, c) => StartBefore(a, c)
  BY DEF StartBefore, Entered
<1>5. ASSUME NEW a \in S
      PROVE  /\ IsFiniteSet(Earlier(S, a)) /\ Cardinality(Earlier(S, a)) \in Nat
             /\ a \notin Earlier(S, a) /\ Earlier(S, a) \subseteq S
  <2>1. a \notin Earlier(S, a) /\ Earlier(S, a) \subseteq S
    BY <1>3 DEF Earlier
  <2>2. IsFiniteSet(Earlier(S, a))
    BY <1>1, <2>1, FS_Subset
  <2>3. QED
    BY <2>1, <2>2, FS_CardinalityType
<1>6. ASSUME NEW a \in S, NEW T, IsFiniteSet(T), Earlier(S, a) \subseteq T, a \in T
      PROVE  Place(S, a) <= Cardinality(T)
  <2>1. /\ IsFiniteSet(Earlier(S, a) \cup {a})
        /\ Cardinality(Earlier(S, a) \cup {a}) = Cardinality(Earlier(S, a)) + 1
    BY <1>5, FS_AddElement
  <2>2. Earlier(S, a) \cup {a} \in SUBSET T
    BY <1>6
  <2>3. Cardinality(Earlier(S, a) \cup {a}) <= Cardinality(T)
    BY <1>6, <2>2, FS_Subset
  <2>4. QED
    BY <2>1, <2>3 DEF Place
<1>7. ASSUME NEW a \in S PROVE Place(S, a) \in 1..Cardinality(S)
  <2>1. Place(S, a) <= Cardinality(S)
    BY <1>1, <1>5, <1>6
  <2>2. Cardinality(Earlier(S, a)) \in Nat
    BY <1>5
  <2>3. QED
    BY <1>2, <2>1, <2>2 DEF Place
<1>8. ASSUME NEW a \in S, NEW b \in S, StartBefore(a, b) PROVE Place(S, a) < Place(S, b)
  <2>1. Earlier(S, a) \subseteq Earlier(S, b) /\ a \in Earlier(S, b)
    BY <1>4, <1>8 DEF Earlier
  <2>2. Place(S, a) <= Cardinality(Earlier(S, b))
    BY <1>5, <1>6, <2>1
  <2>3. Place(S, a) \in Nat /\ Cardinality(Earlier(S, b)) \in Nat
    BY <1>5, <1>7
  <2>4. QED
    BY <2>2, <2>3 DEF Place
<1>9. QED
  BY <1>2, <1>7, <1>8

\* Every place is that of one tensor.
LEMMA OnePlaceEach ==
  ASSUME NEW S, Entered(S)
  PROVE  /\ \A a, b \in S : Place(S, a) = Place(S, b) => a = b
         /\ \A i \in 1..Cardinality(S) : \E a \in S : Place(S, a) = i
<1> DEFINE n == Cardinality(S)
           f == [a \in S |-> Place(S, a)]
<1>1. n \in Nat /\ \A a \in S : Place(S, a) \in 1..n
  BY PlacesAscend
<1>2. ASSUME NEW a \in S, NEW b \in S, Place(S, a) = Place(S, b) PROVE a = b
  <2>1. ~StartBefore(a, b) /\ ~StartBefore(b, a)
    BY <1>1, <1>2, PlacesAscend
  <2>2. a.name = b.name
    BY <2>1 DEF StartBefore, Entered
  <2>3. QED
    BY <2>2 DEF Entered
<1>3. f \in [S -> 1..n]
  BY <1>1
<1>4. \A a, b \in S : f[a] = f[b] => a = b
  BY <1>2
<1>5. \A a \in S : f[a] = Place(S, a)
  OBVIOUS
<1>6. IsFiniteSet(S) /\ IsFiniteSet(1..n) /\ Cardinality(1..n) = n
  <2>1. 1 \in Int /\ n \in Int
    BY <1>1
  <2>2. IsFiniteSet(1..n) /\ Cardinality(1..n) = IF 1 > n THEN 0 ELSE n - 1 + 1
    BY <2>1, FS_Interval
  <2>3. QED
    BY <1>1, <2>2 DEF Entered
<1> HIDE DEF f
<1>7. f \in Injection(S, 1..n)
  BY <1>3, <1>4 DEF Injection, IsInjective
<1>8. f \in Surjection(S, 1..n)
  BY <1>6, <1>7, FS_Injection
<1>9. ASSUME NEW i \in 1..n PROVE \E a \in S : Place(S, a) = i
  <2>1. \E a \in S : f[a] = i
    BY <1>8 DEF Surjection
  <2>2. QED
    BY <1>5, <2>1
<1>10. QED
  BY <1>2, <1>9

\* The list by start offsets has each tensor at its place.
LEMMA ListedByStart ==
  ASSUME NEW S, Entered(S)
  PROVE  /\ DOMAIN ByStart(S) = 1..Cardinality(S)
         /\ \A a \in S : ByStart(S)[Place(S, a)] = a
         /\ \A i \in 1..Cardinality(S) : ByStart(S)[i] \in S /\ Place(S, ByStart(S)[i]) = i
         /\ ByStart(S) \in Seq(S) /\ Len(ByStart(S)) = Cardinality(S)
<1> DEFINE n == Cardinality(S)
           list == ByStart(S)
<1>1. list = [i \in 1..n |-> CHOOSE a \in S : Cardinality(Earlier(S, a)) = i - 1]
  BY DEF ByStart, Sorted, Earlier
<1>2. ASSUME NEW a \in S PROVE Cardinality(Earlier(S, a)) \in Int
  BY <1>2, FS_CardinalityType, FS_Subset DEF Earlier, Entered
<1>3. n \in Nat
  BY PlacesAscend
<1>4. \A i \in 1..n : \A a \in S : Cardinality(Earlier(S, a)) = i - 1 <=> Place(S, a) = i
  BY <1>2, <1>3 DEF Place
<1>5. ASSUME NEW i \in 1..n PROVE list[i] \in S /\ Place(S, list[i]) = i
  <2>1. \E a \in S : Cardinality(Earlier(S, a)) = i - 1
    BY <1>4, OnePlaceEach
  <2>2. list[i] = CHOOSE a \in S : Cardinality(Earlier(S, a)) = i - 1
    BY <1>1
  <2> HIDE DEF list
  <2>3. list[i] \in S /\ Cardinality(Earlier(S, list[i])) = i - 1
    BY <2>1, <2>2
  <2>4. QED
    BY <1>4, <2>3
<1>6. DOMAIN list = 1..n
  BY <1>1
<1>7. list \in [1..n -> S]
  BY <1>1, <1>5
<1> HIDE DEF list
<1>8. list \in Seq(S) /\ Len(list) = n
  BY <1>3, <1>7, <1>6
<1>9. ASSUME NEW a \in S PROVE list[Place(S, a)] = a
  <2>1. Place(S, a) \in 1..n
    BY PlacesAscend
  <2>2. list[Place(S, a)] \in S /\ Place(S, list[Place(S, a)]) = Place(S, a)
    BY <1>5, <2>1
  <2>3. QED
    BY <2>2, OnePlaceEach
<1>10. QED
  BY <1>5, <1>6, <1>8, <1>9 DEF list

\* In a contiguous list nothing that starts with another ends before it.
LEMMA TiesEndInOrder ==
  ASSUME NEW S, Entered(S), Contiguous(ByStart(S)),
         NEW a \in S, NEW b \in S, a.start = b.start, a.name < b.name
  PROVE  a.end <= b.end
<1> DEFINE n == Cardinality(S)
           list == ByStart(S)
           i == Place(S, a)
           j == Place(S, b)
<1>1. n \in Nat /\ i \in 1..n /\ j \in 1..n /\ i < j
  BY PlacesAscend DEF StartBefore
<1>2. list[i] = a /\ list[j] = b
  BY ListedByStart
<1>3. \A k \in 1..n : list[k].start \in Nat /\ list[k].end \in Nat
  BY ListedByStart DEF Entered
<1>4. \A k \in 1..n : k # 1 => list[k].start = list[k - 1].end
  BY ListedByStart DEF Contiguous
<1>5. \A k \in 1..n : list[k].end >= list[k].start
  BY ListedByStart DEF Contiguous
<1> HIDE DEF list, n, i, j
<1> DEFINE Bad == {k \in (i + 1)..j : list[k].start < a.end}
<1>6. ASSUME Bad # {} PROVE FALSE
  <2>1. Bad \subseteq Nat
    BY <1>1
  <2>2. PICK k \in Bad : \A m \in Bad : k <= m
    BY <1>6, <2>1, LeastNumber
  <2>3. k \in (i + 1)..j /\ list[k].start < a.end
    BY <2>2
  <2>4. k \in 1..n /\ k # 1 /\ k - 1 \in 1..n /\ k \in Nat
    BY <1>1, <2>3
  <2>5. list[k].start = list[k - 1].end
    BY <1>4, <2>4
  <2>6. k - 1 # i
    BY <1>2, <1>3, <2>3, <2>4, <2>5
  <2>7. k - 1 \in (i + 1)..j
    BY <1>1, <2>3, <2>6
  <2>8. k - 1 \notin Bad
    BY <2>2, <2>4
  <2>9. ~(list[k - 1].start < a.end)
    BY <2>7, <2>8
  <2>10. list[k - 1].end >= list[k - 1].start
    BY <1>5, <2>4
  <2>11. a.end \in Nat
    BY DEF Entered
  <2>12. QED
    BY <1>3, <2>3, <2>4, <2>5, <2>9, <2>10, <2>11
<1>7. ~(list[j].start < a.end)
  BY <1>1, <1>6
<1>8. b.end >= b.start
  BY <1>1, <1>2, <1>5
<1>9. QED
  BY <1>2, <1>7, <1>8 DEF Entered

\* Where two tensors start at one offset, the shorter one has the smaller name.
NoTies(S) == \A a, b \in S : a.start = b.start /\ a.name < b.name => a.end <= b.end

\* By its spans such a list is in the same order.
LEMMA OrderedAlike ==
  ASSUME NEW S, Entered(S), NoTies(S)
  PROVE  ByOffsets(S) = ByStart(S)
<1> DEFINE n == Cardinality(S)
<1>1. ASSUME NEW a \in S, NEW b \in S PROVE SpanBefore(a, b) <=> StartBefore(a, b)
  <2>1. CASE a.start # b.start
    BY <2>1 DEF SpanBefore, StartBefore
  <2>2. CASE a.start = b.start /\ a.name < b.name
    <3>1. a.end <= b.end
      BY <2>2 DEF NoTies
    <3>2. QED
      BY <2>2, <3>1 DEF SpanBefore, StartBefore, Entered
  <2>3. CASE a.start = b.start /\ b.name < a.name
    <3>1. b.end <= a.end
      BY <2>3 DEF NoTies
    <3>2. QED
      BY <2>3, <3>1 DEF SpanBefore, StartBefore, Entered
  <2>4. CASE a.start = b.start /\ a.name = b.name
    BY <2>4 DEF SpanBefore, StartBefore, Entered
  <2>5. a.name < b.name \/ b.name < a.name \/ a.name = b.name
    BY DEF Entered
  <2>6. QED
    BY <2>1, <2>2, <2>3, <2>4, <2>5
<1>2. \A a \in S : Spans(S, a) = Earlier(S, a)
  BY <1>1 DEF Spans, Earlier
<1>3. ByOffsets(S) = [i \in 1..n |-> CHOOSE a \in S : Cardinality(Spans(S, a)) = i - 1]
  BY DEF ByOffsets, Sorted, Spans
<1>4. ASSUME NEW a \in S PROVE Cardinality(Earlier(S, a)) \in Int
  BY <1>4, FS_CardinalityType, FS_Subset DEF Earlier, Entered
<1>5. n \in Nat
  BY PlacesAscend
<1>6. ASSUME NEW i \in 1..n PROVE ByOffsets(S)[i] = ByStart(S)[i]
  <2> DEFINE a == ByStart(S)[i]
             c == ByOffsets(S)[i]
  <2>1. a \in S /\ Place(S, a) = i
    BY ListedByStart
  <2>2. Cardinality(Spans(S, a)) = i - 1
    BY <1>2, <1>4, <1>5, <2>1 DEF Place
  <2>3. c = CHOOSE x \in S : Cardinality(Spans(S, x)) = i - 1
    BY <1>3
  <2> HIDE DEF a, c
  <2>4. c \in S /\ Cardinality(Spans(S, c)) = i - 1
    BY <2>1, <2>2, <2>3
  <2>5. Place(S, c) = i
    BY <1>2, <1>4, <1>5, <2>4 DEF Place
  <2>6. a = c
    BY <2>1, <2>4, <2>5, OnePlaceEach
  <2>7. QED
    BY <2>6 DEF a, c
<1>7. ByOffsets(S) = [i \in 1..n |-> ByOffsets(S)[i]]
  BY <1>3
<1>8. ByStart(S) = [i \in 1..n |-> ByStart(S)[i]]
  <2>1. ByStart(S) \in Seq(S) /\ DOMAIN ByStart(S) = 1..n
    BY ListedByStart
  <2>2. QED
    BY <2>1
<1>9. QED
  BY <1>6, <1>7, <1>8

\* And a contiguous list is one.
LEMMA SpansInOrder ==
  ASSUME NEW S, Entered(S), Contiguous(ByStart(S))
  PROVE  ByOffsets(S) = ByStart(S) /\ NoTies(S)
<1>1. NoTies(S)
  BY TiesEndInOrder DEF NoTies
<1>2. QED
  BY <1>1, OrderedAlike

\* The tensors of a contiguous list end at some offset.
LEMMA BodyEnds ==
  ASSUME NEW S, Entered(S), Contiguous(ByStart(S))
  PROVE  BodyLen(ByStart(S)) \in Nat
<1> DEFINE list == ByStart(S)
<1>1. list \in Seq(S)
  BY ListedByStart
<1> HIDE DEF list
<1>2. CASE list = <<>>
  BY <1>2 DEF BodyLen, list
<1>3. CASE list # <<>>
  <2>1. Last(list) \in S
    BY <1>1, <1>3 DEF Last
  <2>2. BodyLen(list) = Last(list).end
    BY <1>3 DEF BodyLen
  <2>3. QED
    BY <2>1, <2>2 DEF Entered, list
<1>4. QED
  BY <1>2, <1>3

-----------------------------------------------------------------------------
(* A stream that is what its ticket announces *)

\* The cells that are the header's are those of the header.
Follows(out, header) == \A k \in 1..Len(out) : k <= Len(header) => out[k] = header[k]

\* The header of a valid ticket, and what its last cell lists.
LEMMA HeaderOf ==
  ASSUME NEW contract, NEW side, NEW h, IsFrame(h), ValidStreamHeader(contract, side, h)
  PROVE  /\ h \in Seq(Range(h)) /\ TensorStart(h) \in Nat /\ TensorStart(h) >= 2 /\ Len(h) = TensorStart(h) + 1
         /\ HasEnvelope(h) /\ ValidEnvelope(h[2], contract, side)
         /\ IsHeader(h[Len(h)]) /\ Entered(h[Len(h)].header)
         /\ Contiguous(ByStart(h[Len(h)].header)) /\ ValidPorts(contract[side], ByStart(h[Len(h)].header))
         /\ h[2].tensor_len = 1 + BodyLen(ByStart(h[Len(h)].header))
<1>1. /\ HasHeader(h) /\ ValidEnvelope(h[2], contract, side) /\ Len(h) = TensorStart(h) + 1
      /\ Contiguous(ByStart(Last(h).header)) /\ h[2].tensor_len = 1 + BodyLen(ByStart(Last(h).header))
      /\ ValidPorts(contract[side], ByStart(Last(h).header))
  BY DEF ValidStreamHeader
<1>2. h \in Seq(Range(h))
  BY DEF IsFrame
<1>3. HasEnvelope(h) /\ IsHeader(h[TensorStart(h) + 1])
  BY <1>1 DEF HasHeader
<1>4. Len(h) >= 2 /\ "tensor_len" \in DOMAIN h[2]
  BY <1>3 DEF HasEnvelope
<1>5. Len(h) \in Nat /\ \A k \in 1..Len(h) : h[k] \in Range(h)
  BY <1>2
<1>6. h[2].metadata_len \in Nat
  BY <1>4, <1>5 DEF IsFrame
<1>7. TensorStart(h) \in Nat /\ TensorStart(h) >= 2
  BY <1>6 DEF TensorStart
<1>8. Last(h) = h[Len(h)]
  BY DEF Last
<1>9. h[Len(h)] \in Range(h) /\ IsHeader(h[Len(h)])
  BY <1>1, <1>3, <1>5, <1>7
<1>10. Entered(h[Len(h)].header)
  BY <1>9 DEF IsFrame, Entered
<1>11. QED
  BY <1>1, <1>2, <1>3, <1>7, <1>8, <1>9, <1>10

\* A cut of a sequence, from after one place up to another.
Cut(t, s, a, n) == Len(t) = n /\ \A k \in 1..n : t[k] = s[a + k]

LEMMA CutIs ==
  ASSUME NEW X, NEW s \in Seq(X), NEW from \in Nat, NEW to \in Nat, from <= to, to <= Len(s),
         NEW t, t = SubSeq(s, from + 1, to)
  PROVE  t \in Seq(X) /\ Cut(t, s, from, to - from)
<1>1. PICK m \in Int : m = from + 1
  OBVIOUS
<1>2. \A k \in m..to : k \in 1..Len(s)
  BY <1>1
<1>3. \A k \in m..to : s[k] \in X
  BY <1>2
<1>4. to \in Int /\ m <= to + 1
  BY <1>1
<1>5. /\ t \in Seq(X) /\ Len(t) = IF m <= to THEN to - m + 1 ELSE 0
      /\ \A k \in 1..(to - m + 1) : t[k] = s[m + k - 1]
  BY <1>1, <1>3, <1>4, SubSeqProperties
<1>6. to - m + 1 = to - from /\ Len(t) = to - from
  BY <1>1, <1>4, <1>5
<1>7. ASSUME NEW k \in 1..(to - from) PROVE t[k] = s[from + k]
  <2>1. m + k - 1 = from + k
    BY <1>1
  <2>2. QED
    BY <1>5, <1>6, <2>1
<1>8. QED
  BY <1>5, <1>6, <1>7 DEF Cut

\* What is as long as a valid ticket says, has its hash and follows its header is
\* valid, for the header and for the artifact.
LEMMA AnnouncedIsValid ==
  ASSUME NEW t, NEW X, NEW out \in Seq(X), IsFrame(t.header), ValidTicket(t),
         Len(out) = t.len, out = t.hash, Follows(out, t.header)
  PROVE  ValidReceived(out, t)
<1> DEFINE h == t.header
           side == t.envelope.side
           start == TensorStart(h)
           S == h[Len(h)].header
<1>1. IsFrame(h) /\ ValidStreamHeader(t.contract, side, h) /\ DeclaredLen(h) = t.len
  BY DEF ValidTicket
<1>2. /\ h \in Seq(Range(h)) /\ start \in Nat /\ start >= 2 /\ Len(h) = start + 1
      /\ HasEnvelope(h) /\ ValidEnvelope(h[2], t.contract, side)
      /\ IsHeader(h[Len(h)]) /\ Entered(S)
      /\ Contiguous(ByStart(S)) /\ ValidPorts(t.contract[side], ByStart(S))
      /\ h[2].tensor_len = 1 + BodyLen(ByStart(S))
  BY <1>1, HeaderOf
<1>3. BodyLen(ByStart(S)) \in Nat /\ ByOffsets(S) = ByStart(S)
  BY <1>2, BodyEnds, SpansInOrder
<1> HIDE DEF S
<1>4. Len(out) \in Nat /\ Len(out) = start + h[2].tensor_len
  BY <1>1 DEF DeclaredLen
<1>5. Len(h) <= Len(out)
  BY <1>2, <1>3, <1>4
<1>6. \A k \in 1..Len(h) : out[k] = h[k]
  BY <1>2, <1>4, <1>5 DEF Follows
<1> HIDE DEF h, start
<1>7. SubSeq(out, 1, Len(h)) = h
  <2>1. Len(h) \in Nat /\ Len(h) >= 1
    BY <1>2
  <2>2. SubSeq(out, 1, Len(h)) = [k \in 1..Len(h) |-> out[k]]
    BY <1>4, <1>5, <2>1
  <2>3. h = [k \in 1..Len(h) |-> h[k]]
    BY <1>2
  <2>4. QED
    BY <1>6, <2>2, <2>3
<1>8. out[1] = h[1] /\ out[2] = h[2] /\ out[start + 1] = h[Len(h)]
  BY <1>2, <1>6
<1>9. TensorStart(out) = start
  BY <1>8 DEF TensorStart, start
<1>10. HasEnvelope(out) /\ ValidEnvelope(out[2], t.contract, side)
  BY <1>2, <1>4, <1>5, <1>8 DEF HasEnvelope
<1> DEFINE bytes == TensorBytes(out)
<1>11. Len(bytes) = h[2].tensor_len /\ Head(bytes) = h[Len(h)] /\ bytes # <<>>
  <2>1. bytes = SubSeq(out, start + 1, Len(out))
    BY <1>9 DEF TensorBytes
  <2>2. start \in Nat /\ Len(out) \in Nat /\ start <= Len(out) /\ 1 \in 1..(Len(out) - start)
    BY <1>2, <1>4, <1>5
  <2>3. bytes \in Seq(X) /\ Len(bytes) = Len(out) - start /\ bytes[1] = out[start + 1]
    <3> HIDE DEF bytes
    <3>1. PICK n, m, b : n = start /\ m = Len(out) /\ b = bytes
      OBVIOUS
    <3>2. n \in Nat /\ m \in Nat /\ n <= m /\ m <= Len(out) /\ b = SubSeq(out, n + 1, m)
      BY <2>1, <2>2, <3>1
    <3>3. b \in Seq(X) /\ Cut(b, out, n, m - n)
      BY <3>2, CutIs
    <3>4. 1 \in 1..(m - n)
      BY <2>2, <3>1
    <3>5. Len(b) = m - n /\ b[1] = out[n + 1]
      BY <3>3, <3>4 DEF Cut
    <3>6. QED
      BY <3>1, <3>3, <3>5
  <2>4. Len(bytes) = h[2].tensor_len /\ Len(bytes) > 0
    BY SMTT(40), <1>2, <1>3, <1>4, <2>3
  <2> HIDE DEF bytes
  <2>5. QED
    BY SMTT(40), <1>8, <2>3, <2>4
<1>12. Deserializes(bytes)
  BY <1>2, <1>3, <1>11 DEF Deserializes, S
<1>13. ValidArtifact(t.contract, side, out)
  BY <1>2, <1>3, <1>4, <1>8, <1>9, <1>10, <1>11, <1>12 DEF ValidArtifact, S
<1>14. QED
  BY <1>7, <1>13 DEF ValidReceived, h

-----------------------------------------------------------------------------
(* The streams under way *)

\* A stream has a valid ticket, and what came of it follows the header.
Receiving(q) ==
  LET live == q.input.live  t == q.input.ticket IN
  /\ {"input", "begun", "next", "out"} \subseteq DOMAIN q
  /\ q.input \in Inputs /\ "ticket" \in DOMAIN q.input /\ ValidTicket(t)
  /\ q.out \in Seq(Range(live)) /\ Follows(q.out, t.header)
  /\ q.begun => MatchesTicket(q.input.begin, t)

Streaming(q) ==
  /\ q.at = "download" => q.input \in Inputs
  /\ q.at \in {"stream", "received"} => Receiving(q)
  /\ q.at = "received" => q.begun /\ Agrees(q.out, q.next, q.input.begin)

Streams == \A r \in Requests : Streaming(req[r])

\* A commit that is accepted is one of what the ticket announced.
LEMMA StreamsImply == Streams => CommittedStreamsValid
<1> SUFFICES ASSUME Streams, NEW r \in Requests, req[r].at = "received"
             PROVE  ValidReceived(req[r].out, req[r].input.ticket)
  BY DEF CommittedStreamsValid, Ticket
<1> DEFINE q == req[r]
           t == q.input.ticket
<1>1. Receiving(q) /\ q.begun /\ Agrees(q.out, q.next, q.input.begin)
  BY DEF Streams, Streaming
<1>2. MatchesTicket(q.input.begin, t) /\ ValidTicket(t) /\ Follows(q.out, t.header) /\ q.out \in Seq(Range(q.input.live))
  BY <1>1 DEF Receiving
<1>3. Len(q.out) = t.len /\ q.out = t.hash
  BY <1>1, <1>2 DEF MatchesTicket, Agrees
<1>4. IsFrame(t.header)
  BY <1>1, InputsAssumption DEF Receiving
<1> HIDE DEF q, t
<1>5. ValidReceived(q.out, t)
  BY <1>2, <1>3, <1>4, AnnouncedIsValid
<1>6. QED
  BY <1>5 DEF q, t

\* A step that gives one request another entry.
LEMMA OneStream ==
  ASSUME Tables, Streams, NEW r \in Requests, NEW q, req' = [req EXCEPT ![r] = q], Streaming(q)
  PROVE  Streams'
<1>1. req'[r] = q /\ \A s \in Requests \ {r} : req'[s] = req[s]
  BY DEF Tables
<1>2. ASSUME NEW s \in Requests PROVE Streaming(req'[s])
  BY <1>1 DEF Streams
<1>3. QED
  BY <1>2 DEF Streams, Streaming, Receiving

AtStream == {"download", "stream", "received"}

LEMMA NoStream ==
  ASSUME Tables, Streams, NEW r \in Requests, NEW q, req' = [req EXCEPT ![r] = q], q.at \notin AtStream
  PROVE  Streams'
<1>1. Streaming(q)
  BY DEF Streaming, AtStream
<1>2. QED
  BY <1>1, OneStream

LEMMA Leaves ==
  ASSUME Tables, Streams, NEW r \in Requests, NEW at, at \notin AtStream, req' = [req EXCEPT ![r].at = at]
  PROVE  Streams'
<1> DEFINE q == [req[r] EXCEPT !.at = at]
<1>1. q.at = at
  BY DEF Tables, IsEntry
<1>2. req' = [req EXCEPT ![r] = q]
  OBVIOUS
<1> HIDE DEF q
<1>3. QED
  BY <1>1, <1>2, NoStream

LEMMA FailedStream ==
  ASSUME Tables, Streams, NEW r \in Requests, StreamFails(r)
  PROVE  Streams'
<1>1. PICK at \in {"refused", "fallback"} : req' = [req EXCEPT ![r].at = at]
  BY DEF StreamFails
<1>2. QED
  BY <1>1, Leaves DEF AtStream

LEMMA AnsweredStream ==
  ASSUME Tables, Streams, NEW r \in Requests, req' = [req EXCEPT ![r] = Idle]
  PROVE  Streams'
BY NoStream DEF AtStream

LEMMA DownloadsKeep ==
  ASSUME Tables, Streams, NEW r \in Requests, Download(r)
  PROVE  Streams'
<1> DEFINE t == req[r].input.ticket
           q == [at |-> "stream", id |-> req[r].id, instance |-> req[r].instance,
                 input |-> req[r].input, begun |-> FALSE, next |-> 0, out |-> <<>>]
           got == [at |-> "validate", id |-> req[r].id, instance |-> req[r].instance, bytes |-> req[r].input.stored]
<1>1. CASE Live(r) /\ ValidTicket(t)
  <2>1. req' = [req EXCEPT ![r] = q]
    BY <1>1 DEF Download, Ticket
  <2>2. q.input \in Inputs /\ "ticket" \in DOMAIN q.input /\ ValidTicket(q.input.ticket)
    BY <1>1 DEF Live, Download, Streams, Streaming
  <2>3. q.out \in Seq(Range(q.input.live)) /\ Follows(q.out, q.input.ticket.header)
    BY DEF Follows
  <2>4. {"input", "begun", "next", "out"} \subseteq DOMAIN q /\ ~q.begun /\ q.at = "stream"
    OBVIOUS
  <2> HIDE DEF q
  <2>5. Streaming(q)
    BY <2>2, <2>3, <2>4 DEF Streaming, Receiving
  <2>6. QED
    BY <2>1, <2>5, OneStream
<1>2. CASE Live(r) /\ ~ValidTicket(t)
  <2>1. req' = [req EXCEPT ![r].at = "fallback"]
    BY <1>2 DEF Download, Ticket
  <2>2. "fallback" \notin AtStream
    BY DEF AtStream
  <2>3. QED
    BY <2>1, <2>2, Leaves
<1>3. CASE ~Live(r)
  <2>1. req' = [req EXCEPT ![r] = got] /\ got.at = "validate"
    BY <1>3 DEF Download, Got
  <2> HIDE DEF got
  <2>2. QED
    BY <2>1, NoStream DEF AtStream
<1>4. QED
  BY <1>1, <1>2, <1>3

LEMMA BeginsStream ==
  ASSUME Tables, Streams, NEW r \in Requests, ReceiveBegin(r)
  PROVE  Streams'
<1> DEFINE q == [req[r] EXCEPT !.begun = TRUE]
<1>1. Receiving(req[r]) /\ req[r].at = "stream" /\ IsEntry(req[r])
  BY DEF ReceiveBegin, Receives, Streams, Streaming, Tables
<1>2. CASE MatchesTicket(req[r].input.begin, req[r].input.ticket)
  <2>1. req' = [req EXCEPT ![r] = q]
    BY <1>2 DEF ReceiveBegin, Ticket
  <2>2. /\ DOMAIN q = DOMAIN req[r] /\ q.at = "stream" /\ q.input = req[r].input /\ q.out = req[r].out
    BY <1>1 DEF IsEntry, Receiving
  <2> HIDE DEF q
  <2>3. Streaming(q)
    BY <1>1, <1>2, <2>2 DEF Streaming, Receiving
  <2>4. QED
    BY <2>1, <2>3, OneStream
<1>3. CASE StreamFails(r)
  BY <1>3, FailedStream
<1>4. QED
  BY <1>2, <1>3 DEF ReceiveBegin, Ticket

\* What comes next of a stream, in order, follows the header if its own part does.
LEMMA NextFollows ==
  ASSUME NEW X, NEW out \in Seq(X), NEW data \in Seq(X), NEW header, Len(header) \in Nat,
         Follows(out, header), MatchesHeader(out, data, header)
  PROVE  out \o data \in Seq(X) /\ Follows(out \o data, header)
<1>1. /\ out \o data \in Seq(X) /\ Len(out \o data) = Len(out) + Len(data)
      /\ \A k \in 1..Len(out) : (out \o data)[k] = out[k]
      /\ \A k \in 1..Len(data) : (out \o data)[Len(out) + k] = data[k]
  BY ConcatProperties
<1>2. Len(out) \in Nat /\ Len(data) \in Nat /\ DOMAIN data = 1..Len(data)
  OBVIOUS
<1>3. ASSUME NEW k \in 1..Len(out \o data), k <= Len(header) PROVE (out \o data)[k] = header[k]
  <2>1. CASE k <= Len(out)
    BY <1>1, <1>2, <1>3, <2>1 DEF Follows
  <2>2. CASE k > Len(out)
    <3>1. PICK m \in 1..Len(data) : k = Len(out) + m
      <4>1. k - Len(out) \in 1..Len(data) /\ k = Len(out) + (k - Len(out))
        BY <1>1, <1>2, <2>2
      <4>2. QED
        BY <4>1
    <3>2. data[m] = header[Len(out) + m]
      BY <1>2, <1>3, <3>1 DEF MatchesHeader
    <3>3. QED
      BY <1>1, <3>1, <3>2
  <2>3. QED
    BY <1>1, <1>2, <2>1, <2>2
<1>4. QED
  BY <1>1, <1>3 DEF Follows

LEMMA ChunksKeep ==
  ASSUME Tables, Streams, NEW r \in Requests, ReceiveChunk(r)
  PROVE  Streams'
<1> DEFINE me == req[r]
           live == me.input.live
           end == IF Len(me.out) + ChunkLen < Len(live) THEN Len(me.out) + ChunkLen ELSE Len(live)
           data == SubSeq(live, Len(me.out) + 1, end)
           q == [me EXCEPT !.next = @ + 1, !.out = @ \o data]
<1>1. Receiving(me) /\ me.at = "stream" /\ IsEntry(me)
  BY DEF ReceiveChunk, Receives, Streams, Streaming, Tables
<1>2. CASE MatchesHeader(me.out, data, me.input.ticket.header) /\ req' = [req EXCEPT ![r].next = @ + 1, ![r].out = @ \o data]
  <2>1. req' = [req EXCEPT ![r] = q]
    BY <1>2
  <2>2. /\ DOMAIN q = DOMAIN me /\ q.at = "stream" /\ q.input = me.input /\ q.begun = me.begun /\ q.out = me.out \o data
    BY <1>1 DEF IsEntry, Receiving
  <2>3. IsFrame(live) /\ IsFrame(me.input.ticket.header)
    BY <1>1, InputsAssumption DEF Receiving
  <2>4. live \in Seq(Range(live)) /\ Len(me.input.ticket.header) \in Nat /\ me.out \in Seq(Range(live))
    BY <1>1, <2>3 DEF IsFrame, Receiving
  <2>5. data \in Seq(Range(live))
    <3>1. Len(me.out) \in Nat /\ Len(live) \in Nat /\ ChunkLen \in Nat
      BY <2>4, InputsAssumption
    <3>2. end \in Nat /\ end <= Len(live)
      BY <3>1
    <3> HIDE DEF live, end, me
    <3>3. \A k \in (Len(me.out) + 1)..end : live[k] \in Range(live)
      BY <2>4, <3>1, <3>2
    <3>4. QED
      BY <3>1, <3>2, <3>3, SubSeqProperties
  <2> HIDE DEF data
  <2>6. q.out \in Seq(Range(live)) /\ Follows(q.out, me.input.ticket.header)
    BY <1>1, <1>2, <2>2, <2>4, <2>5, NextFollows DEF Receiving
  <2> HIDE DEF q
  <2>7. Streaming(q)
    BY <1>1, <2>2, <2>6 DEF Streaming, Receiving
  <2>8. QED
    BY <2>1, <2>7, OneStream
<1>3. CASE StreamFails(r)
  BY <1>3, FailedStream
<1>4. QED
  BY <1>2, <1>3 DEF ReceiveChunk, Ticket

LEMMA CommitsKeep ==
  ASSUME Tables, Streams, NEW r \in Requests, ReceiveCommit(r)
  PROVE  Streams'
<1> DEFINE q == [req[r] EXCEPT !.at = "received"]
<1>1. Receiving(req[r]) /\ req[r].begun /\ IsEntry(req[r])
  BY DEF ReceiveCommit, Receives, Streams, Streaming, Tables
<1>2. CASE Agrees(req[r].out, req[r].next, req[r].input.begin)
  <2>1. req' = [req EXCEPT ![r] = q]
    BY <1>2 DEF ReceiveCommit
  <2>2. /\ DOMAIN q = DOMAIN req[r] /\ q.at = "received" /\ q.input = req[r].input /\ q.begun = req[r].begun
        /\ q.out = req[r].out /\ q.next = req[r].next
    BY <1>1 DEF IsEntry, Receiving
  <2> HIDE DEF q
  <2>3. Streaming(q)
    BY <1>1, <1>2, <2>2 DEF Streaming, Receiving
  <2>4. QED
    BY <2>1, <2>3, OneStream
<1>3. CASE StreamFails(r)
  BY <1>3, FailedStream
<1>4. QED
  BY <1>2, <1>3 DEF ReceiveCommit

LEMMA DownloadFailsKeeps ==
  ASSUME Tables, Streams, NEW r \in Requests, DownloadFails(r)
  PROVE  Streams'
<1>1. CASE req' = [req EXCEPT ![r].at = "fallback"]
  <2>1. "fallback" \notin AtStream
    BY DEF AtStream
  <2>2. QED
    BY <1>1, <2>1, Leaves
<1>2. CASE req' = [req EXCEPT ![r] = Idle]
  BY <1>2, AnsweredStream
<1>3. QED
  BY <1>1, <1>2 DEF DownloadFails

\* The bytes are there, or the call is over.
LEMMA GotKeeps ==
  ASSUME Tables, Streams, NEW r \in Requests, NEW bytes, Got(r, bytes)
  PROVE  Streams'
<1> DEFINE q == [at |-> "validate", id |-> req[r].id, instance |-> req[r].instance, bytes |-> bytes]
<1>1. req' = [req EXCEPT ![r] = q] /\ q.at = "validate"
  BY DEF Got
<1> HIDE DEF q
<1>2. QED
  BY <1>1, NoStream DEF AtStream

LEMMA PublishesKeep ==
  ASSUME Tables, Streams, NEW r \in Requests, NEW contract, NEW bundle, NEW results,
         Publishes(r, contract, bundle, results)
  PROVE  Streams'
<1> DEFINE q == [at |-> "publish", contract |-> contract, tensors |-> bundle.tensors,
                 metadata |-> bundle.metadata, results |-> results]
<1>1. req' = [req EXCEPT ![r] = q] /\ q.at = "publish"
  BY DEF Publishes
<1> HIDE DEF q
<1>2. QED
  BY <1>1, NoStream DEF AtStream

LEMMA InvokesKeepStreams ==
  ASSUME Tables, Streams, NEW r \in Requests, Invokes(r)
  PROVE  Streams'
<1>1. CASE ValidateReceived(r)
  BY <1>1, GotKeeps, FailedStream DEF ValidateReceived
<1>2. CASE Fallback(r)
  BY <1>2, GotKeeps, AnsweredStream DEF Fallback
<1>3. CASE StreamBreaks(r)
  BY <1>3, FailedStream DEF StreamBreaks
<1>4. CASE RunsForward(r)
  <2>1. req' = [req EXCEPT ![r] = Idle] \/ \E contract, bundle : Publishes(r, contract, bundle, None)
    BY <1>4 DEF RunsForward
  <2>2. QED
    BY <2>1, AnsweredStream, PublishesKeep
<1>5. CASE QwenForward(r)
  <2>1. req' = [req EXCEPT ![r] = Idle] \/ \E contract, bundle, results : Publishes(r, contract, bundle, results)
    BY <1>5 DEF QwenForward
  <2>2. QED
    BY <2>1, AnsweredStream, PublishesKeep
<1>6. CASE PublishArtifact(r)
  <2> DEFINE me == req[r]
             data == EncodeFrame(me.contract, "output", me.tensors, me.metadata)
             ticket == [contract |-> me.contract, envelope |-> data[2], header |-> TensorStreamHeader(data),
                        len |-> Len(data), hash |-> data]
             q == [at |-> "published", tensors |-> me.tensors, metadata |-> me.metadata, results |-> me.results,
                   data |-> data, ticket |-> ticket]
  <2>1. req' = [req EXCEPT ![r] = q] /\ q.at = "published"
    BY <1>6 DEF PublishArtifact
  <2> HIDE DEF q
  <2>2. QED
    BY <2>1, NoStream DEF AtStream
<1>7. CASE PublishFails(r) \/ AnswersForward(r)
  BY <1>7, AnsweredStream DEF PublishFails, AnswersForward
<1>8. QED
  BY <1>1, <1>2, <1>3, <1>4, <1>5, <1>6, <1>7, DownloadsKeep, DownloadFailsKeeps, BeginsStream, ChunksKeep,
     CommitsKeep DEF Invokes

\* A call that begins with a download was given one of the inputs.
LEMMA EnterKeepsStreams ==
  ASSUME Tables, Streams, NEW r \in Requests, NEW i, NEW op, NEW at, NEW input, Enter(r, i, op, at, input),
         at \notin {"stream", "received"}, at = "download" => input \in Inputs
  PROVE  Streams'
<1> DEFINE q == [at |-> at, id |-> i, instance |-> hosted[i], input |-> input]
<1>1. req' = [req EXCEPT ![r] = q] /\ q.at = at /\ q.input = input
  BY DEF Enter
<1> HIDE DEF q
<1>2. Streaming(q)
  BY <1>1 DEF Streaming
<1>3. QED
  BY <1>1, <1>2, OneStream

LEMMA CallsKeepStreams ==
  ASSUME Tables, Streams, NEW r \in Requests, Calls(r)
  PROVE  Streams'
<1>1. PICK i \in Ids :
        \/ \E c \in Wanted : StartBegins(r, i, c)
        \/ ShutdownBegins(r, i) \/ Forward(r, i) \/ PerturbUp(r, i) \/ PerturbDown(r, i) \/ Optimize(r, i)
        \/ OtherOperations(r, i)
  BY DEF Calls
<1>2. ASSUME NEW c \in Wanted, StartBegins(r, i, c) PROVE Streams'
  <2> DEFINE q == [at |-> "start", id |-> i, capability |-> c]
  <2>1. req' = [req EXCEPT ![r] = q] /\ q.at = "start"
    BY <1>2 DEF StartBegins
  <2> HIDE DEF q
  <2>2. QED
    BY <2>1, NoStream DEF AtStream
<1>3. CASE ShutdownBegins(r, i)
  <2> DEFINE q == [at |-> "stop", id |-> i, instance |-> hosted[i]]
  <2>1. req' = [req EXCEPT ![r] = q] /\ q.at = "stop"
    BY <1>3 DEF ShutdownBegins
  <2> HIDE DEF q
  <2>2. QED
    BY <2>1, NoStream DEF AtStream
<1>4. CASE Forward(r, i)
  BY <1>4, EnterKeepsStreams DEF Forward
<1>5. CASE PerturbUp(r, i) \/ PerturbDown(r, i) \/ Optimize(r, i) \/ OtherOperations(r, i)
  BY <1>5, EnterKeepsStreams DEF PerturbUp, PerturbDown, Optimize, OtherOperations
<1>6. QED
  BY <1>1, <1>2, <1>3, <1>4, <1>5

LEMMA LifecycleKeepsStreams ==
  ASSUME Tables, Streams, NEW r \in Requests, Lifecycle(r)
  PROVE  Streams'
<1>1. "route" \notin AtStream /\ "unroute" \notin AtStream
  BY DEF AtStream
<1>2. CASE StartLocal(r)
  <2>1. req' = [req EXCEPT ![r].at = "route"] \/ req' = [req EXCEPT ![r] = Idle]
    BY <1>2 DEF StartLocal, StartFails
  <2>2. QED
    BY <1>1, <2>1, Leaves, AnsweredStream
<1>3. CASE ShutdownRuns(r)
  <2> DEFINE q == [at |-> "unlist", id |-> req[r].id]
  <2>1. req' = [req EXCEPT ![r] = q] \/ req' = [req EXCEPT ![r] = Idle]
    BY <1>3 DEF ShutdownRuns
  <2>2. q.at = "unlist"
    OBVIOUS
  <2> HIDE DEF q
  <2>3. QED
    BY <2>1, <2>2, NoStream, AnsweredStream DEF AtStream
<1>4. CASE ShutdownUnlists(r)
  <2>1. req' = [req EXCEPT ![r].at = "unroute"]
    BY <1>4 DEF ShutdownUnlists
  <2>2. QED
    BY <1>1, <2>1, Leaves
<1>5. CASE StartRoutes(r) \/ ShutdownUnroutes(r)
  BY <1>5, AnsweredStream DEF StartRoutes, ShutdownUnroutes
<1>6. QED
  BY <1>2, <1>3, <1>4, <1>5 DEF Lifecycle

LEMMA StreamsInductive == Tables /\ Streams /\ [Next]_vars => Streams'
<1> SUFFICES ASSUME Tables, Streams, [Next]_vars PROVE Streams' OBVIOUS
<1>1. CASE UNCHANGED vars
  BY <1>1 DEF Streams, Streaming, Receiving
<1>2. ASSUME NEW r \in Requests, Steps(r) PROVE Streams'
  BY <1>2, AnsweredStream DEF Steps, RunsPerturbUp, RunsPerturbDown, RunsOptimize, RunsOther
<1>3. QED
  BY <1>1, <1>2, CallsKeepStreams, LifecycleKeepsStreams, InvokesKeepStreams DEF Next

\* A live stream whose commit is accepted is an artifact of its contract: whatever
\* ticket, begin frame and chunks arrive, what validate_tensor_stream_header says of
\* the header before any byte does and what validate_artifact says of the whole agree.
THEOREM AcceptedStreamsAreArtifacts == Spec => []CommittedStreamsValid
<1>1. Init => Registries /\ Streams
  <2> SUFFICES ASSUME Init PROVE Registries /\ Streams OBVIOUS
  <2>1. \A r \in Requests : req[r] = Idle BY DEF Init
  <2>2. Streams BY <2>1 DEF Streams, Streaming
  <2> QED BY <2>2, RegistriesInitially
<1>2. Registries /\ Streams /\ [Next]_vars => (Registries /\ Streams)'
  BY RegistriesInductive, StreamsInductive DEF Registries
<1> QED BY <1>1, <1>2, StreamsImply, PTL DEF Spec

-----------------------------------------------------------------------------
(* Sorted lists                                                            *)

\* R says of the members of S which comes before which.
Orders(R, S) ==
  /\ IsFiniteSet(S)
  /\ \A a \in S : <<a, a>> \notin R
  /\ \A a, b \in S : a # b => <<a, b>> \in R \/ <<b, a>> \in R
  /\ \A a, b, c \in S : <<a, b>> \in R /\ <<b, c>> \in R => <<a, c>> \in R

Before(R, S, a) == {b \in S : <<b, a>> \in R}
PlaceIn(R, S, a) == Cardinality(Before(R, S, a)) + 1

\* A list that has for a place the one with as many before it.
Placed(list, R, S) ==
  /\ list = [i \in 1..Cardinality(S) |-> list[i]]
  /\ \A i \in 1..Cardinality(S) :
       (\E a \in S : Cardinality(Before(R, S, a)) = i - 1)
          => list[i] \in S /\ Cardinality(Before(R, S, list[i])) = i - 1

LEMMA PlacesRise ==
  ASSUME NEW R, NEW S, Orders(R, S)
  PROVE  /\ Cardinality(S) \in Nat
         /\ \A a \in S : PlaceIn(R, S, a) \in 1..Cardinality(S)
         /\ \A a, b \in S : <<a, b>> \in R => PlaceIn(R, S, a) < PlaceIn(R, S, b)
<1>1. IsFiniteSet(S)
  BY DEF Orders
<1>2. Cardinality(S) \in Nat
  BY <1>1, FS_CardinalityType
<1>3. ASSUME NEW a \in S
      PROVE  /\ IsFiniteSet(Before(R, S, a)) /\ Cardinality(Before(R, S, a)) \in Nat
             /\ a \notin Before(R, S, a) /\ Before(R, S, a) \subseteq S
  <2>1. a \notin Before(R, S, a) /\ Before(R, S, a) \subseteq S
    BY DEF Before, Orders
  <2>2. IsFiniteSet(Before(R, S, a))
    BY <1>1, <2>1, FS_Subset
  <2>3. QED
    BY <2>1, <2>2, FS_CardinalityType
<1>4. ASSUME NEW a \in S, NEW T, IsFiniteSet(T), Before(R, S, a) \subseteq T, a \in T
      PROVE  PlaceIn(R, S, a) <= Cardinality(T)
  <2>1. /\ IsFiniteSet(Before(R, S, a) \cup {a})
        /\ Cardinality(Before(R, S, a) \cup {a}) = Cardinality(Before(R, S, a)) + 1
    BY <1>3, FS_AddElement
  <2>2. Before(R, S, a) \cup {a} \in SUBSET T
    BY <1>4
  <2>3. Cardinality(Before(R, S, a) \cup {a}) <= Cardinality(T)
    BY <1>4, <2>2, FS_Subset
  <2>4. QED
    BY <2>1, <2>3 DEF PlaceIn
<1>5. ASSUME NEW a \in S PROVE PlaceIn(R, S, a) \in 1..Cardinality(S)
  <2>1. PlaceIn(R, S, a) <= Cardinality(S)
    BY <1>1, <1>3, <1>4
  <2>2. Cardinality(Before(R, S, a)) \in Nat
    BY <1>3
  <2>3. QED
    BY <1>2, <2>1, <2>2 DEF PlaceIn
<1>6. ASSUME NEW a \in S, NEW b \in S, <<a, b>> \in R PROVE PlaceIn(R, S, a) < PlaceIn(R, S, b)
  <2>1. Before(R, S, a) \subseteq Before(R, S, b) /\ a \in Before(R, S, b)
    BY <1>6 DEF Before, Orders
  <2>2. PlaceIn(R, S, a) <= Cardinality(Before(R, S, b))
    BY <1>3, <1>4, <2>1
  <2>3. PlaceIn(R, S, a) \in Nat /\ Cardinality(Before(R, S, b)) \in Nat
    BY <1>3, <1>5
  <2>4. QED
    BY <2>2, <2>3 DEF PlaceIn
<1>7. QED
  BY <1>2, <1>5, <1>6

LEMMA PlacesFilled ==
  ASSUME NEW R, NEW S, Orders(R, S)
  PROVE  /\ \A a, b \in S : PlaceIn(R, S, a) = PlaceIn(R, S, b) => a = b
         /\ \A i \in 1..Cardinality(S) : \E a \in S : PlaceIn(R, S, a) = i
<1> DEFINE n == Cardinality(S)
           f == [a \in S |-> PlaceIn(R, S, a)]
<1>1. n \in Nat /\ \A a \in S : PlaceIn(R, S, a) \in 1..n
  BY PlacesRise
<1>2. ASSUME NEW a \in S, NEW b \in S, PlaceIn(R, S, a) = PlaceIn(R, S, b) PROVE a = b
  <2>1. <<a, b>> \notin R /\ <<b, a>> \notin R
    BY <1>1, <1>2, PlacesRise
  <2>2. QED
    BY <2>1 DEF Orders
<1>3. f \in [S -> 1..n]
  BY <1>1
<1>4. \A a, b \in S : f[a] = f[b] => a = b
  BY <1>2
<1>5. \A a \in S : f[a] = PlaceIn(R, S, a)
  OBVIOUS
<1>6. IsFiniteSet(S) /\ IsFiniteSet(1..n) /\ Cardinality(1..n) = n
  <2>1. 1 \in Int /\ n \in Int
    BY <1>1
  <2>2. IsFiniteSet(1..n) /\ Cardinality(1..n) = IF 1 > n THEN 0 ELSE n - 1 + 1
    BY <2>1, FS_Interval
  <2>3. QED
    BY <1>1, <2>2 DEF Orders
<1> HIDE DEF f
<1>7. f \in Injection(S, 1..n)
  BY <1>3, <1>4 DEF Injection, IsInjective
<1>8. f \in Surjection(S, 1..n)
  BY <1>6, <1>7, FS_Injection
<1>9. ASSUME NEW i \in 1..n PROVE \E a \in S : PlaceIn(R, S, a) = i
  <2>1. \E a \in S : f[a] = i
    BY <1>8 DEF Surjection
  <2>2. QED
    BY <1>5, <2>1
<1>10. QED
  BY <1>2, <1>9

\* A list of the members of S, each once, in the order of R.
Lists(list, R, S) ==
  /\ Cardinality(S) \in Nat /\ list \in Seq(S) /\ Len(list) = Cardinality(S)
  /\ \A a \in S : \E i \in 1..Len(list) : list[i] = a
  /\ \A i, j \in 1..Len(list) : list[i] = list[j] => i = j
  /\ \A i, j \in 1..Len(list) : i < j => <<list[i], list[j]>> \in R

LEMMA SortedIsListed ==
  ASSUME NEW R, NEW S, Orders(R, S), NEW list, Placed(list, R, S)
  PROVE  Lists(list, R, S)
<1> DEFINE n == Cardinality(S)
<1>2. ASSUME NEW a \in S PROVE Cardinality(Before(R, S, a)) \in Int
  <2>1. Before(R, S, a) \subseteq S /\ IsFiniteSet(S)
    BY DEF Before, Orders
  <2>2. IsFiniteSet(Before(R, S, a))
    BY <2>1, FS_Subset
  <2>3. QED
    BY <2>2, FS_CardinalityType
<1>3. n \in Nat
  BY PlacesRise
<1>4. \A i \in 1..n : \A a \in S : Cardinality(Before(R, S, a)) = i - 1 <=> PlaceIn(R, S, a) = i
  BY <1>2, <1>3 DEF PlaceIn
<1>5. ASSUME NEW i \in 1..n PROVE list[i] \in S /\ PlaceIn(R, S, list[i]) = i
  <2>1. \E a \in S : Cardinality(Before(R, S, a)) = i - 1
    BY <1>4, PlacesFilled
  <2>2. list[i] \in S /\ Cardinality(Before(R, S, list[i])) = i - 1
    BY <2>1 DEF Placed
  <2>3. QED
    BY <1>4, <2>2
<1>6. list \in [1..n -> S]
  BY <1>5 DEF Placed
<1>7. list \in Seq(S) /\ Len(list) = n
  BY <1>3, <1>6
<1>8. ASSUME NEW a \in S PROVE \E i \in 1..n : list[i] = a
  <2>1. PlaceIn(R, S, a) \in 1..n
    BY PlacesRise
  <2>2. list[PlaceIn(R, S, a)] \in S /\ PlaceIn(R, S, list[PlaceIn(R, S, a)]) = PlaceIn(R, S, a)
    BY <1>5, <2>1
  <2>3. list[PlaceIn(R, S, a)] = a
    BY <2>2, PlacesFilled
  <2>4. QED
    BY <2>1, <2>3
<1>9. ASSUME NEW i \in 1..n, NEW j \in 1..n PROVE list[i] = list[j] => i = j
  BY <1>5
<1>10. ASSUME NEW i \in 1..n, NEW j \in 1..n, i < j PROVE <<list[i], list[j]>> \in R
  <2>1. /\ list[i] \in S /\ list[j] \in S
        /\ PlaceIn(R, S, list[i]) = i /\ PlaceIn(R, S, list[j]) = j
    BY <1>5
  <2>2. list[i] # list[j]
    BY <1>10, <2>1
  <2>3. ~(<<list[j], list[i]>> \in R)
    <3>1. ~(j < i)
      BY <1>3, <1>10
    <3>2. QED
      BY <2>1, <3>1, PlacesRise
  <2>4. QED
    BY <2>1, <2>2, <2>3 DEF Orders
<1>11. QED
  BY <1>3, <1>7, <1>8, <1>9, <1>10 DEF Lists

-----------------------------------------------------------------------------
(* Parts put together *)

\* What the first n of the parts u make, put together.
Body(u, n) == FlattenSeq([i \in 1..n |-> u[i]])

\* Each part comes after what those before it make,
LEMMA BodyGrows ==
  ASSUME NEW S, NEW u \in Seq(Seq(S)), NEW n \in 1..Len(u)
  PROVE  /\ Body(u, n - 1) \in Seq(S) /\ Body(u, n) \in Seq(S)
         /\ Body(u, n) = Body(u, n - 1) \o u[n]
         /\ Len(Body(u, n)) = Len(Body(u, n - 1)) + Len(u[n])
<1> DEFINE v == [i \in 1..(n - 1) |-> u[i]]
           w == [i \in 1..n |-> u[i]]
<1>1. n \in Nat /\ n - 1 \in Nat /\ Len(u) \in Nat /\ u[n] \in Seq(S)
      /\ \A i \in 1..n : u[i] \in Seq(S)
  OBVIOUS
<1>2. v \in Seq(Seq(S)) /\ Len(v) = n - 1
  <2>1. v \in [1..(n - 1) -> Seq(S)]
    BY <1>1
  <2>2. QED
    BY <1>1, <2>1
<1>3. w = Append(v, u[n])
  <2>1. Append(v, u[n]) = [i \in 1..(n - 1 + 1) |-> IF i = n - 1 + 1 THEN u[n] ELSE v[i]]
    BY <1>1, <1>2
  <2>2. n - 1 + 1 = n
    BY <1>1
  <2>3. \A i \in 1..n : i # n => i \in 1..(n - 1)
    BY <1>1
  <2>4. \A i \in 1..n : w[i] = IF i = n THEN u[n] ELSE v[i]
    BY <2>3
  <2>5. QED
    BY <2>1, <2>2, <2>4
<1> HIDE DEF v, w
<1>4. FlattenSeq(v) \in Seq(S) /\ FlattenSeq(w) = FlattenSeq(v) \o u[n]
  BY <1>1, <1>2, <1>3, FlattenAppend
<1>5. Body(u, n - 1) = FlattenSeq(v) /\ Body(u, n) = FlattenSeq(w)
  BY DEF Body, v, w
<1>6. FlattenSeq(v) \o u[n] \in Seq(S) /\ Len(FlattenSeq(v) \o u[n]) = Len(FlattenSeq(v)) + Len(u[n])
  BY <1>1, <1>4, ConcatProperties
<1>7. QED
  BY <1>4, <1>5, <1>6

\* and there is nothing before the first.
LEMMA BodyBegins == \A u : Body(u, 0) = <<>>
<1>1. TAKE u
<1> DEFINE v == [i \in 1..0 |-> u[i]]
<1>2. v = <<>>
  OBVIOUS
<1> HIDE DEF v
<1>3. FlattenSeq(v) = v
  BY <1>2 DEF FlattenSeq
<1>4. QED
  BY <1>2, <1>3 DEF Body, v

\* What more parts make begins with what fewer make.
Extends(u, i, j) ==
  /\ Len(Body(u, i)) <= Len(Body(u, j))
  /\ \A k \in 1..Len(Body(u, i)) : Body(u, j)[k] = Body(u, i)[k]

LEMMA BodyTyped ==
  ASSUME NEW S, NEW u \in Seq(Seq(S)), NEW n \in 0..Len(u)
  PROVE  Body(u, n) \in Seq(S) /\ Len(Body(u, n)) \in Nat
<1>1. CASE n = 0
  <2>1. Body(u, n) = <<>>
    BY <1>1, BodyBegins
  <2>2. QED
    BY <2>1
<1>2. CASE n # 0
  <2>1. n \in 1..Len(u)
    BY <1>2
  <2>2. Body(u, n) \in Seq(S)
    BY <2>1, BodyGrows
  <2>3. QED
    BY <2>2
<1>3. QED
  BY <1>1, <1>2

LEMMA BodyExtends ==
  ASSUME NEW S, NEW u \in Seq(Seq(S)), NEW i \in 0..Len(u)
  PROVE  \A j \in i..Len(u) : Extends(u, i, j)
<1> DEFINE Bad == {j \in i..Len(u) : ~Extends(u, i, j)}
<1>1. ASSUME Bad # {} PROVE FALSE
  <2>1. Bad \subseteq Nat
    OBVIOUS
  <2>2. PICK j \in Bad : \A k \in Bad : j <= k
    BY <1>1, <2>1, LeastNumber
  <2>3. j \in i..Len(u) /\ ~Extends(u, i, j)
    OBVIOUS
  <2>4. Len(Body(u, i)) \in Nat
    BY BodyTyped
  <2>5. j # i
    <3>1. Extends(u, i, i)
      BY <2>4 DEF Extends
    <3>2. QED
      BY <2>3, <3>1
  <2>6. j - 1 \in i..Len(u) /\ j \in 1..Len(u) /\ j - 1 \in 0..Len(u) /\ ~(j <= j - 1)
    BY <2>3, <2>5
  <2>7. Extends(u, i, j - 1)
    BY <2>2, <2>6
  <2>8. u[j] \in Seq(S)
    BY <2>6
  <2>9. /\ Body(u, j - 1) \in Seq(S) /\ u[j] \in Seq(S)
        /\ Body(u, j) = Body(u, j - 1) \o u[j]
        /\ Len(Body(u, j)) = Len(Body(u, j - 1)) + Len(u[j])
    BY <2>6, <2>8, BodyGrows
  <2>10. Len(Body(u, j - 1)) \in Nat /\ Len(u[j]) \in Nat
    BY <2>9
  <2>11. \A k \in 1..Len(Body(u, j - 1)) : Body(u, j)[k] = Body(u, j - 1)[k]
    BY <2>9, <2>10
  <2>12. Len(Body(u, i)) <= Len(Body(u, j - 1))
    BY <2>7 DEF Extends
  <2>13. Len(Body(u, i)) <= Len(Body(u, j))
    <3>1. ASSUME NEW a \in Nat, NEW b \in Nat, NEW c \in Nat, a <= b PROVE a <= b + c
      BY <3>1
    <3>2. QED
      BY <2>4, <2>9, <2>10, <2>12, <3>1
  <2>14. ASSUME NEW k \in 1..Len(Body(u, i)) PROVE Body(u, j)[k] = Body(u, i)[k]
    <3>1. k \in 1..Len(Body(u, j - 1))
      BY <2>4, <2>10, <2>12
    <3>2. Body(u, j - 1)[k] = Body(u, i)[k]
      BY <2>7 DEF Extends
    <3>3. QED
      BY <2>11, <3>1, <3>2
  <2>15. QED
    BY <2>3, <2>13, <2>14 DEF Extends
<1>2. QED
  BY <1>1

\* A part is what lies between its ends.
LEMMA BodyParts ==
  ASSUME NEW S, NEW u \in Seq(Seq(S)), NEW n \in 1..Len(u), NEW m, m = Len(u)
  PROVE  SubSeq(Body(u, m), Len(Body(u, n - 1)) + 1, Len(Body(u, n))) = u[n]
<1> DEFINE from == Len(Body(u, n - 1))
           to == Len(Body(u, n))
           b == Body(u, m)
           part == SubSeq(b, from + 1, to)
<1>1. m \in Nat /\ n - 1 \in 0..Len(u) /\ n \in 0..Len(u) /\ m \in n..Len(u) /\ m \in 0..Len(u) /\ u[n] \in Seq(S)
  OBVIOUS
<1>2. from \in Nat /\ to \in Nat /\ to = from + Len(u[n]) /\ Len(u[n]) \in Nat
  <2>1. from \in Nat /\ to \in Nat
    BY <1>1, BodyTyped
  <2>2. to = from + Len(u[n])
    BY BodyGrows
  <2>3. Len(u[n]) \in Nat
    BY <1>1
  <2>4. QED
    BY <2>1, <2>2, <2>3
<1>3. b \in Seq(S) /\ to <= Len(b) /\ Len(b) \in Nat /\ \A k \in 1..to : b[k] = Body(u, n)[k]
  <2>1. Extends(u, n, m)
    BY <1>1, BodyExtends
  <2>2. b \in Seq(S) /\ Len(b) \in Nat
    BY <1>1, BodyTyped
  <2>3. QED
    BY <2>1, <2>2 DEF Extends
<1>4. \A k \in 1..Len(u[n]) : Body(u, n)[from + k] = u[n][k]
  <2>1. Body(u, n) = Body(u, n - 1) \o u[n] /\ Body(u, n - 1) \in Seq(S)
    BY BodyGrows
  <2>2. PICK v : v = Body(u, n - 1)
    OBVIOUS
  <2>3. v \in Seq(S) /\ Body(u, n) = v \o u[n] /\ from = Len(v)
    BY <2>1, <2>2
  <2> HIDE DEF from, to, b
  <2>4. QED
    BY <1>1, <1>2, <2>3, ConcatProperties
<1> HIDE DEF from, to, b
<1>5. part \in Seq(S) /\ Len(part) = Len(u[n]) /\ \A k \in 1..Len(u[n]) : part[k] = b[from + k]
  <2>1. from <= to /\ to - from = Len(u[n])
    BY <1>2
  <2>2. part \in Seq(S) /\ Cut(part, b, from, to - from)
    BY <1>2, <1>3, <2>1, CutIs
  <2> HIDE DEF part
  <2>3. QED
    BY <2>1, <2>2 DEF Cut
<1>6. ASSUME NEW k \in 1..Len(u[n]) PROVE part[k] = u[n][k]
  <2>1. from + k \in 1..to
    BY <1>2
  <2>2. QED
    BY <1>3, <1>4, <1>5, <2>1
<1> HIDE DEF part
<1>7. part = u[n]
  BY <1>1, <1>5, <1>6, SeqEqual
<1>8. QED
  BY <1>7 DEF part, from, to, b

-----------------------------------------------------------------------------
(* Two lists of one set by offsets have the same spans                     *)

Upto(a, b) == a.start < b.start \/ (a.start = b.start /\ a.end <= b.end)

Spanned(list, S) ==
  /\ list \in Seq(S) /\ \A a \in S : a.start \in Nat /\ a.end \in Nat
  /\ \A i, j \in 1..Len(list) : i <= j => Upto(list[i], list[j])
  /\ \A i, j \in 1..Len(list) : list[i] = list[j] => i = j
  /\ \A a \in S : \E i \in 1..Len(list) : list[i] = a

LEMMA NoneEarlier ==
  ASSUME NEW S, NEW l, NEW e, Spanned(l, S), Spanned(e, S), Len(l) = Len(e), NEW i \in 1..Len(l)
  PROVE  Upto(e[i], l[i])
<1> SUFFICES ASSUME ~Upto(e[i], l[i]) PROVE FALSE
  OBVIOUS
<1>1. PICK n \in Nat : n = Len(l) /\ n = Len(e)
  BY DEF Spanned
<1>2. i \in 1..n /\ l \in Seq(S) /\ e \in Seq(S)
  BY <1>1 DEF Spanned
<1>3. \A k \in 1..n : l[k] \in S /\ e[k] \in S
  BY <1>1, <1>2
<1> DEFINE f == [k \in 1..i |-> CHOOSE m \in 1..n : e[m] = l[k]]
<1>4. ASSUME NEW k \in 1..i PROVE f[k] \in 1..n /\ e[f[k]] = l[k]
  <2>1. k \in 1..n
    BY <1>2
  <2>2. l[k] \in S
    BY <1>3, <2>1
  <2>3. \E m \in 1..n : e[m] = l[k]
    BY <1>1, <2>2 DEF Spanned
  <2>4. f[k] = CHOOSE m \in 1..n : e[m] = l[k]
    OBVIOUS
  <2> HIDE DEF f
  <2>5. QED
    BY <2>3, <2>4
<1>5. DOMAIN f = 1..i /\ f = [k \in 1..i |-> f[k]]
  OBVIOUS
<1> HIDE DEF f
<1>6. ASSUME NEW k \in 1..i PROVE f[k] \in 1..(i - 1)
  <2>1. f[k] \in 1..n /\ e[f[k]] = l[k] /\ k \in 1..n /\ k <= i
    BY <1>2, <1>4
  <2>2. Upto(l[k], l[i])
    BY <1>1, <1>2, <2>1 DEF Spanned
  <2>3. ~(i <= f[k])
    <3>1. SUFFICES ASSUME i <= f[k] PROVE FALSE
      OBVIOUS
    <3>2. Upto(e[i], e[f[k]])
      BY <1>1, <1>2, <2>1, <3>1 DEF Spanned
    <3>3. Upto(e[i], l[k])
      BY <2>1, <3>2
    <3>4. \A a \in S : a.start \in Nat /\ a.end \in Nat
      BY DEF Spanned
    <3>5. e[i] \in S /\ l[k] \in S /\ l[i] \in S
      BY <1>2, <1>3, <2>1
    <3>6. Upto(e[i], l[i])
      BY SMTT(40), <2>2, <3>3, <3>4, <3>5 DEF Upto
    <3>7. QED
      BY <3>6
  <2>4. QED
    BY <1>2, <2>1, <2>3
<1>7. ASSUME NEW k \in 1..i, NEW m \in 1..i, f[k] = f[m] PROVE k = m
  <2>1. l[k] = l[m]
    BY <1>4, <1>7
  <2>2. k \in 1..Len(l) /\ m \in 1..Len(l)
    BY <1>1, <1>2
  <2>3. QED
    BY <2>1, <2>2 DEF Spanned
<1>8. f \in [1..i -> 1..(i - 1)]
  BY <1>5, <1>6
<1>9. /\ IsFiniteSet(1..i) /\ Cardinality(1..i) = i
      /\ IsFiniteSet(1..(i - 1)) /\ Cardinality(1..(i - 1)) = i - 1
  <2>1. 1 \in Int /\ i \in Int /\ i - 1 \in Int /\ i >= 1
    BY <1>2
  <2>2. /\ IsFiniteSet(1..i) /\ Cardinality(1..i) = IF 1 > i THEN 0 ELSE i - 1 + 1
        /\ IsFiniteSet(1..(i - 1)) /\ Cardinality(1..(i - 1)) = IF 1 > i - 1 THEN 0 ELSE i - 1 - 1 + 1
    BY <2>1, FS_Interval
  <2>3. QED
    BY <2>1, <2>2
<1>10. Cardinality(1..(i - 1)) < Cardinality(1..i)
  BY <1>2, <1>9
<1>11. \E k, m \in 1..i : k # m /\ f[k] = f[m]
  BY <1>8, <1>9, <1>10, FS_PigeonHole
<1>12. QED
  BY <1>7, <1>11

LEMMA SameSpans ==
  ASSUME NEW S, NEW l, NEW e, Spanned(l, S), Spanned(e, S), Len(l) = Len(e), NEW i \in 1..Len(l)
  PROVE  l[i].start = e[i].start /\ l[i].end = e[i].end
<1>1. Upto(e[i], l[i])
  BY NoneEarlier
<1>2. i \in 1..Len(e)
  OBVIOUS
<1>3. Upto(l[i], e[i])
  BY <1>2, NoneEarlier
<1>4. l \in Seq(S) /\ e \in Seq(S) /\ \A a \in S : a.start \in Nat /\ a.end \in Nat
  BY DEF Spanned
<1>5. l[i] \in S /\ e[i] \in S
  BY <1>2, <1>4
<1>6. /\ l[i].start \in Nat /\ l[i].end \in Nat
      /\ e[i].start \in Nat /\ e[i].end \in Nat
  BY <1>4, <1>5
<1>7. QED
  BY <1>1, <1>3, <1>6 DEF Upto

-----------------------------------------------------------------------------
(* Serialized tensors *)

\* What can be encoded: tensors of different names, each as long as its shape says.
Carried(T) ==
  /\ IsFiniteSet(T)
  /\ \A t \in T : IsTensor(t) /\ ValidView(t)
  /\ \A a, b \in T : a.name = b.name => a = b

DtypeOrder(T) == {c \in T \X T : DtypeBefore(c[1], c[2])}
SpanOrder(S)  == {c \in S \X S : SpanBefore(c[1], c[2])}
Wider(T, a)   == {b \in T : DtypeBefore(b, a)}

LEMMA RanksDiffer ==
  \A d, e \in DOMAIN Dtypes : /\ Dtypes[d].rank \in Nat /\ (Dtypes[d].rank = Dtypes[e].rank => d = e)
                              /\ Dtypes[d].width \in Nat \ {0}
BY DEF Dtypes

LEMMA ListedByDtype ==
  ASSUME NEW T, Carried(T)
  PROVE  Lists(Sorted(T, DtypeBefore), DtypeOrder(T), T)
<1> DEFINE R == DtypeOrder(T)
<1>1. \A a, b \in T : <<a, b>> \in R <=> DtypeBefore(a, b)
  BY DEF DtypeOrder
<1>2. \A a \in T : a.name \in Nat /\ a.dtype \in DOMAIN Dtypes
  BY DEF Carried, IsTensor
<1>3. \A a \in T : ~DtypeBefore(a, a)
  BY <1>2, RanksDiffer DEF DtypeBefore
<1>4. ASSUME NEW a \in T, NEW b \in T, a # b PROVE DtypeBefore(a, b) \/ DtypeBefore(b, a)
  <2>1. a.name # b.name
    BY <1>4 DEF Carried
  <2>2. CASE a.dtype = b.dtype
    BY <1>2, <2>1, <2>2 DEF DtypeBefore
  <2>3. CASE a.dtype # b.dtype
    <3>1. Dtypes[a.dtype].rank # Dtypes[b.dtype].rank /\ Dtypes[a.dtype].rank \in Nat /\ Dtypes[b.dtype].rank \in Nat
      BY <1>2, <2>3, RanksDiffer
    <3>2. QED
      BY <3>1 DEF DtypeBefore
  <2>4. QED
    BY <2>2, <2>3
<1>5. ASSUME NEW a \in T, NEW b \in T, NEW c \in T, DtypeBefore(a, b), DtypeBefore(b, c) PROVE DtypeBefore(a, c)
  <2>1. \A t \in {a, b, c} : t.name \in Nat /\ Dtypes[t.dtype].rank \in Nat
    BY <1>2, RanksDiffer
  <2>2. QED
    BY <1>5, <2>1 DEF DtypeBefore
<1>6. Orders(R, T)
  BY <1>1, <1>3, <1>4, <1>5 DEF Orders, Carried
<1>7. \A a \in T : Wider(T, a) = Before(R, T, a)
  BY <1>1 DEF Before, Wider
<1>8. PICK list : list = Sorted(T, DtypeBefore)
  OBVIOUS
<1>9. list = [i \in 1..Cardinality(T) |-> CHOOSE a \in T : Cardinality(Wider(T, a)) = i - 1]
  BY <1>8 DEF Sorted, Wider
<1>10. ASSUME NEW i \in 1..Cardinality(T), \E a \in T : Cardinality(Before(R, T, a)) = i - 1
       PROVE  list[i] \in T /\ Cardinality(Before(R, T, list[i])) = i - 1
  <2>1. list[i] = CHOOSE a \in T : Cardinality(Wider(T, a)) = i - 1
    BY <1>9
  <2>2. \E a \in T : Cardinality(Wider(T, a)) = i - 1
    BY <1>7, <1>10
  <2>3. list[i] \in T /\ Cardinality(Wider(T, list[i])) = i - 1
    BY <2>1, <2>2
  <2>4. QED
    BY <1>7, <2>3
<1>11. Placed(list, R, T)
  <2>1. list = [i \in 1..Cardinality(T) |-> list[i]]
    BY <1>9
  <2>2. QED
    BY <1>10, <2>1 DEF Placed
<1>12. Lists(list, R, T)
  BY <1>6, <1>11, SortedIsListed
<1>13. QED
  BY <1>8, <1>12

LEMMA ListedByOffsets ==
  ASSUME NEW S, Entered(S)
  PROVE  Lists(ByOffsets(S), SpanOrder(S), S)
<1> DEFINE R == SpanOrder(S)
<1>1. \A a, b \in S : <<a, b>> \in R <=> SpanBefore(a, b)
  BY DEF SpanOrder
<1>2. \A a \in S : a.name \in Nat /\ a.start \in Nat /\ a.end \in Nat
  BY DEF Entered
<1>3. \A a \in S : ~SpanBefore(a, a)
  BY <1>2 DEF SpanBefore
<1>4. ASSUME NEW a \in S, NEW b \in S, a # b PROVE SpanBefore(a, b) \/ SpanBefore(b, a)
  <2>1. a.name # b.name
    BY <1>4 DEF Entered
  <2>2. QED
    BY <1>2, <2>1 DEF SpanBefore
<1>5. ASSUME NEW a \in S, NEW b \in S, NEW c \in S, SpanBefore(a, b), SpanBefore(b, c) PROVE SpanBefore(a, c)
  BY <1>2, <1>5 DEF SpanBefore
<1>6. Orders(R, S)
  BY <1>1, <1>3, <1>4, <1>5 DEF Orders, Entered
<1>7. \A a \in S : Spans(S, a) = Before(R, S, a)
  BY <1>1 DEF Before, Spans
<1>8. PICK list : list = Sorted(S, SpanBefore)
  OBVIOUS
<1>9. list = [i \in 1..Cardinality(S) |-> CHOOSE a \in S : Cardinality(Spans(S, a)) = i - 1]
  BY <1>8 DEF Sorted, Spans
<1>10. ASSUME NEW i \in 1..Cardinality(S), \E a \in S : Cardinality(Before(R, S, a)) = i - 1
       PROVE  list[i] \in S /\ Cardinality(Before(R, S, list[i])) = i - 1
  <2>1. list[i] = CHOOSE a \in S : Cardinality(Spans(S, a)) = i - 1
    BY <1>9
  <2>2. \E a \in S : Cardinality(Spans(S, a)) = i - 1
    BY <1>7, <1>10
  <2>3. list[i] \in S /\ Cardinality(Spans(S, list[i])) = i - 1
    BY <2>1, <2>2
  <2>4. QED
    BY <1>7, <2>3
<1>11. Placed(list, R, S)
  <2>1. list = [i \in 1..Cardinality(S) |-> list[i]]
    BY <1>9
  <2>2. QED
    BY <1>10, <2>1 DEF Placed
<1>12. list = ByOffsets(S)
  BY <1>8 DEF ByOffsets
<1>13. Lists(list, R, S)
  BY <1>6, <1>11, SortedIsListed
<1>14. QED
  BY <1>12, <1>13

\* so that a list by offsets has the spans in order.
LEMMA OffsetsSpanned ==
  ASSUME NEW S, Entered(S)
  PROVE  Spanned(ByOffsets(S), S) /\ Len(ByOffsets(S)) = Cardinality(S)
<1>1. PICK l : l = ByOffsets(S)
  OBVIOUS
<1>2. Lists(l, SpanOrder(S), S)
  BY <1>1, ListedByOffsets
<1>3. l \in Seq(S) /\ \A a \in S : a.start \in Nat /\ a.end \in Nat
  BY <1>2 DEF Lists, Entered
<1>4. ASSUME NEW i \in 1..Len(l), NEW j \in 1..Len(l), i <= j PROVE Upto(l[i], l[j])
  <2>1. l[i] \in S /\ l[j] \in S
    BY <1>3
  <2>2. CASE i = j
    BY <1>3, <2>1, <2>2 DEF Upto
  <2>3. CASE i # j
    <3>1. i < j
      BY <1>3, <1>4, <2>3
    <3>2. <<l[i], l[j]>> \in SpanOrder(S)
      BY <1>2, <3>1 DEF Lists
    <3>3. SpanBefore(l[i], l[j])
      BY <3>2 DEF SpanOrder
    <3>4. QED
      BY <1>3, <2>1, <3>3 DEF SpanBefore, Upto
  <2>4. QED
    BY <2>2, <2>3
<1>5. Spanned(l, S)
  BY <1>2, <1>3, <1>4 DEF Spanned, Lists
<1>6. QED
  BY <1>1, <1>2, <1>5 DEF Lists

\* What the body is put together from, and what the header says of each part.
Parts(order)     == [i \in 1..Len(order) |-> order[i].data]
Entry(order, i) ==
  [name |-> order[i].name, dtype |-> order[i].dtype, shape |-> order[i].shape,
   start |-> Len(Body(Parts(order), i - 1)), end |-> Len(Body(Parts(order), i))]
Index(order)     == {Entry(order, i) : i \in 1..Len(order)}
IndexList(order) == [i \in 1..Len(order) |-> Entry(order, i)]
Whole(order)     == Body(Parts(order), Len(order))

\* What the data of tensors are made of.
Stuff(T) == UNION {Range(t.data) : t \in T}

LEMMA SerializedIs ==
  ASSUME NEW tensors, NEW order, order = Sorted(Range(tensors), DtypeBefore), Len(order) \in Nat,
         DOMAIN order = 1..Len(order)
  PROVE  Serialized(tensors) = <<[header |-> Index(order)]>> \o Whole(order)
<1> DEFINE B(n) == FlattenSeq([i \in 1..n |-> order[i].data])
           I(i) == [name |-> order[i].name, dtype |-> order[i].dtype, shape |-> order[i].shape,
                    start |-> Len(B(i - 1)), end |-> Len(B(i))]
<1>1. ASSUME NEW n \in 0..Len(order) PROVE B(n) = Body(Parts(order), n)
  <2>1. \A i \in 1..n : Parts(order)[i] = order[i].data
    BY DEF Parts
  <2>2. [i \in 1..n |-> order[i].data] = [i \in 1..n |-> Parts(order)[i]]
    BY <2>1
  <2>3. QED
    BY <2>2 DEF Body
<1>2. ASSUME NEW i \in 1..Len(order) PROVE I(i) = Entry(order, i)
  <2>1. i \in 0..Len(order) /\ i - 1 \in 0..Len(order)
    OBVIOUS
  <2>2. B(i) = Body(Parts(order), i) /\ B(i - 1) = Body(Parts(order), i - 1)
    BY <1>1, <2>1
  <2> HIDE DEF B
  <2>3. QED
    BY <2>2 DEF Entry
<1>3. Serialized(tensors) = <<[header |-> {I(i) : i \in DOMAIN order}]>> \o B(Len(order))
  BY DEF Serialized
<1> HIDE DEF B, I
<1>4. {I(i) : i \in DOMAIN order} = Index(order)
  BY <1>2 DEF Index
<1>5. B(Len(order)) = Whole(order)
  BY <1>1 DEF Whole
<1>6. QED
  BY <1>3, <1>4, <1>5

LEMMA PartsOf ==
  ASSUME NEW T, Carried(T), NEW order \in Seq(T)
  PROVE  /\ Parts(order) \in Seq(Seq(Stuff(T))) /\ Len(Parts(order)) = Len(order)
         /\ \A i \in 1..Len(order) : Parts(order)[i] = order[i].data /\ Len(order[i].data) = DataLen(order[i])
<1>1. \A t \in T : t.data \in Seq(Range(t.data)) /\ Len(t.data) = DataLen(t)
  BY DEF Carried, IsTensor, ValidView
<1>2. ASSUME NEW t \in T PROVE t.data \in Seq(Stuff(T))
  <2>1. Range(t.data) \subseteq Stuff(T)
    BY DEF Stuff
  <2>2. QED
    BY <1>1, <2>1
<1>3. \A i \in 1..Len(order) : order[i] \in T
  OBVIOUS
<1>4. Len(order) \in Nat
  OBVIOUS
<1>5. Parts(order) \in [1..Len(order) -> Seq(Stuff(T))]
  BY <1>2, <1>3 DEF Parts
<1>6. Parts(order) \in Seq(Seq(Stuff(T))) /\ Len(Parts(order)) = Len(order)
  BY <1>4, <1>5
<1>7. QED
  BY <1>1, <1>3, <1>6 DEF Parts

\* The header of what is encoded: its entries, in the order of the body.
LEMMA EntriesOf ==
  ASSUME NEW T, Carried(T), NEW order \in Seq(T), NEW i \in 1..Len(order)
  PROVE  /\ Entry(order, i).name = order[i].name /\ Entry(order, i).dtype = order[i].dtype
         /\ Entry(order, i).shape = order[i].shape
         /\ Entry(order, i).start \in Nat /\ Entry(order, i).end \in Nat
         /\ Entry(order, i).end = Entry(order, i).start + DataLen(order[i]) /\ DataLen(order[i]) \in Nat
         /\ i = 1 => Entry(order, i).start = 0
         /\ i # 1 => Entry(order, i).start = Entry(order, i - 1).end
         /\ SubSeq(Whole(order), Entry(order, i).start + 1, Entry(order, i).end) = order[i].data
<1>1. PICK u : u = Parts(order)
  OBVIOUS
<1>2. /\ u \in Seq(Seq(Stuff(T))) /\ Len(u) = Len(order) /\ u[i] = order[i].data
      /\ Len(order[i].data) = DataLen(order[i])
  BY <1>1, PartsOf
<1>3. i \in 1..Len(u) /\ i \in 0..Len(u) /\ i - 1 \in 0..Len(u) /\ i - 1 # i
  BY <1>2
<1>4. /\ Entry(order, i).name = order[i].name /\ Entry(order, i).dtype = order[i].dtype
      /\ Entry(order, i).shape = order[i].shape
      /\ Entry(order, i).start = Len(Body(u, i - 1)) /\ Entry(order, i).end = Len(Body(u, i))
  BY <1>1 DEF Entry
<1>5. Len(Body(u, i - 1)) \in Nat /\ Len(Body(u, i)) \in Nat
  BY <1>2, <1>3, BodyTyped
<1>6. Len(Body(u, i)) = Len(Body(u, i - 1)) + Len(u[i])
  BY <1>2, <1>3, BodyGrows
<1>7. u[i] \in Seq(Stuff(T))
  BY <1>2, <1>3
<1>8. Len(u[i]) \in Nat
  BY <1>7
<1>9. i = 1 => Len(Body(u, i - 1)) = 0
  BY BodyBegins
<1>10. i # 1 => Entry(order, i - 1).end = Len(Body(u, i - 1))
  BY <1>1 DEF Entry
<1>11. SubSeq(Body(u, Len(order)), Len(Body(u, i - 1)) + 1, Len(Body(u, i))) = u[i]
  BY <1>2, <1>3, BodyParts
<1>12. SubSeq(Whole(order), Entry(order, i).start + 1, Entry(order, i).end) = order[i].data
  BY <1>1, <1>2, <1>4, <1>11 DEF Whole
<1>13. QED
  BY <1>2, <1>4, <1>5, <1>6, <1>8, <1>9, <1>10, <1>12

LEMMA IndexIs ==
  ASSUME NEW T, Carried(T), NEW R, NEW order, Lists(order, R, T)
  PROVE  /\ Entered(Index(order)) /\ Spanned(IndexList(order), Index(order))
         /\ Cardinality(Index(order)) = Len(order) /\ Len(IndexList(order)) = Len(order)
<1> DEFINE S == Index(order)
           e == IndexList(order)
<1>1. order \in Seq(T) /\ Len(order) \in Nat /\ \A i \in 1..Len(order) : order[i] \in T
  BY DEF Lists
<1>2. PICK n \in Nat : n = Len(order)
  BY <1>1
<1>3. \A s \in S : \E i \in 1..n : s = Entry(order, i)
  BY <1>2 DEF Index
<1>4. \A i \in 1..n : Entry(order, i) \in S /\ e[i] = Entry(order, i)
  BY <1>2 DEF Index, IndexList
<1>5. e \in [1..n -> S]
  BY <1>2, <1>4 DEF IndexList
<1> HIDE DEF S, e
<1>6. e \in Seq(S) /\ Len(e) = n
  BY <1>5
<1>7. ASSUME NEW i \in 1..n
      PROVE  /\ Entry(order, i).name = order[i].name /\ Entry(order, i).name \in Nat
             /\ Entry(order, i).start \in Nat /\ Entry(order, i).end \in Nat
             /\ Entry(order, i).start <= Entry(order, i).end
  <2>1. /\ Entry(order, i).name = order[i].name
        /\ Entry(order, i).start \in Nat /\ Entry(order, i).end \in Nat
        /\ Entry(order, i).end = Entry(order, i).start + DataLen(order[i]) /\ DataLen(order[i]) \in Nat
    BY <1>1, <1>2, EntriesOf
  <2>2. order[i].name \in Nat
    BY <1>1, <1>2 DEF Carried, IsTensor
  <2>3. QED
    BY <2>1, <2>2
<1>8. ASSUME NEW i \in 1..n, NEW j \in 1..n, Entry(order, i).name = Entry(order, j).name PROVE i = j
  <2>1. order[i].name = order[j].name
    BY <1>7, <1>8
  <2>2. order[i] = order[j]
    BY <1>1, <1>2, <2>1 DEF Carried
  <2>3. QED
    BY <1>2, <2>2 DEF Lists
<1>9. IsFiniteSet(S) /\ Cardinality(S) = n
  <2>1. \A i, j \in 1..n : e[i] = e[j] => i = j
    BY <1>4, <1>8
  <2>2. \A s \in S : \E i \in 1..n : e[i] = s
    BY <1>3, <1>4
  <2>3. e \in Bijection(1..n, S)
    BY <1>5, <2>1, <2>2 DEF Bijection, Injection, Surjection, IsInjective
  <2>4. IsFiniteSet(1..n) /\ Cardinality(1..n) = n
    <3>1. 1 \in Int /\ n \in Int
      OBVIOUS
    <3>2. IsFiniteSet(1..n) /\ Cardinality(1..n) = IF 1 > n THEN 0 ELSE n - 1 + 1
      BY <3>1, FS_Interval
    <3>3. QED
      BY <3>2
  <2>5. QED
    BY <2>3, <2>4, FS_Surjection, FS_Injection DEF Bijection
<1>10. Entered(S)
  <2>1. \A s \in S : s.name \in Nat /\ s.start \in Nat /\ s.end \in Nat
    BY <1>3, <1>7
  <2>2. \A a, b \in S : a.name = b.name => a = b
    BY <1>3, <1>8
  <2>3. QED
    BY <1>9, <2>1, <2>2 DEF Entered
<1>11. ASSUME NEW i \in 1..n PROVE \A j \in i..n : Entry(order, i).end <= Entry(order, j).end
  <2> DEFINE Bad == {j \in i..n : ~(Entry(order, i).end <= Entry(order, j).end)}
  <2>1. ASSUME Bad # {} PROVE FALSE
    <3>1. Bad \subseteq Nat
      OBVIOUS
    <3>2. PICK j \in Bad : \A k \in Bad : j <= k
      BY <2>1, <3>1, LeastNumber
    <3>3. j \in i..n /\ ~(Entry(order, i).end <= Entry(order, j).end)
      OBVIOUS
    <3>4. j # i
      BY <1>7, <3>3
    <3>5. j - 1 \in i..n /\ j \in 1..n /\ j - 1 \in 1..n /\ j # 1 /\ ~(j <= j - 1)
      BY <3>3, <3>4
    <3>6. Entry(order, i).end <= Entry(order, j - 1).end
      BY <3>2, <3>5
    <3>7. Entry(order, j).start = Entry(order, j - 1).end
      BY <1>1, <1>2, <3>5, EntriesOf
    <3>8. /\ Entry(order, i).end \in Nat /\ Entry(order, j).start \in Nat /\ Entry(order, j).end \in Nat
          /\ Entry(order, j).start <= Entry(order, j).end
      BY <1>7, <3>5
    <3>9. QED
      BY <3>3, <3>6, <3>7, <3>8
  <2>2. QED
    BY <2>1
<1>12. ASSUME NEW i \in 1..n, NEW j \in 1..n, i <= j PROVE Upto(e[i], e[j])
  <2>1. e[i] = Entry(order, i) /\ e[j] = Entry(order, j)
    BY <1>4
  <2>2. CASE i = j
    BY <1>7, <2>1, <2>2 DEF Upto
  <2>3. CASE i # j
    <3>1. j # 1 /\ j - 1 \in 1..n /\ j - 1 \in i..n /\ j \in i..n
      BY <1>12, <2>3
    <3>2. Entry(order, j).start = Entry(order, j - 1).end
      BY <1>1, <1>2, <3>1, EntriesOf
    <3>3. Entry(order, i).end <= Entry(order, j - 1).end /\ Entry(order, i).end <= Entry(order, j).end
      BY <1>11, <3>1
    <3>4. /\ Entry(order, i).start \in Nat /\ Entry(order, i).end \in Nat
          /\ Entry(order, j).start \in Nat /\ Entry(order, j).end \in Nat
          /\ Entry(order, i).start <= Entry(order, i).end
      BY <1>7
    <3>5. QED
      BY <2>1, <3>2, <3>3, <3>4 DEF Upto
  <2>4. QED
    BY <2>2, <2>3
<1>13. Spanned(e, S)
  <2>1. \A a \in S : a.start \in Nat /\ a.end \in Nat
    BY <1>10 DEF Entered
  <2>2. \A i, j \in 1..n : e[i] = e[j] => i = j
    BY <1>4, <1>8
  <2>3. \A a \in S : \E i \in 1..n : e[i] = a
    BY <1>3, <1>4
  <2>4. QED
    BY <1>6, <1>12, <2>1, <2>2, <2>3 DEF Spanned
<1>14. QED
  BY <1>2, <1>6, <1>9, <1>10, <1>13 DEF S, e

\* The list by offsets of what is encoded may differ from the order of the body in
\* empty tensors only, so that it is contiguous and ends where the body does.
LEMMA OffsetsOf ==
  ASSUME NEW T, Carried(T), NEW R, NEW order, Lists(order, R, T), NEW l, l = ByOffsets(Index(order))
  PROVE  /\ l \in Seq(Index(order)) /\ Range(l) = Index(order) /\ DOMAIN l = 1..Len(l)
         /\ \A i, j \in DOMAIN l : l[i] = l[j] => i = j
         /\ Contiguous(l) /\ BodyLen(l) = Len(Whole(order)) /\ Len(Whole(order)) \in Nat
<1> DEFINE S == Index(order)
           e == IndexList(order)
<1>1. order \in Seq(T) /\ Len(order) \in Nat
  BY DEF Lists
<1>2. Entered(S) /\ Spanned(e, S) /\ Cardinality(S) = Len(order) /\ Len(e) = Len(order)
  BY IndexIs
<1>3. Spanned(l, S) /\ Len(l) = Len(order)
  BY <1>2, OffsetsSpanned
<1>4. l \in Seq(S) /\ \A s \in S : s.start \in Nat /\ s.end \in Nat
  BY <1>3 DEF Spanned
<1>5. PICK n \in Nat : n = Len(order)
  BY <1>1
<1>6. Len(l) = n /\ DOMAIN l = 1..n /\ Len(e) = n
  BY <1>2, <1>3, <1>4, <1>5
<1>7. \A i \in 1..n : e[i] = Entry(order, i)
  BY <1>5 DEF IndexList
<1>8. ASSUME NEW i \in 1..n PROVE l[i].start = Entry(order, i).start /\ l[i].end = Entry(order, i).end
  BY <1>2, <1>3, <1>6, <1>7, SameSpans
<1>9. ASSUME NEW i \in 1..n PROVE l[i].end >= l[i].start /\ l[i].end - l[i].start = DataLen(l[i])
  <2>1. PICK k \in 1..n : l[i] = Entry(order, k)
    <3>1. l[i] \in Index(order)
      BY <1>4, <1>6
    <3>2. QED
      BY <1>5, <3>1 DEF Index
  <2>2. /\ Entry(order, k).dtype = order[k].dtype /\ Entry(order, k).shape = order[k].shape
        /\ Entry(order, k).start \in Nat
        /\ Entry(order, k).end = Entry(order, k).start + DataLen(order[k]) /\ DataLen(order[k]) \in Nat
    BY <1>1, <1>5, EntriesOf
  <2>3. DataLen(Entry(order, k)) = DataLen(order[k])
    BY <2>2 DEF DataLen
  <2>4. QED
    BY <2>1, <2>2, <2>3
<1>10. ASSUME NEW i \in 1..n PROVE l[i].start = IF i = 1 THEN 0 ELSE l[i - 1].end
  <2>1. CASE i = 1
    BY <1>1, <1>5, <1>8, <2>1, EntriesOf
  <2>2. CASE i # 1
    <3>1. i - 1 \in 1..n
      BY <2>2
    <3>2. Entry(order, i).start = Entry(order, i - 1).end
      BY <1>1, <1>5, <2>2, EntriesOf
    <3>3. QED
      BY <1>8, <2>2, <3>1, <3>2
  <2>3. QED
    BY <2>1, <2>2
<1>11. Contiguous(l)
  BY <1>6, <1>9, <1>10 DEF Contiguous
<1>12. BodyLen(l) = Len(Whole(order))
  <2>1. CASE n = 0
    <3>1. l = <<>>
      BY <1>4, <1>6, <2>1
    <3>2. Whole(order) = <<>>
      BY <1>5, <2>1, BodyBegins DEF Whole
    <3>3. QED
      BY <3>1, <3>2 DEF BodyLen
  <2>2. CASE n # 0
    <3>1. l # <<>> /\ Last(l) = l[n] /\ n \in 1..n
      BY <1>6, <2>2 DEF Last
    <3>2. l[n].end = Entry(order, n).end
      BY <1>8, <3>1
    <3>3. Entry(order, n).end = Len(Whole(order))
      BY <1>5 DEF Entry, Whole
    <3>4. QED
      BY <3>1, <3>2, <3>3 DEF BodyLen
  <2>3. QED
    BY <2>1, <2>2
<1>13. Range(l) = S
  <2>1. \A s \in S : \E i \in DOMAIN l : l[i] = s
    BY <1>3, <1>6 DEF Spanned
  <2>2. \A i \in DOMAIN l : l[i] \in S
    BY <1>4
  <2>3. QED
    BY <2>1, <2>2 DEF Range
<1>14. \A i, j \in DOMAIN l : l[i] = l[j] => i = j
  BY <1>3, <1>6 DEF Spanned
<1>15. Len(Whole(order)) \in Nat
  <2>1. Parts(order) \in Seq(Seq(Stuff(T))) /\ Len(Parts(order)) = Len(order)
    BY <1>1, PartsOf
  <2>2. Len(order) \in 0..Len(Parts(order))
    BY <1>1, <2>1
  <2>3. QED
    BY <2>1, <2>2, BodyTyped DEF Whole
<1>16. QED
  BY <1>4, <1>6, <1>11, <1>12, <1>13, <1>14, <1>15

\* A tensor of a list, by its name.
LEMMA NamedIs ==
  ASSUME NEW list, NEW t \in Range(list), \A a, b \in Range(list) : a.name = b.name => a = b
  PROVE  Named(list, t.name) = t
BY DEF Named

\* What a header lists fits the ports that the tensors fit.
LEMMA IndexFits ==
  ASSUME NEW tensors, Carried(Range(tensors)), NEW R, NEW order, Lists(order, R, Range(tensors)),
         NEW l, l = ByOffsets(Index(order)), NEW ports, ValidPorts(ports, tensors)
  PROVE  /\ ValidPorts(ports, l)
         /\ \A p \in Range(ports) : \E k \in 1..Len(order) :
              Named(l, p.name) = Entry(order, k) /\ Named(tensors, p.name) = order[k]
<1> DEFINE T == Range(tensors)
           S == Index(order)
<1>1. order \in Seq(T) /\ Len(order) \in Nat /\ \A i \in 1..Len(order) : order[i] \in T
  BY DEF Lists
<1>2. Range(l) = S /\ \A i, j \in DOMAIN l : l[i] = l[j] => i = j
  BY OffsetsOf
<1>3. Entered(S)
  BY IndexIs
<1>4. \A a, b \in T : a.name = b.name => a = b
  BY DEF Carried
<1>5. \A s \in S : \E k \in 1..Len(order) : s = Entry(order, k)
  BY DEF Index
<1>6. \A k \in 1..Len(order) : Entry(order, k) \in S
  BY DEF Index
<1>7. \A k \in 1..Len(order) : /\ Entry(order, k).name = order[k].name /\ Entry(order, k).dtype = order[k].dtype
                               /\ Entry(order, k).shape = order[k].shape
  BY DEF Entry
<1>8. \A t \in T : \E k \in 1..Len(order) : order[k] = t
  BY DEF Lists
<1>9. ValidSchema(ports) /\ ValidTensors(ports, tensors)
  BY DEF ValidPorts
<1>10. {t.name : t \in T} = {p.name : p \in Range(ports)}
  BY <1>9 DEF ValidTensors
<1>11. ASSUME NEW p \in Range(ports)
       PROVE  \E k \in 1..Len(order) : Named(l, p.name) = Entry(order, k) /\ Named(tensors, p.name) = order[k]
  <2>1. PICK t \in T : t.name = p.name
    BY <1>10
  <2>2. PICK k \in 1..Len(order) : order[k] = t
    BY <1>8
  <2>3. Entry(order, k) \in Range(l) /\ Entry(order, k).name = p.name
    BY <1>2, <1>6, <1>7, <2>1, <2>2
  <2>4. \A a, b \in Range(l) : a.name = b.name => a = b
    BY <1>2, <1>3 DEF Entered
  <2>5. Named(l, p.name) = Entry(order, k)
    BY <2>3, <2>4, NamedIs
  <2>6. t \in Range(tensors) /\ \A a, b \in Range(tensors) : a.name = b.name => a = b
    BY <1>4
  <2>7. Named(tensors, p.name) = t
    BY <2>1, <2>6, NamedIs
  <2>8. QED
    BY <2>2, <2>5, <2>7
<1>12. \A p \in Range(ports) : /\ Named(l, p.name).dtype = Named(tensors, p.name).dtype
                               /\ Named(l, p.name).shape = Named(tensors, p.name).shape
  BY <1>7, <1>11
<1>13. \A i, j \in DOMAIN l : l[i].name = l[j].name => i = j
  <2>1. \A i \in DOMAIN l : l[i] \in S
    BY <1>2 DEF Range
  <2>2. QED
    BY <1>2, <1>3, <2>1 DEF Entered
<1>14. {t.name : t \in Range(l)} = {p.name : p \in Range(ports)}
  <2>1. ASSUME NEW s \in Range(l) PROVE s.name \in {t.name : t \in T}
    <3>1. PICK k \in 1..Len(order) : s = Entry(order, k)
      BY <1>2, <1>5
    <3>2. s.name = order[k].name /\ order[k] \in T
      BY <1>1, <1>7, <3>1
    <3>3. QED
      BY <3>2
  <2>2. ASSUME NEW t \in T PROVE t.name \in {s.name : s \in Range(l)}
    <3>1. PICK k \in 1..Len(order) : order[k] = t
      BY <1>8
    <3>2. Entry(order, k) \in Range(l) /\ Entry(order, k).name = t.name
      BY <1>2, <1>6, <1>7, <3>1
    <3>3. QED
      BY <3>2
  <2>3. {s.name : s \in Range(l)} = {t.name : t \in T}
    BY <2>1, <2>2, ZenonT(60)
  <2>4. QED
    BY <1>10, <2>3
<1>15. \A p \in Range(ports) : FitsPort(Named(l, p.name), p)
  BY <1>9, <1>12 DEF ValidTensors, FitsPort
<1>16. \A p, q \in Range(ports) : \A a \in DOMAIN p.dims, b \in DOMAIN q.dims :
         p.dims[a].rule = "symbolic" /\ q.dims[b] = p.dims[a]
           => Named(l, p.name).shape[a] = Named(l, q.name).shape[b]
  BY <1>9, <1>12 DEF ValidTensors
<1>17. ValidTensors(ports, l)
  BY <1>13, <1>14, <1>15, <1>16 DEF ValidTensors
<1>18. QED
  BY <1>9, <1>11, <1>17 DEF ValidPorts

-----------------------------------------------------------------------------
(* Encoded frames *)

LEMMA CutEmpty ==
  ASSUME NEW s, NEW from \in Nat, NEW to \in Nat, to < from
  PROVE  SubSeq(s, from + 1, to) = <<>>
<1>1. from + 1 \in Int /\ to \in Int /\ to < from + 1
  OBVIOUS
<1>2. QED
  BY <1>1, SubSeqEmpty

\* What is cut out of a sequence put together of two.
LEMMA CutAfter ==
  ASSUME NEW X, NEW p \in Seq(X), NEW q \in Seq(X), NEW a \in Nat, NEW b \in Nat, b <= Len(q)
  PROVE  SubSeq(p \o q, Len(p) + a + 1, Len(p) + b) = SubSeq(q, a + 1, b)
<1>1. PICK n \in Nat : n = Len(p)
  OBVIOUS
<1>2. PICK c : c = p \o q
  OBVIOUS
<1>3. /\ c \in Seq(X) /\ Len(c) = n + Len(q) /\ Len(q) \in Nat
      /\ \A k \in 1..Len(q) : c[n + k] = q[k]
  BY <1>1, <1>2, ConcatProperties
<1>4. PICK from \in Nat, to \in Nat : from = n + a /\ to = n + b
  OBVIOUS
<1>5. to <= Len(c)
  BY <1>3, <1>4
<1>6. CASE a <= b
  <2>1. PICK t, u : t = SubSeq(c, from + 1, to) /\ u = SubSeq(q, a + 1, b)
    OBVIOUS
  <2>2. from <= to
    BY <1>4, <1>6
  <2>3. t \in Seq(X) /\ Cut(t, c, from, to - from)
    BY <1>3, <1>4, <1>5, <2>1, <2>2, CutIs
  <2>4. u \in Seq(X) /\ Cut(u, q, a, b - a)
    BY <1>3, <1>6, <2>1, CutIs
  <2>5. to - from = b - a
    BY <1>4
  <2>6. ASSUME NEW k \in 1..(b - a) PROVE t[k] = u[k]
    <3>1. from + k = n + (a + k) /\ a + k \in 1..Len(q)
      BY <1>3, <1>4
    <3>2. t[k] = c[from + k] /\ u[k] = q[a + k]
      BY <2>3, <2>4, <2>5 DEF Cut
    <3>3. QED
      BY <1>3, <3>1, <3>2
  <2>7. Len(t) = b - a /\ Len(u) = b - a
    BY <2>3, <2>4, <2>5 DEF Cut
  <2>8. t = u
    BY <2>3, <2>4, <2>6, <2>7, SeqEqual
  <2>9. QED
    BY <1>1, <1>2, <1>4, <2>1, <2>8
<1>7. CASE b < a
  <2>1. to < from
    BY <1>4, <1>7
  <2>2. SubSeq(c, from + 1, to) = <<>> /\ SubSeq(q, a + 1, b) = <<>>
    BY <1>7, <2>1, CutEmpty
  <2>3. QED
    BY <1>1, <1>2, <1>4, <2>2
<1>8. QED
  BY <1>6, <1>7

LEMMA CutBefore ==
  ASSUME NEW X, NEW p \in Seq(X), NEW q \in Seq(X), NEW a \in Nat, NEW b \in Nat, b <= Len(p)
  PROVE  SubSeq(p \o q, a + 1, b) = SubSeq(p, a + 1, b)
<1>1. PICK c : c = p \o q
  OBVIOUS
<1>2. /\ c \in Seq(X) /\ Len(c) = Len(p) + Len(q) /\ Len(p) \in Nat /\ Len(q) \in Nat
      /\ \A k \in 1..Len(p) : c[k] = p[k]
  BY <1>1, ConcatProperties
<1>3. b <= Len(c)
  BY <1>2
<1>4. CASE a <= b
  <2>1. PICK t, u : t = SubSeq(c, a + 1, b) /\ u = SubSeq(p, a + 1, b)
    OBVIOUS
  <2>2. t \in Seq(X) /\ Cut(t, c, a, b - a)
    BY <1>2, <1>3, <1>4, <2>1, CutIs
  <2>3. u \in Seq(X) /\ Cut(u, p, a, b - a)
    BY <1>4, <2>1, CutIs
  <2>4. ASSUME NEW k \in 1..(b - a) PROVE t[k] = u[k]
    <3>1. a + k \in 1..Len(p)
      BY <1>2
    <3>2. t[k] = c[a + k] /\ u[k] = p[a + k]
      BY <2>2, <2>3 DEF Cut
    <3>3. QED
      BY <1>2, <3>1, <3>2
  <2>5. Len(t) = b - a /\ Len(u) = b - a
    BY <2>2, <2>3 DEF Cut
  <2>6. t = u
    BY <2>2, <2>3, <2>4, <2>5, SeqEqual
  <2>7. QED
    BY <1>1, <2>1, <2>6
<1>5. CASE b < a
  BY <1>1, <1>5, CutEmpty
<1>6. QED
  BY <1>4, <1>5

Joined(c, p, q, X) ==
  /\ c \in Seq(X) /\ Len(c) = Len(p) + Len(q) /\ Len(p) \in Nat /\ Len(q) \in Nat
  /\ \A i \in 1..Len(p) : c[i] = p[i]
  /\ \A i \in 1..Len(q) : c[Len(p) + i] = q[i]
  /\ SubSeq(c, Len(p) + 1, Len(c)) = q

LEMMA JoinOf ==
  ASSUME NEW X, NEW p \in Seq(X), NEW q \in Seq(X), NEW c, c = p \o q
  PROVE  Joined(c, p, q, X)
<1>1. Len(p) \in Nat /\ Len(q) \in Nat
  OBVIOUS
<1>2. PICK u : u = p \o q
  OBVIOUS
<1>3. /\ u \in Seq(X) /\ Len(u) = Len(p) + Len(q)
      /\ \A i \in 1..Len(p) : u[i] = p[i]
      /\ \A i \in 1..Len(q) : u[Len(p) + i] = q[i]
  BY <1>1, <1>2, ConcatProperties
<1>4. SubSeq(u, Len(p) + 1, Len(u)) = q
  <2>1. PICK zero \in Nat : zero = 0
    OBVIOUS
  <2>2. SubSeq(p \o q, Len(p) + zero + 1, Len(p) + Len(q)) = SubSeq(q, zero + 1, Len(q))
    BY <1>1, CutAfter
  <2>3. Len(p) + zero + 1 = Len(p) + 1 /\ zero + 1 = 1
    BY <1>1, <2>1
  <2>4. SubSeq(q, 1, Len(q)) = q
    BY SubSeqFull
  <2>5. QED
    BY <1>2, <1>3, <2>2, <2>3, <2>4
<1>5. QED
  BY <1>1, <1>2, <1>3, <1>4 DEF Joined

\* Its header first, the bytes of encoded tensors.
HeaderCell(order)      == [header |-> Index(order)]
SerializedCells(T, order) == {HeaderCell(order)} \cup Stuff(T)

Packed(bytes, order, T) ==
  /\ Lists(order, DtypeOrder(T), T)
  /\ bytes \in Seq(SerializedCells(T, order)) /\ Len(bytes) = 1 + Len(Whole(order)) /\ Len(Whole(order)) \in Nat
  /\ bytes[1] = HeaderCell(order) /\ Head(bytes) = HeaderCell(order) /\ bytes # <<>>
  /\ \A a, b \in Nat : b <= Len(Whole(order)) => SubSeq(bytes, 2 + a, 1 + b) = SubSeq(Whole(order), a + 1, b)

LEMMA BytesAre ==
  ASSUME NEW tensors, Carried(Range(tensors)), NEW order, order = Sorted(Range(tensors), DtypeBefore),
         NEW bytes, bytes = Serialized(tensors)
  PROVE  Packed(bytes, order, Range(tensors))
<1> DEFINE T == Range(tensors)
<1>1. Lists(order, DtypeOrder(T), T)
  BY ListedByDtype
<1>2. order \in Seq(T) /\ Len(order) \in Nat /\ DOMAIN order = 1..Len(order)
  BY <1>1 DEF Lists
<1>3. PICK X, p, w : X = SerializedCells(T, order) /\ p = <<HeaderCell(order)>> /\ w = Whole(order)
  OBVIOUS
<1>4. bytes = p \o w
  BY <1>2, <1>3, SerializedIs DEF HeaderCell
<1>5. Parts(order) \in Seq(Seq(Stuff(T))) /\ Len(Parts(order)) = Len(order)
  BY <1>2, PartsOf
<1>6. w \in Seq(Stuff(T)) /\ Len(w) \in Nat
  <2>1. Len(order) \in 0..Len(Parts(order))
    BY <1>2, <1>5
  <2>2. QED
    BY <1>3, <1>5, <2>1, BodyTyped DEF Whole
<1>7. w \in Seq(X)
  BY <1>3, <1>6 DEF SerializedCells
<1>8. p \in Seq(X) /\ Len(p) = 1 /\ p[1] = HeaderCell(order)
  BY <1>3 DEF SerializedCells
<1>9. /\ bytes \in Seq(X) /\ Len(bytes) = Len(p) + Len(w)
      /\ bytes[1] = p[1]
  <2>1. Joined(bytes, p, w, X)
    BY <1>7, <1>8, <1>4, JoinOf
  <2>2. 1 \in 1..Len(p)
    BY <1>8
  <2>3. QED
    BY <2>1, <2>2 DEF Joined
<1>10. bytes # <<>> /\ Head(bytes) = HeaderCell(order)
  BY <1>6, <1>8, <1>9
<1>11. ASSUME NEW a \in Nat, NEW b \in Nat, b <= Len(w)
       PROVE  SubSeq(bytes, 2 + a, 1 + b) = SubSeq(w, a + 1, b)
  <2>1. SubSeq(p \o w, Len(p) + a + 1, Len(p) + b) = SubSeq(w, a + 1, b)
    BY ZenonT(60), <1>7, <1>8, <1>11, CutAfter
  <2>2. Len(p) + a + 1 = 2 + a /\ Len(p) + b = 1 + b
    BY <1>8
  <2>3. QED
    BY <1>4, <2>1, <2>2
<1>12. QED
  BY <1>1, <1>3, <1>6, <1>8, <1>9, <1>10, <1>11 DEF Packed

\* The fields of a frame are where its receivers look for them.
FrameCells(e, metadata, X) == {Magic, e} \cup Range(metadata) \cup X

Framed(data, e, metadata, bytes, X) ==
  /\ data \in Seq(FrameCells(e, metadata, X)) /\ Len(data) = 2 + Len(metadata) + Len(bytes)
  /\ data[1] = Magic /\ data[2] = e /\ HasEnvelope(data)
  /\ TensorStart(data) = 2 + Len(metadata) /\ Len(metadata) \in Nat
  /\ TensorBytes(data) = bytes /\ SubSeq(data, 3, TensorStart(data)) = metadata
  /\ data[TensorStart(data) + 1] = bytes[1] /\ TensorStart(data) + 1 <= Len(data)

LEMMA FrameIs ==
  ASSUME NEW e, NEW metadata, metadata \in Seq(Range(metadata)), NEW X, NEW bytes \in Seq(X), Len(bytes) >= 1,
         NEW data, data = <<Magic, e>> \o metadata \o bytes,
         "tensor_len" \in DOMAIN e, e.metadata_len = Len(metadata)
  PROVE  Framed(data, e, metadata, bytes, X)
<1>1. Len(metadata) \in Nat /\ Len(bytes) \in Nat
  OBVIOUS
<1>2. PICK Y, p, q : Y = FrameCells(e, metadata, X) /\ p = <<Magic, e>> /\ q = p \o metadata
  OBVIOUS
<1>3. metadata \in Seq(Y)
  BY <1>2 DEF FrameCells
<1>4. bytes \in Seq(Y)
  BY <1>2 DEF FrameCells
<1>5. p \in Seq(Y) /\ Len(p) = 2 /\ p[1] = Magic /\ p[2] = e
  BY <1>2 DEF FrameCells
<1>6. /\ q \in Seq(Y) /\ Len(q) = 2 + Len(metadata)
      /\ \A i \in 1..2 : q[i] = p[i]
  <2>1. Joined(q, p, metadata, Y)
    BY <1>3, <1>5, <1>2, JoinOf
  <2>2. QED
    BY <1>5, <2>1 DEF Joined
<1>7. data = q \o bytes
  BY <1>2
<1>8. Joined(data, q, bytes, Y)
  BY <1>4, <1>6, <1>7, JoinOf
<1>9. /\ data \in Seq(Y) /\ Len(data) = Len(q) + Len(bytes)
      /\ \A i \in 1..Len(q) : data[i] = q[i]
      /\ \A i \in 1..Len(bytes) : data[Len(q) + i] = bytes[i]
  BY <1>8 DEF Joined
<1>10. data[1] = Magic /\ data[2] = e
  BY <1>1, <1>5, <1>6, <1>9
<1>11. TensorStart(data) = 2 + Len(metadata)
  BY <1>10 DEF TensorStart
<1>12. HasEnvelope(data)
  BY <1>1, <1>6, <1>9, <1>10 DEF HasEnvelope
<1>13. TensorBytes(data) = bytes
  <2>1. SubSeq(data, Len(q) + 1, Len(data)) = bytes
    BY <1>8 DEF Joined
  <2>2. QED
    BY <1>6, <1>11, <2>1 DEF TensorBytes
<1>14. SubSeq(data, 3, TensorStart(data)) = metadata
  <2>1. SubSeq(q \o bytes, 2 + 1, 2 + Len(metadata)) = SubSeq(q, 2 + 1, 2 + Len(metadata))
    BY <1>1, <1>4, <1>6, CutBefore
  <2>2. SubSeq(q, Len(p) + 1, Len(q)) = metadata
    <3>1. Joined(q, p, metadata, Y)
      BY <1>3, <1>5, <1>2, JoinOf
    <3>2. QED
      BY <3>1 DEF Joined
  <2>3. SubSeq(q, 2 + 1, 2 + Len(metadata)) = metadata
    BY <1>5, <1>6, <2>2
  <2>4. 2 + 1 = 3
    OBVIOUS
  <2>5. QED
    BY <1>7, <1>11, <2>1, <2>3, <2>4
<1>15. data[TensorStart(data) + 1] = bytes[1] /\ TensorStart(data) + 1 <= Len(data)
  <2>1. 1 \in 1..Len(bytes) /\ Len(q) + 1 = TensorStart(data) + 1
    BY <1>1, <1>6, <1>11
  <2>2. QED
    BY <1>1, <1>6, <1>9, <1>11, <2>1
<1>16. /\ data \in Seq(FrameCells(e, metadata, X)) /\ Len(data) = 2 + Len(metadata) + Len(bytes)
  BY <1>1, <1>6, <1>9, <1>11, <1>2
<1>17. QED
  BY <1>1, <1>10, <1>11, <1>12, <1>13, <1>14, <1>15, <1>16 DEF Framed

-----------------------------------------------------------------------------
(* What is encoded decodes to what it was                                  *)

\* What an operation's answer is when it has been checked.
Answerable(contract, side, tensors, metadata) ==
  /\ tensors \in Seq(Range(tensors)) /\ metadata \in Seq(Range(metadata))
  /\ \A t \in Range(tensors) : IsTensor(t)
  /\ Encodable(contract, side, tensors)

LEMMA AnswerIsCarried ==
  ASSUME NEW contract, NEW side, NEW tensors, NEW metadata, Answerable(contract, side, tensors, metadata)
  PROVE  Carried(Range(tensors)) /\ DOMAIN tensors = 1..Len(tensors)
<1> DEFINE T == Range(tensors)
<1>1. tensors \in Seq(T) /\ Len(tensors) \in Nat /\ DOMAIN tensors = 1..Len(tensors)
  BY DEF Answerable
<1>2. IsFiniteSet(1..Len(tensors))
  <2>1. 1 \in Int /\ Len(tensors) \in Int
    BY <1>1
  <2>2. QED
    BY <2>1, FS_Interval
<1>3. IsFiniteSet(T)
  <2>1. tensors \in [1..Len(tensors) -> T]
    BY <1>1
  <2>2. \A t \in T : \E i \in 1..Len(tensors) : tensors[i] = t
    BY <1>1 DEF Range
  <2>3. tensors \in Surjection(1..Len(tensors), T)
    BY <2>1, <2>2 DEF Surjection
  <2>4. QED
    BY <1>2, <2>3, FS_Surjection
<1>4. ValidTensors(contract[side], tensors) /\ \A t \in T : ValidView(t)
  BY DEF Answerable, Encodable, ValidPorts
<1>5. \A i, j \in DOMAIN tensors : tensors[i].name = tensors[j].name => i = j
  BY <1>4 DEF ValidTensors
<1>6. ASSUME NEW a \in T, NEW b \in T, a.name = b.name PROVE a = b
  <2>1. PICK i \in DOMAIN tensors : tensors[i] = a
    BY DEF Range
  <2>2. PICK j \in DOMAIN tensors : tensors[j] = b
    BY DEF Range
  <2>3. QED
    BY <1>5, <1>6, <2>1, <2>2
<1>7. \A t \in T : IsTensor(t)
  BY DEF Answerable
<1>8. QED
  BY <1>1, <1>3, <1>4, <1>6, <1>7 DEF Carried

\* The parts of an encoded frame.
Encoded(contract, side, tensors, metadata, order, bytes, data) ==
  /\ Carried(Range(tensors)) /\ Packed(bytes, order, Range(tensors))
  /\ Framed(data, Envelope(contract, side, metadata, bytes), metadata, bytes, SerializedCells(Range(tensors), order))

LEMMA EncodedIs ==
  ASSUME NEW contract, NEW side, NEW tensors, NEW metadata, Answerable(contract, side, tensors, metadata),
         NEW order, order = Sorted(Range(tensors), DtypeBefore), NEW bytes, bytes = Serialized(tensors),
         NEW data, data = EncodeFrame(contract, side, tensors, metadata)
  PROVE  Encoded(contract, side, tensors, metadata, order, bytes, data)
<1>1. PICK e, X : /\ e = Envelope(contract, side, metadata, bytes)
                  /\ X = SerializedCells(Range(tensors), order)
  OBVIOUS
<1>2. Carried(Range(tensors))
  BY AnswerIsCarried
<1>3. Packed(bytes, order, Range(tensors))
  BY <1>2, BytesAre
<1>4. metadata \in Seq(Range(metadata))
  BY DEF Answerable
<1>5. bytes \in Seq(X) /\ Len(bytes) >= 1
  BY <1>1, <1>3 DEF Packed
<1>6. "tensor_len" \in DOMAIN e /\ e.metadata_len = Len(metadata)
  BY <1>1 DEF Envelope
<1>7. data = <<Magic, e>> \o metadata \o bytes
  BY <1>1 DEF EncodeFrame
<1>8. Framed(data, e, metadata, bytes, X)
  BY <1>4, <1>5, <1>6, <1>7, FrameIs
<1>9. QED
  BY <1>1, <1>2, <1>3, <1>8 DEF Encoded

\* An encoded frame is an artifact of its contract,
LEMMA EncodedIsValid ==
  ASSUME NEW contract, NEW side, NEW tensors, NEW metadata, NEW order, NEW bytes, NEW data,
         Answerable(contract, side, tensors, metadata),
         Encoded(contract, side, tensors, metadata, order, bytes, data)
  PROVE  ValidArtifact(contract, side, data)
<1>1. PICK e : e = Envelope(contract, side, metadata, bytes)
  OBVIOUS
<1>2. PICK l : l = ByOffsets(Index(order))
  OBVIOUS
<1>3. Carried(Range(tensors)) /\ Packed(bytes, order, Range(tensors))
      /\ Framed(data, e, metadata, bytes, SerializedCells(Range(tensors), order))
  BY <1>1 DEF Encoded
<1>4. Lists(order, DtypeOrder(Range(tensors)), Range(tensors))
  BY <1>3 DEF Packed
<1>5. Contiguous(l) /\ BodyLen(l) = Len(Whole(order))
  BY <1>2, <1>3, <1>4, OffsetsOf
<1>6. ValidPorts(contract[side], tensors)
  BY DEF Answerable, Encodable
<1>7. ValidPorts(contract[side], l)
  BY <1>2, <1>3, <1>4, <1>6, IndexFits
<1>8. /\ bytes # <<>> /\ Head(bytes) = HeaderCell(order) /\ Len(bytes) = 1 + Len(Whole(order))
      /\ Len(Whole(order)) \in Nat
  BY <1>3 DEF Packed
<1>9. IsHeader(HeaderCell(order)) /\ HeaderCell(order).header = Index(order)
  BY DEF IsHeader, HeaderCell
<1>10. Deserializes(bytes)
  BY <1>2, <1>5, <1>8, <1>9 DEF Deserializes
<1>11. ValidEnvelope(e, contract, side) /\ e.tensor_len = Len(bytes)
  BY <1>1 DEF ValidEnvelope, Envelope
<1>12. /\ data[2] = e /\ HasEnvelope(data) /\ Len(data) = 2 + Len(metadata) + Len(bytes)
       /\ TensorStart(data) = 2 + Len(metadata) /\ TensorBytes(data) = bytes
  BY <1>3 DEF Framed
<1>13. ValidPorts(contract[side], ByOffsets(Head(TensorBytes(data)).header))
  BY <1>2, <1>7, <1>8, <1>9, <1>12
<1>14. QED
  BY <1>10, <1>11, <1>12, <1>13 DEF ValidArtifact

\* and gives back its tensors, by the names of the ports, and its metadata.
LEMMA EncodedDecodes ==
  ASSUME NEW contract, NEW side, NEW tensors, NEW metadata, NEW order, NEW bytes, NEW data,
         Answerable(contract, side, tensors, metadata),
         Encoded(contract, side, tensors, metadata, order, bytes, data)
  PROVE  /\ DecodeFrame(contract, side, data).metadata = metadata
         /\ DecodeFrame(contract, side, data).tensors
              = [p \in DOMAIN contract[side] |-> Named(tensors, contract[side][p].name)]
<1>1. PICK e, l, ports : /\ e = Envelope(contract, side, metadata, bytes) /\ l = ByOffsets(Index(order))
                         /\ ports = contract[side]
  OBVIOUS
<1>2. Carried(Range(tensors)) /\ Packed(bytes, order, Range(tensors))
      /\ Framed(data, e, metadata, bytes, SerializedCells(Range(tensors), order))
  BY <1>1 DEF Encoded
<1>3. /\ Lists(order, DtypeOrder(Range(tensors)), Range(tensors)) /\ Head(bytes) = HeaderCell(order)
      /\ Len(Whole(order)) \in Nat
      /\ \A a, b \in Nat : b <= Len(Whole(order)) => SubSeq(bytes, 2 + a, 1 + b) = SubSeq(Whole(order), a + 1, b)
  BY <1>2 DEF Packed
<1>4. TensorBytes(data) = bytes /\ SubSeq(data, 3, TensorStart(data)) = metadata
  BY <1>2 DEF Framed
<1>5. ValidPorts(ports, tensors)
  BY <1>1 DEF Answerable, Encodable
<1>6. \A p \in Range(ports) : \E k \in 1..Len(order) :
        Named(l, p.name) = Entry(order, k) /\ Named(tensors, p.name) = order[k]
  BY <1>1, <1>2, <1>3, <1>5, IndexFits
<1> DEFINE View(i) == [name |-> i.name, dtype |-> i.dtype, shape |-> i.shape,
                       data |-> SubSeq(bytes, 2 + i.start, 1 + i.end)]
<1>7. Head(bytes).header = Index(order)
  BY <1>3 DEF HeaderCell
<1>8. /\ DecodeFrame(contract, side, data).metadata = metadata
      /\ DecodeFrame(contract, side, data).tensors = [p \in DOMAIN ports |-> View(Named(l, ports[p].name))]
  BY <1>1, <1>4, <1>7 DEF DecodeFrame
<1>9. order \in Seq(Range(tensors)) /\ Len(order) \in Nat
  BY <1>3 DEF Lists
<1>10. ASSUME NEW k \in 1..Len(order) PROVE View(Entry(order, k)) = order[k]
  <2>1. /\ Entry(order, k).name = order[k].name /\ Entry(order, k).dtype = order[k].dtype
        /\ Entry(order, k).shape = order[k].shape
        /\ Entry(order, k).start \in Nat /\ Entry(order, k).end \in Nat
        /\ SubSeq(Whole(order), Entry(order, k).start + 1, Entry(order, k).end) = order[k].data
    BY <1>2, <1>9, EntriesOf
  <2>2. Entry(order, k).end <= Len(Whole(order))
    <3>1. PICK u : u = Parts(order)
      OBVIOUS
    <3>2. u \in Seq(Seq(Stuff(Range(tensors)))) /\ Len(u) = Len(order)
      BY <1>2, <1>9, <3>1, PartsOf
    <3>3. k \in 0..Len(u) /\ Len(order) \in k..Len(u)
      BY <1>9, <3>2
    <3>4. Extends(u, k, Len(order))
      BY <3>2, <3>3, BodyExtends
    <3>5. QED
      BY <3>1, <3>4 DEF Extends, Whole, Entry
  <2>3. SubSeq(bytes, 2 + Entry(order, k).start, 1 + Entry(order, k).end) = order[k].data
    BY <1>3, <2>1, <2>2
  <2>4. order[k] \in Range(tensors)
    BY <1>9
  <2>5. order[k] = [name |-> order[k].name, dtype |-> order[k].dtype, shape |-> order[k].shape, data |-> order[k].data]
    BY <1>2, <2>4 DEF Carried, IsTensor
  <2>6. QED
    BY <2>1, <2>3, <2>5
<1> HIDE DEF View
<1>11. ASSUME NEW p \in DOMAIN ports PROVE View(Named(l, ports[p].name)) = Named(tensors, ports[p].name)
  <2>1. ports[p] \in Range(ports)
    BY DEF Range
  <2>2. PICK k \in 1..Len(order) : Named(l, ports[p].name) = Entry(order, k) /\ Named(tensors, ports[p].name) = order[k]
    BY <1>6, <2>1
  <2>3. QED
    BY <1>10, <2>2 DEF View
<1>12. QED
  BY <1>1, <1>8, <1>11 DEF View

\* Its header is what a live stream announces, and is valid unless tensors tie.
LEMMA EncodedHeader ==
  ASSUME NEW contract, NEW side, NEW tensors, NEW metadata, NEW order, NEW bytes, NEW data,
         Encoded(contract, side, tensors, metadata, order, bytes, data), NEW h, h = TensorStreamHeader(data)
  PROVE  /\ h[2] = data[2] /\ TensorStart(h) = TensorStart(data) /\ Len(h) = TensorStart(h) + 1
         /\ HasHeader(h) /\ Last(h) = HeaderCell(order) /\ DeclaredLen(h) = Len(data)
<1>1. PICK e, X : /\ e = Envelope(contract, side, metadata, bytes)
                  /\ X = FrameCells(e, metadata, SerializedCells(Range(tensors), order))
  OBVIOUS
<1>2. PICK n : n = TensorStart(data) + 1
  OBVIOUS
<1>3. Packed(bytes, order, Range(tensors))
      /\ Framed(data, e, metadata, bytes, SerializedCells(Range(tensors), order))
  BY <1>1 DEF Encoded
<1>4. /\ data \in Seq(X) /\ Len(data) = 2 + Len(metadata) + Len(bytes) /\ Len(metadata) \in Nat
      /\ data[1] = Magic /\ data[2] = e
      /\ TensorStart(data) = 2 + Len(metadata)
      /\ data[n] = HeaderCell(order) /\ n <= Len(data)
  BY <1>1, <1>2, <1>3 DEF Framed, Packed
<1>5. n \in Nat /\ n = 3 + Len(metadata) /\ Len(data) \in Nat
  BY <1>2, <1>4
<1>6. /\ Len(h) = n /\ \A i \in 1..n : h[i] = data[i]
  <2>1. 1 \in Int /\ n \in Int /\ \A i \in 1..n : data[i] \in X
    BY <1>4, <1>5
  <2>2. /\ Len(SubSeq(data, 1, n)) = IF 1 <= n THEN n - 1 + 1 ELSE 0
        /\ \A i \in 1..(n - 1 + 1) : SubSeq(data, 1, n)[i] = data[1 + i - 1]
    BY <2>1, SubSeqProperties
  <2>3. h = SubSeq(data, 1, n)
    BY <1>2 DEF TensorStreamHeader
  <2> HIDE DEF TensorStreamHeader
  <2>4. n - 1 + 1 = n /\ 1 <= n /\ \A i \in 1..n : 1 + i - 1 = i
    BY <1>5
  <2>5. QED
    BY <2>2, <2>3, <2>4
<1>7. 1 \in 1..n /\ 2 \in 1..n /\ n \in 1..n
  BY <1>4, <1>5
<1>8. h[1] = Magic /\ h[2] = e /\ h[n] = HeaderCell(order)
  BY <1>4, <1>6, <1>7
<1>9. TensorStart(h) = TensorStart(data) /\ Len(h) = TensorStart(h) + 1
  BY <1>2, <1>4, <1>6, <1>8 DEF TensorStart
<1>10. Last(h) = HeaderCell(order)
  BY <1>6, <1>8 DEF Last
<1>11. "tensor_len" \in DOMAIN e /\ e.tensor_len = Len(bytes)
  BY <1>1 DEF Envelope
<1>12. HasEnvelope(h)
  BY <1>4, <1>5, <1>6, <1>8, <1>11 DEF HasEnvelope
<1>13. IsHeader(HeaderCell(order))
  BY DEF IsHeader, HeaderCell
<1>14. HasHeader(h)
  BY <1>2, <1>4, <1>5, <1>6, <1>8, <1>9, <1>12, <1>13 DEF HasHeader
<1>15. DeclaredLen(h) = Len(data)
  BY <1>4, <1>8, <1>9, <1>11 DEF DeclaredLen
<1>16. QED
  BY <1>4, <1>8, <1>9, <1>10, <1>14, <1>15

LEMMA EncodedIsAnnounced ==
  ASSUME NEW contract, NEW side, NEW tensors, NEW metadata, NEW order, NEW bytes, NEW data,
         Answerable(contract, side, tensors, metadata),
         Encoded(contract, side, tensors, metadata, order, bytes, data), NEW h, h = TensorStreamHeader(data)
  PROVE  ValidStreamHeader(contract, side, h) <=> ~HeaderTies(h)
<1>1. PICK S, e : S = Index(order) /\ e = Envelope(contract, side, metadata, bytes)
  OBVIOUS
<1>2. /\ h[2] = data[2] /\ Len(h) = TensorStart(h) + 1 /\ HasHeader(h) /\ Last(h) = HeaderCell(order)
  BY EncodedHeader
<1>3. Last(h).header = S
  BY <1>1, <1>2 DEF HeaderCell
<1>4. Carried(Range(tensors)) /\ Packed(bytes, order, Range(tensors))
      /\ Framed(data, e, metadata, bytes, SerializedCells(Range(tensors), order))
  BY <1>1 DEF Encoded
<1>5. Lists(order, DtypeOrder(Range(tensors)), Range(tensors)) /\ Len(bytes) = 1 + Len(Whole(order))
  BY <1>4 DEF Packed
<1>6. Entered(S)
  BY <1>1, <1>4, <1>5, IndexIs
<1>7. HeaderTies(h) <=> ~NoTies(S)
  <2>1. \A a, b \in S : a.end > b.end <=> ~(a.end <= b.end)
    BY <1>6 DEF Entered
  <2>2. QED
    BY <1>3, <2>1 DEF HeaderTies, NoTies
<1>8. ASSUME ValidStreamHeader(contract, side, h) PROVE NoTies(S)
  <2>1. Contiguous(ByStart(S))
    BY <1>3, <1>8 DEF ValidStreamHeader
  <2>2. QED
    BY <1>6, <2>1, SpansInOrder
<1>9. ASSUME NoTies(S) PROVE ValidStreamHeader(contract, side, h)
  <2>1. PICK l : l = ByOffsets(S)
    OBVIOUS
  <2>2. ByStart(S) = l
    BY <1>6, <1>9, <2>1, OrderedAlike
  <2>3. Contiguous(l) /\ BodyLen(l) = Len(Whole(order))
    BY <1>1, <1>4, <1>5, <2>1, OffsetsOf
  <2>4. ValidPorts(contract[side], tensors)
    BY DEF Answerable, Encodable
  <2>5. ValidPorts(contract[side], l)
    BY <1>1, <1>4, <1>5, <2>1, <2>4, IndexFits
  <2>6. h[2] = e
    BY <1>2, <1>4 DEF Framed
  <2>7. ValidEnvelope(e, contract, side) /\ e.tensor_len = 1 + BodyLen(l)
    BY <1>1, <1>5, <2>3 DEF ValidEnvelope, Envelope
  <2>8. QED
    BY <1>2, <1>3, <2>2, <2>3, <2>5, <2>6, <2>7 DEF ValidStreamHeader
<1>10. QED
  BY <1>7, <1>8, <1>9

-----------------------------------------------------------------------------
(* Dark tokens, dense and back                                             *)

\* Elements of a shape, one dimension after the other.
Multiplied(f, shape, n) == f = [a \in 0..n |-> IF a = 0 THEN 1 ELSE f[a - 1] * shape[a]]

LEMMA ElementsOfTwo ==
  ASSUME NEW x \in Nat, NEW y \in Nat
  PROVE  Elements(<<x, y>>) = x * y
<1>1. PICK shape : shape = <<x, y>>
  OBVIOUS
<1>2. Len(shape) = 2 /\ shape[1] = x /\ shape[2] = y
  BY <1>1
<1>3. PICK g : g = [a \in 0..2 |-> IF a = 0 THEN 1 ELSE IF a = 1 THEN x ELSE x * y]
  OBVIOUS
<1>4. ASSUME NEW a \in 0..2 PROVE g[a] = IF a = 0 THEN 1 ELSE g[a - 1] * shape[a]
  <2>1. a \in {0, 1, 2} /\ g[0] = 1 /\ g[1] = x /\ g[2] = x * y
    BY <1>3
  <2>2. 1 * x = x /\ 1 - 1 = 0 /\ 2 - 1 = 1
    OBVIOUS
  <2>3. QED
    BY <1>2, <2>1, <2>2
<1>5. Multiplied(g, shape, 2)
  BY <1>3, <1>4 DEF Multiplied
<1>6. Elements(shape) = (CHOOSE f : Multiplied(f, shape, 2))[2]
  BY <1>2 DEF Elements, Multiplied
<1>7. PICK h : h = CHOOSE f : Multiplied(f, shape, 2)
  OBVIOUS
<1>8. Multiplied(h, shape, 2)
  BY <1>5, <1>7
<1>9. h[0] = 1 /\ h[1] = h[0] * x /\ h[2] = h[1] * y
  BY <1>2, <1>8 DEF Multiplied
<1>10. QED
  BY <1>1, <1>6, <1>7, <1>9

LEMMA ElementsOfThree ==
  ASSUME NEW x \in Nat, NEW y \in Nat, NEW z \in Nat
  PROVE  Elements(<<x, y, z>>) = x * y * z
<1>1. PICK shape : shape = <<x, y, z>>
  OBVIOUS
<1>2. Len(shape) = 3 /\ shape[1] = x /\ shape[2] = y /\ shape[3] = z
  BY <1>1
<1>3. PICK xy \in Nat : xy = x * y
  OBVIOUS
<1>4. PICK g : g = [a \in 0..3 |-> IF a = 0 THEN 1 ELSE IF a = 1 THEN x ELSE IF a = 2 THEN xy ELSE xy * z]
  OBVIOUS
<1>5. ASSUME NEW a \in 0..3 PROVE g[a] = IF a = 0 THEN 1 ELSE g[a - 1] * shape[a]
  <2>1. a \in {0, 1, 2, 3} /\ g[0] = 1 /\ g[1] = x /\ g[2] = xy /\ g[3] = xy * z
    BY <1>4
  <2>2. 1 * x = x /\ 1 - 1 = 0 /\ 2 - 1 = 1 /\ 3 - 1 = 2
    OBVIOUS
  <2>3. QED
    BY <1>2, <1>3, <2>1, <2>2
<1>6. Multiplied(g, shape, 3)
  BY <1>4, <1>5 DEF Multiplied
<1>7. Elements(shape) = (CHOOSE f : Multiplied(f, shape, 3))[3]
  BY <1>2 DEF Elements, Multiplied
<1>8. PICK h : h = CHOOSE f : Multiplied(f, shape, 3)
  OBVIOUS
<1>9. Multiplied(h, shape, 3)
  BY <1>6, <1>8
<1>10. h[0] = 1 /\ h[1] = h[0] * x /\ h[2] = h[1] * y /\ h[3] = h[2] * z
  BY <1>2, <1>9 DEF Multiplied
<1>11. QED
  BY <1>1, <1>7, <1>8, <1>10

\* A tensor of values has the length of its shape and gives them back.
LEMMA RawTensorIs ==
  ASSUME NEW name \in Nat, NEW dtype \in {"U32", "F32"}, NEW shape \in Seq(Nat), NEW X, NEW values \in Seq(X),
         Elements(shape) = Len(values), NEW t, t = RawTensor(name, dtype, shape, values)
  PROVE  IsTensor(t) /\ ValidView(t) /\ Values(t) = values
<1>1. PICK n \in Nat : n = Len(values)
  OBVIOUS
<1>2. Dtypes[dtype].width = 2 /\ dtype \in DOMAIN Dtypes
  BY DEF Dtypes
<1>3. PICK d : d = [i \in 1..(n * 2) |-> [value |-> values[(i - 1) \div 2 + 1], byte |-> (i - 1) % 2]]
  OBVIOUS
<1>4. t = [name |-> name, dtype |-> dtype, shape |-> shape, data |-> d]
  BY <1>1, <1>2, <1>3 DEF RawTensor
<1>5. t.name = name /\ t.dtype = dtype /\ t.shape = shape /\ t.data = d
  BY <1>4
<1>6. d \in Seq(Range(d)) /\ Len(d) = n * 2
  <2>1. n * 2 \in Nat
    OBVIOUS
  <2>2. d \in [1..(n * 2) -> Range(d)]
    BY <1>3 DEF Range
  <2>3. QED
    BY <2>1, <2>2
<1>7. IsTensor(t)
  BY <1>2, <1>4, <1>5, <1>6 DEF IsTensor
<1>8. ValidView(t)
  BY <1>1, <1>2, <1>5, <1>6 DEF ValidView, DataLen
<1>9. Values(t) = [i \in 1..n |-> d[(i - 1) * 2 + 1].value]
  <2>1. (n * 2) \div 2 = n
    OBVIOUS
  <2>2. QED
    BY <1>2, <1>5, <1>6, <2>1 DEF Values
<1>10. ASSUME NEW i \in 1..n PROVE d[(i - 1) * 2 + 1].value = values[i]
  <2>1. (i - 1) * 2 + 1 \in 1..(n * 2) /\ ((i - 1) * 2 + 1 - 1) \div 2 + 1 = i
    OBVIOUS
  <2>2. QED
    BY <1>3, <2>1
<1>11. values = [i \in 1..n |-> values[i]]
  BY <1>1
<1>12. QED
  BY <1>7, <1>8, <1>9, <1>10, <1>11

\* Lists of one length, one after the other: where each member is.
Flat(f, s, n) ==
  /\ Len(f) = Len(s) * n
  /\ \A i \in 1..Len(s), j \in 1..n : (i - 1) * n + j \in 1..Len(f) /\ f[(i - 1) * n + j] = s[i][j]

LEMMA Multiples ==
  ASSUME NEW n \in Nat, NEW i \in Nat, NEW m \in Nat, i <= m
  PROVE  i * n \in Nat /\ m * n \in Nat /\ i * n <= m * n /\ (i + 1) * n = i * n + n
<1>1. i * n \in Nat /\ m * n \in Nat /\ (i + 1) * n = i * n + n
  OBVIOUS
<1>2. PICK k \in Nat : m = i + k
  <2>1. m - i \in Nat /\ m = i + (m - i)
    OBVIOUS
  <2>2. QED
    BY <2>1
<1>3. (i + k) * n = i * n + k * n /\ k * n \in Nat
  OBVIOUS
<1>4. i * n <= m * n
  BY <1>1, <1>2, <1>3
<1>5. QED
  BY <1>1, <1>4

LEMMA FlatIs ==
  ASSUME NEW X, NEW s \in Seq(Seq(X)), NEW n \in Nat, \A i \in 1..Len(s) : Len(s[i]) = n,
         NEW f, f = FlattenSeq(s)
  PROVE  f \in Seq(X) /\ Flat(f, s, n)
<1>1. PICK m \in Nat : m = Len(s)
  OBVIOUS
<1>2. f = Body(s, m)
  <2>1. s = [i \in 1..m |-> s[i]]
    BY <1>1
  <2>2. QED
    BY <2>1 DEF Body
<1>3. \A i \in 1..m : s[i] \in Seq(X) /\ Len(s[i]) = n
  BY <1>1
<1> DEFINE Bad == {i \in 0..m : Len(Body(s, i)) # i * n}
<1>4. ASSUME Bad # {} PROVE FALSE
  <2>1. Bad \subseteq Nat
    OBVIOUS
  <2>2. PICK i \in Bad : \A k \in Bad : i <= k
    BY <1>4, <2>1, LeastNumber
  <2>3. i \in 0..m /\ Len(Body(s, i)) # i * n
    OBVIOUS
  <2>4. i # 0
    <3>1. Body(s, 0) = <<>> /\ 0 * n = 0
      BY BodyBegins
    <3>2. QED
      BY <2>3, <3>1
  <2>5. PICK k \in Nat : i = k + 1
    <3>1. i - 1 \in Nat /\ i = (i - 1) + 1
      BY <2>3, <2>4
    <3>2. QED
      BY <3>1
  <2>6. k \in 0..m /\ ~(i <= k) /\ i \in 1..m /\ k = i - 1
    BY <2>3, <2>5
  <2>7. Len(Body(s, k)) = k * n
    BY <2>2, <2>6
  <2>8. Len(Body(s, i)) = Len(Body(s, i - 1)) + Len(s[i])
    BY <1>1, <2>6, BodyGrows
  <2>9. (k + 1) * n = k * n + n
    BY Multiples
  <2>10. QED
    BY <1>3, <2>3, <2>5, <2>6, <2>7, <2>8, <2>9
<1>5. \A i \in 0..m : Len(Body(s, i)) = i * n
  BY <1>4
<1> HIDE DEF Bad
<1>6. Body(s, m) \in Seq(X) /\ Len(Body(s, m)) = m * n
  <2>1. m \in 0..Len(s) /\ m \in 0..m
    BY <1>1
  <2>2. QED
    BY <1>5, <2>1, BodyTyped
<1>7. ASSUME NEW i \in 1..m, NEW j \in 1..n
      PROVE  (i - 1) * n + j \in 1..(m * n) /\ Body(s, m)[(i - 1) * n + j] = s[i][j]
  <2>1. PICK k \in Nat : k = i - 1
    OBVIOUS
  <2>2. k + 1 = i /\ k \in 0..m /\ i \in 0..m /\ k + 1 <= m /\ i \in 1..Len(s) /\ i \in 0..Len(s) /\ m \in i..Len(s)
    BY <1>1, <2>1
  <2>3. k * n \in Nat /\ m * n \in Nat /\ (k + 1) * n <= m * n /\ (k + 1) * n = k * n + n
    <3>1. k * n \in Nat /\ (k + 1) * n = k * n + n
      BY Multiples
    <3>2. k + 1 \in Nat
      OBVIOUS
    <3>3. m * n \in Nat /\ (k + 1) * n <= m * n
      BY <2>2, <3>2, Multiples
    <3>4. QED
      BY <3>1, <3>3
  <2>4. Len(Body(s, k)) = k * n /\ Len(Body(s, i)) = k * n + n
    BY <1>5, <2>2, <2>3
  <2>5. PICK v, w : v = Body(s, i - 1) /\ w = Body(s, i)
    OBVIOUS
  <2>6. v \in Seq(X) /\ w = v \o s[i] /\ s[i] \in Seq(X) /\ Len(s[i]) = n
    BY <1>3, <2>2, <2>5, BodyGrows
  <2>7. Joined(w, v, s[i], X)
    BY <2>6, JoinOf
  <2>8. Len(v) = k * n /\ j \in 1..Len(s[i])
    BY <2>1, <2>4, <2>5, <2>6
  <2>9. w[k * n + j] = s[i][j]
    BY <2>7, <2>8 DEF Joined
  <2>10. Extends(s, i, m)
    BY <2>2, BodyExtends
  <2>11. k * n + j \in 1..Len(w) /\ k * n + j \in 1..(m * n)
    <3>1. ASSUME NEW a \in Nat, NEW b \in Nat, a + n <= b PROVE a + j \in 1..(a + n) /\ a + j \in 1..b
      BY <3>1
    <3>2. k * n + n <= m * n /\ Len(w) = k * n + n
      BY <2>3, <2>4, <2>5
    <3>3. QED
      BY <2>3, <3>1, <3>2
  <2>12. Body(s, m)[k * n + j] = w[k * n + j]
    BY <2>5, <2>10, <2>11 DEF Extends
  <2>13. QED
    BY <2>1, <2>9, <2>11, <2>12
<1>8. QED
  BY ZenonT(60), <1>1, <1>2, <1>6, <1>7 DEF Flat

\* What results of one size are made of.
Tokens(results) == UNION {Range(s) : s \in Range(results)}
Dark(results)   == UNION {Range(t.dark) : t \in Tokens(results)}

LEMMA ResultsAre ==
  ASSUME NEW results, AreResults(results), ~Ragged(results)
  PROVE  /\ results \in Seq(Seq(Tokens(results))) /\ FirstLen(results) \in Nat /\ TopK(results) \in Nat
         /\ \A i \in 1..Len(results) : Len(results[i]) = FirstLen(results)
         /\ \A t \in Tokens(results) : /\ t = [predicted |-> t.predicted, dark |-> t.dark]
                                       /\ t.dark \in Seq(Dark(results)) /\ Len(t.dark) = TopK(results)
         /\ \A entry \in Dark(results) : entry = <<entry[1], entry[2]>>
<1> DEFINE T == Tokens(results)
           D == Dark(results)
<1>1. results \in Seq(Range(results)) /\ \A s \in Range(results) : s \in Seq(Range(s))
  BY DEF AreResults
<1>2. \A s \in Range(results) : s \in Seq(T)
  <2>1. \A s \in Range(results) : Range(s) \subseteq T
    BY DEF Tokens
  <2>2. QED
    BY <1>1, <2>1
<1>3. results \in Seq(Seq(T))
  BY <1>1, <1>2
<1>4. \A s \in Range(results) : Len(s) = FirstLen(results) /\ \A t \in Range(s) : Len(t.dark) = TopK(results)
  BY DEF Ragged
<1>5. \A i \in 1..Len(results) : results[i] \in Range(results)
  BY <1>1
<1>6. \A i \in 1..Len(results) : Len(results[i]) = FirstLen(results)
  BY <1>4, <1>5
<1>7. ASSUME NEW t \in T
      PROVE  /\ t = [predicted |-> t.predicted, dark |-> t.dark]
             /\ t.dark \in Seq(D) /\ Len(t.dark) = TopK(results)
  <2>1. PICK s \in Range(results) : t \in Range(s)
    BY DEF Tokens
  <2>2. t = [predicted |-> t.predicted, dark |-> t.dark] /\ t.dark \in Seq(Range(t.dark))
    BY <2>1 DEF AreResults
  <2>3. Range(t.dark) \subseteq D
    BY DEF Dark
  <2>4. t.dark \in Seq(D)
    BY <2>2, <2>3
  <2>5. QED
    BY <1>4, <2>1, <2>2, <2>4
<1>8. ASSUME NEW entry \in D PROVE entry = <<entry[1], entry[2]>>
  <2>1. PICK t \in T : entry \in Range(t.dark)
    BY DEF Dark
  <2>2. PICK s \in Range(results) : t \in Range(s)
    BY DEF Tokens
  <2>3. QED
    BY <2>1, <2>2 DEF AreResults
<1>9. FirstLen(results) \in Nat /\ TopK(results) \in Nat
  <2>1. CASE results = <<>>
    BY <2>1 DEF FirstLen, TopK
  <2>2. CASE results # <<>>
    <3>1. 1 \in 1..Len(results) /\ results[1] \in Seq(T)
      BY <1>3, <2>2
    <3>2. FirstLen(results) = Len(results[1]) /\ FirstLen(results) \in Nat
      BY <2>2, <3>1 DEF FirstLen
    <3>3. CASE results[1] = <<>>
      BY <3>2, <3>3 DEF TopK
    <3>4. CASE results[1] # <<>>
      <4>1. results[1][1] \in T
        BY <3>1, <3>4
      <4>2. results[1][1].dark \in Seq(D)
        BY <1>7, <4>1
      <4>3. TopK(results) = Len(results[1][1].dark)
        BY <2>2, <3>4 DEF TopK
      <4>4. QED
        BY <3>2, <4>2, <4>3
    <3>5. QED
      BY <3>3, <3>4
  <2>3. QED
    BY <2>1, <2>2
<1>10. QED
  BY <1>3, <1>6, <1>7, <1>8, <1>9

\* The values of a dense bundle.
FlatTokens(results)  == FlattenSeq(results)
Darks(results)       == [i \in DOMAIN FlatTokens(results) |-> FlatTokens(results)[i].dark]
FlatEntries(results) == FlattenSeq(Darks(results))

LEMMA FlatResults ==
  ASSUME NEW results, AreResults(results), ~Ragged(results)
  PROVE  /\ FlatTokens(results) \in Seq(Tokens(results)) /\ Flat(FlatTokens(results), results, FirstLen(results))
         /\ FlatEntries(results) \in Seq(Dark(results))
         /\ Len(Darks(results)) = Len(FlatTokens(results))
         /\ Flat(FlatEntries(results), Darks(results), TopK(results))
<1>1. PICK tokens, darks : tokens = FlatTokens(results) /\ darks = Darks(results)
  OBVIOUS
<1>2. tokens \in Seq(Tokens(results)) /\ Flat(tokens, results, FirstLen(results))
  BY <1>1, ResultsAre, FlatIs DEF FlatTokens
<1>3. PICK n \in Nat : n = Len(tokens) /\ DOMAIN tokens = 1..n
  BY <1>2
<1>4. \A i \in 1..n : tokens[i] \in Tokens(results)
  BY <1>2, <1>3
<1>5. darks = [i \in 1..n |-> tokens[i].dark]
  BY <1>1, <1>3 DEF Darks
<1>6. \A i \in 1..n : tokens[i].dark \in Seq(Dark(results)) /\ Len(tokens[i].dark) = TopK(results)
  BY <1>4, ResultsAre
<1>7. darks \in [1..n -> Seq(Dark(results))]
  BY <1>5, <1>6
<1>8. darks \in Seq(Seq(Dark(results))) /\ Len(darks) = n /\ \A i \in 1..Len(darks) : Len(darks[i]) = TopK(results)
  BY <1>5, <1>6, <1>7
<1>9. TopK(results) \in Nat
  BY ResultsAre
<1>10. FlatEntries(results) = FlattenSeq(darks)
  BY <1>1 DEF FlatEntries
<1>11. FlatEntries(results) \in Seq(Dark(results)) /\ Flat(FlatEntries(results), darks, TopK(results))
  BY <1>8, <1>9, <1>10, FlatIs
<1>12. QED
  BY <1>1, <1>2, <1>3, <1>8, <1>11

Predicted(results)   == [i \in DOMAIN FlatTokens(results) |-> FlatTokens(results)[i].predicted]
Component(results, c) == [i \in DOMAIN FlatEntries(results) |-> FlatEntries(results)[i][c]]
DenseShape(results)  == <<Len(results), FirstLen(results)>>
DarkShape(results)   == <<Len(results), FirstLen(results), TopK(results)>>

\* The tensors of a dense bundle are as long as they say.
LEMMA DenseLengths ==
  ASSUME NEW results, AreResults(results), ~Ragged(results)
  PROVE  /\ \E X : Predicted(results) \in Seq(X)
         /\ Elements(DenseShape(results)) = Len(Predicted(results))
         /\ \A c \in {1, 2} : /\ \E X : Component(results, c) \in Seq(X)
                              /\ Elements(DarkShape(results)) = Len(Component(results, c))
         /\ DenseShape(results) \in Seq(Nat) /\ DarkShape(results) \in Seq(Nat)
<1>1. PICK tokens, entries, darks : /\ tokens = FlatTokens(results) /\ entries = FlatEntries(results)
                                    /\ darks = Darks(results)
  OBVIOUS
<1>2. PICK b, q, k : b = Len(results) /\ q = FirstLen(results) /\ k = TopK(results)
  OBVIOUS
<1>3. b \in Nat /\ q \in Nat /\ k \in Nat
  BY <1>2, ResultsAre
<1>4. /\ tokens \in Seq(Tokens(results)) /\ Len(tokens) = b * q
      /\ entries \in Seq(Dark(results)) /\ Len(darks) = Len(tokens) /\ Len(entries) = Len(darks) * k
  BY <1>1, <1>2, FlatResults DEF Flat
<1>5. DenseShape(results) = <<b, q>> /\ DarkShape(results) = <<b, q, k>>
  BY <1>2 DEF DenseShape, DarkShape
<1>6. Elements(<<b, q>>) = b * q /\ Elements(<<b, q, k>>) = b * q * k
  BY <1>3, ElementsOfTwo, ElementsOfThree
<1>7. PICK n \in Nat, m \in Nat : n = Len(tokens) /\ m = Len(entries) /\ DOMAIN tokens = 1..n /\ DOMAIN entries = 1..m
  BY <1>4
<1>8. Predicted(results) \in Seq({t.predicted : t \in Tokens(results)}) /\ Len(Predicted(results)) = n
  <2>1. Predicted(results) = [i \in 1..n |-> tokens[i].predicted]
    BY <1>1, <1>7 DEF Predicted
  <2>2. \A i \in 1..n : tokens[i] \in Tokens(results)
    BY <1>4, <1>7
  <2>3. Predicted(results) \in [1..n -> {t.predicted : t \in Tokens(results)}]
    BY <2>1, <2>2
  <2>4. QED
    BY <2>1, <2>3
<1>9. ASSUME NEW c \in {1, 2}
      PROVE  Component(results, c) \in Seq({e[c] : e \in Dark(results)}) /\ Len(Component(results, c)) = m
  <2>1. Component(results, c) = [i \in 1..m |-> entries[i][c]]
    BY <1>1, <1>7 DEF Component
  <2>2. \A i \in 1..m : entries[i] \in Dark(results)
    BY <1>4, <1>7
  <2>3. Component(results, c) \in [1..m -> {e[c] : e \in Dark(results)}]
    BY <2>1, <2>2
  <2>4. QED
    BY <2>1, <2>3
<1>10. <<b, q>> \in Seq(Nat) /\ <<b, q, k>> \in Seq(Nat)
  BY <1>3
<1>11. n = b * q /\ m = b * q * k
  BY <1>4, <1>7
<1>12. QED
  BY <1>5, <1>6, <1>8, <1>9, <1>10, <1>11

Dense(bundle, results) ==
  /\ bundle = <<bundle[1], bundle[2], bundle[3]>>
  /\ \A i \in 1..3 : IsTensor(bundle[i]) /\ ValidView(bundle[i])
  /\ bundle[1].name = Predictions /\ bundle[2].name = DarkTokenIds /\ bundle[3].name = DarkLogProbs
  /\ bundle[1].dtype = "U32" /\ bundle[2].dtype = "U32" /\ bundle[3].dtype = "F32"
  /\ bundle[1].shape = DenseShape(results) /\ bundle[2].shape = DarkShape(results)
  /\ bundle[3].shape = DarkShape(results)
  /\ Values(bundle[1]) = Predicted(results) /\ Values(bundle[2]) = Component(results, 1)
  /\ Values(bundle[3]) = Component(results, 2)

LEMMA BundleIsDense ==
  ASSUME NEW results, AreResults(results), ~Ragged(results), NEW bundle, bundle = DenseBundle(results)
  PROVE  Dense(bundle, results)
<1>1. PICK p, ids, probs : /\ p = Predicted(results) /\ ids = Component(results, 1) /\ probs = Component(results, 2)
  OBVIOUS
<1>2. PICK t1, t2, t3 : /\ t1 = RawTensor(Predictions, "U32", DenseShape(results), p)
                        /\ t2 = RawTensor(DarkTokenIds, "U32", DarkShape(results), ids)
                        /\ t3 = RawTensor(DarkLogProbs, "F32", DarkShape(results), probs)
  OBVIOUS
<1>3. bundle = <<t1, t2, t3>>
  BY <1>1, <1>2 DEF DenseBundle, DenseShape, DarkShape, Predicted, Component, FlatEntries, Darks, FlatTokens
<1>4. bundle[1] = t1 /\ bundle[2] = t2 /\ bundle[3] = t3
  BY <1>3
<1>5. /\ t1.name = Predictions /\ t1.dtype = "U32" /\ t1.shape = DenseShape(results)
      /\ t2.name = DarkTokenIds /\ t2.dtype = "U32" /\ t2.shape = DarkShape(results)
      /\ t3.name = DarkLogProbs /\ t3.dtype = "F32" /\ t3.shape = DarkShape(results)
  BY <1>2 DEF RawTensor
<1>6. Predictions \in Nat /\ DarkTokenIds \in Nat /\ DarkLogProbs \in Nat
  BY DEF Predictions, DarkTokenIds, DarkLogProbs
<1>7. DenseShape(results) \in Seq(Nat) /\ DarkShape(results) \in Seq(Nat)
  BY DenseLengths
<1>8. IsTensor(t1) /\ ValidView(t1) /\ Values(t1) = p
  <2>1. PICK X : p \in Seq(X)
    BY <1>1, DenseLengths
  <2>2. Elements(DenseShape(results)) = Len(p)
    BY <1>1, DenseLengths
  <2>3. QED
    BY <1>2, <1>6, <1>7, <2>1, <2>2, RawTensorIs
<1>9. IsTensor(t2) /\ ValidView(t2) /\ Values(t2) = ids
  <2>1. PICK X : ids \in Seq(X)
    BY <1>1, DenseLengths
  <2>2. Elements(DarkShape(results)) = Len(ids)
    BY <1>1, DenseLengths
  <2>3. QED
    BY <1>2, <1>6, <1>7, <2>1, <2>2, RawTensorIs
<1>10. IsTensor(t3) /\ ValidView(t3) /\ Values(t3) = probs
  <2>1. PICK X : probs \in Seq(X)
    BY <1>1, DenseLengths
  <2>2. Elements(DarkShape(results)) = Len(probs)
    BY <1>1, DenseLengths
  <2>3. QED
    BY <1>2, <1>6, <1>7, <2>1, <2>2, RawTensorIs
<1>11. \A i \in 1..3 : IsTensor(bundle[i]) /\ ValidView(bundle[i])
  <2>1. \A i \in 1..3 : i = 1 \/ i = 2 \/ i = 3
    OBVIOUS
  <2>2. QED
    BY <1>4, <1>8, <1>9, <1>10, <2>1
<1>12. QED
  BY <1>1, <1>3, <1>4, <1>5, <1>8, <1>9, <1>10, <1>11 DEF Dense

\* The token at a position of three such lists of values, and all of them.
TokenAt(values, ids, probs, k, x) ==
  [predicted |-> values[x], dark |-> [c \in 1..k |-> <<ids[(x - 1) * k + c], probs[(x - 1) * k + c]>>]]
ResultsOf(values, ids, probs, b, q, k) ==
  [i \in 1..b |-> [j \in 1..q |-> TokenAt(values, ids, probs, k, (i - 1) * q + j)]]

LEMMA TokenIs ==
  ASSUME NEW results, AreResults(results), ~Ragged(results),
         NEW values, values = Predicted(results), NEW ids, ids = Component(results, 1),
         NEW probs, probs = Component(results, 2), NEW k, k = TopK(results),
         NEW x \in 1..Len(FlatTokens(results))
  PROVE  TokenAt(values, ids, probs, k, x) = FlatTokens(results)[x]
<1>1. PICK tokens, entries, darks : /\ tokens = FlatTokens(results) /\ entries = FlatEntries(results)
                                    /\ darks = Darks(results)
  OBVIOUS
<1>2. PICK t : t = tokens[x]
  OBVIOUS
<1>3. PICK n : n = Len(tokens)
  OBVIOUS
<1>4. tokens \in Seq(Tokens(results)) /\ n \in Nat /\ DOMAIN tokens = 1..n /\ x \in 1..n /\ x \in DOMAIN tokens
  BY <1>1, <1>3, FlatResults
<1>5. t \in Tokens(results)
  BY <1>2, <1>4
<1>6. t = [predicted |-> t.predicted, dark |-> t.dark] /\ t.dark \in Seq(Dark(results)) /\ Len(t.dark) = k
  BY <1>5, ResultsAre
<1>7. k \in Nat /\ \A entry \in Dark(results) : entry = <<entry[1], entry[2]>>
  BY ResultsAre
<1>8. values[x] = t.predicted
  BY <1>1, <1>2, <1>4 DEF Predicted
<1>9. darks[x] = t.dark
  BY <1>1, <1>2, <1>4 DEF Darks
<1>10. Flat(entries, darks, k) /\ Len(darks) = n /\ entries \in Seq(Dark(results))
  BY <1>1, <1>3, FlatResults
<1>11. ASSUME NEW c \in 1..k
       PROVE  <<ids[(x - 1) * k + c], probs[(x - 1) * k + c]>> = t.dark[c]
  <2>1. PICK y : y = (x - 1) * k + c
    OBVIOUS
  <2>2. y \in 1..Len(entries) /\ entries[y] = t.dark[c]
    BY <1>4, <1>9, <1>10, <2>1 DEF Flat
  <2>3. y \in DOMAIN entries
    BY <1>10, <2>2
  <2>4. ids[y] = entries[y][1] /\ probs[y] = entries[y][2]
    BY <1>1, <2>3 DEF Component
  <2>5. t.dark[c] = <<t.dark[c][1], t.dark[c][2]>>
    BY <1>6, <1>7
  <2>6. QED
    BY <2>1, <2>2, <2>4, <2>5
<1>12. t.dark = [c \in 1..k |-> t.dark[c]]
  BY <1>6
<1>13. t.dark = [c \in 1..k |-> <<ids[(x - 1) * k + c], probs[(x - 1) * k + c]>>]
  BY <1>11, <1>12
<1>14. QED
  BY <1>1, <1>2, <1>6, <1>8, <1>13 DEF TokenAt

\* A dense bundle gives back the results it was made of.
LEMMA DenseDecodes ==
  ASSUME NEW results, AreResults(results), ~Ragged(results), NEW bundle, Dense(bundle, results)
  PROVE  DenseResults(bundle) = results
<1>1. PICK values, ids, probs : /\ values = Predicted(results) /\ ids = Component(results, 1)
                                /\ probs = Component(results, 2)
  OBVIOUS
<1>2. PICK b, q, k : b = Len(results) /\ q = FirstLen(results) /\ k = TopK(results)
  OBVIOUS
<1>3. /\ results \in Seq(Seq(Tokens(results))) /\ b \in Nat /\ q \in Nat /\ k \in Nat
      /\ \A i \in 1..b : results[i] \in Seq(Tokens(results)) /\ Len(results[i]) = q
  BY <1>2, ResultsAre
<1>4. /\ bundle[1].shape[1] = b /\ bundle[1].shape[2] = q /\ bundle[2].shape[3] = k
      /\ Values(bundle[1]) = values /\ Values(bundle[2]) = ids /\ Values(bundle[3]) = probs
  BY <1>1, <1>2 DEF Dense, DenseShape, DarkShape
<1>5. DenseResults(bundle) = ResultsOf(values, ids, probs, b, q, k)
  BY <1>4 DEF DenseResults, ResultsOf, TokenAt
<1>6. ASSUME NEW i \in 1..b, NEW j \in 1..q
      PROVE  TokenAt(values, ids, probs, k, (i - 1) * q + j) = results[i][j]
  <2>1. PICK x : x = (i - 1) * q + j
    OBVIOUS
  <2>2. x \in 1..Len(FlatTokens(results)) /\ FlatTokens(results)[x] = results[i][j]
    BY SMTT(40), <1>2, <2>1, FlatResults DEF Flat
  <2>3. TokenAt(values, ids, probs, k, x) = FlatTokens(results)[x]
    BY <1>1, <1>2, <2>2, TokenIs
  <2>4. QED
    BY <2>1, <2>2, <2>3
<1>7. ASSUME NEW i \in 1..b
      PROVE  [j \in 1..q |-> TokenAt(values, ids, probs, k, (i - 1) * q + j)] = results[i]
  <2>1. results[i] = [j \in 1..q |-> results[i][j]]
    BY <1>3
  <2>2. QED
    BY <1>6, <2>1
<1>8. results = [i \in 1..b |-> results[i]]
  BY <1>2, <1>3
<1>9. ResultsOf(values, ids, probs, b, q, k) = results
  BY <1>7, <1>8 DEF ResultsOf
<1>10. QED
  BY <1>5, <1>9

\* A type-level shape of n dynamic dimensions.
Dynamic(shape, n) == shape \in [1..n -> {0}]
DynamicPort(port, name, n, dtypes) ==
  /\ port.name = name /\ port.dtypes = dtypes /\ Len(port.dims) = n
  /\ \A a \in DOMAIN port.dims : port.dims[a].rule = "dynamic"

LEMMA PortIs ==
  ASSUME NEW name, NEW shape, NEW n \in Nat, Dynamic(shape, n), NEW dtypes,
         NEW port, port = PortDescriptor(name, shape, dtypes)
  PROVE  DynamicPort(port, name, n, dtypes)
<1>1. PICK d : d = [a \in 1..n |-> DimensionDescriptor(shape[a])]
  OBVIOUS
<1>2. DOMAIN shape = 1..n /\ \A a \in 1..n : shape[a] = 0
  BY DEF Dynamic
<1>3. port = [name |-> name, dtypes |-> dtypes, dims |-> d]
  BY <1>1, <1>2 DEF PortDescriptor
<1>4. \A a \in DOMAIN d : d[a].rule = "dynamic"
  BY <1>1, <1>2 DEF DimensionDescriptor
<1>5. Len(d) = n
  <2>1. d \in [1..n -> {d[c] : c \in 1..n}]
    BY <1>1
  <2>2. PICK X : d \in [1..n -> X]
    BY <2>1
  <2>3. QED
    BY <2>2
<1>6. QED
  BY <1>3, <1>4, <1>5 DEF DynamicPort

LEMMA QwenPortsAre ==
  /\ QwenPorts = <<QwenPorts[1], QwenPorts[2], QwenPorts[3]>>
  /\ DOMAIN QwenPorts = 1..3 /\ Range(QwenPorts) = {QwenPorts[1], QwenPorts[2], QwenPorts[3]}
  /\ QwenPorts[1].name = Predictions /\ QwenPorts[2].name = DarkTokenIds /\ QwenPorts[3].name = DarkLogProbs
  /\ QwenPorts[1].dtypes = {"U32"} /\ QwenPorts[2].dtypes = {"U32"} /\ QwenPorts[3].dtypes = {"F32"}
  /\ Len(QwenPorts[1].dims) = 2 /\ Len(QwenPorts[2].dims) = 3 /\ Len(QwenPorts[3].dims) = 3
  /\ \A i \in 1..3 : \A a \in DOMAIN QwenPorts[i].dims : QwenPorts[i].dims[a].rule = "dynamic"
<1>1. PICK s, w, u, f : s = <<0, 0>> /\ w = <<0, 0, 0>> /\ u = {"U32"} /\ f = {"F32"}
  OBVIOUS
<1>2. PICK p1, p2, p3 : /\ p1 = PortDescriptor(Predictions, s, u)
                        /\ p2 = PortDescriptor(DarkTokenIds, w, u)
                        /\ p3 = PortDescriptor(DarkLogProbs, w, f)
  OBVIOUS
<1>3. QwenPorts = <<p1, p2, p3>>
  BY <1>1, <1>2 DEF QwenPorts
<1>4. Dynamic(s, 2) /\ Dynamic(w, 3) /\ 2 \in Nat /\ 3 \in Nat
  BY <1>1 DEF Dynamic
<1>5. DynamicPort(p1, Predictions, 2, u)
  BY <1>2, <1>4, PortIs
<1>6. DynamicPort(p2, DarkTokenIds, 3, u)
  BY <1>2, <1>4, PortIs
<1>7. DynamicPort(p3, DarkLogProbs, 3, f)
  BY <1>2, <1>4, PortIs
<1>8. DOMAIN QwenPorts = 1..3 /\ QwenPorts[1] = p1 /\ QwenPorts[2] = p2 /\ QwenPorts[3] = p3
  BY <1>3
<1>9. \A i \in 1..3 : i = 1 \/ i = 2 \/ i = 3
  OBVIOUS
<1>10. 1 \in 1..3 /\ 2 \in 1..3 /\ 3 \in 1..3
  OBVIOUS
<1>11. Range(QwenPorts) = {p1, p2, p3}
  BY <1>8, <1>9, <1>10 DEF Range
<1>12. QED
  BY SMTT(40), <1>1, <1>3, <1>5, <1>6, <1>7, <1>8, <1>9, <1>11 DEF DynamicPort

LEMMA DenseIsAnswerable ==
  ASSUME NEW results, AreResults(results), ~Ragged(results), NEW bundle, Dense(bundle, results),
         NEW limit, NEW metadata, metadata = <<limit>>
  PROVE  Answerable(QwenDarkInference, "output", bundle, metadata)
<1>1. PICK t1, t2, t3 : t1 = bundle[1] /\ t2 = bundle[2] /\ t3 = bundle[3]
  OBVIOUS
<1>2. bundle = <<t1, t2, t3>>
  BY <1>1 DEF Dense
<1>3. DOMAIN bundle = 1..3 /\ bundle[1] = t1 /\ bundle[2] = t2 /\ bundle[3] = t3
  BY <1>2
<1>4. \A i \in 1..3 : i = 1 \/ i = 2 \/ i = 3
  OBVIOUS
<1>5. 1 \in 1..3 /\ 2 \in 1..3 /\ 3 \in 1..3
  OBVIOUS
<1>6. Range(bundle) = {t1, t2, t3}
  BY <1>3, <1>4, <1>5 DEF Range
<1>7. bundle \in Seq(Range(bundle)) /\ metadata \in Seq(Range(metadata))
  <2>1. bundle \in Seq({t1, t2, t3})
    BY <1>2
  <2>2. metadata \in Seq({limit})
    OBVIOUS
  <2>3. Range(metadata) = {limit}
    BY DEF Range
  <2>4. QED
    BY <1>6, <2>1, <2>2, <2>3
<1>8. \A t \in Range(bundle) : IsTensor(t) /\ ValidView(t)
  BY <1>1, <1>5, <1>6 DEF Dense
<1>9. /\ t1.name = 3 /\ t2.name = 2 /\ t3.name = 1
      /\ t1.dtype = "U32" /\ t2.dtype = "U32" /\ t3.dtype = "F32"
      /\ Len(t1.shape) = 2 /\ Len(t2.shape) = 3 /\ Len(t3.shape) = 3
  BY <1>1 DEF Dense, DenseShape, DarkShape, Predictions, DarkTokenIds, DarkLogProbs
<1>10. PICK p1, p2, p3 : p1 = QwenPorts[1] /\ p2 = QwenPorts[2] /\ p3 = QwenPorts[3]
  OBVIOUS
<1>11. DOMAIN QwenPorts = 1..3 /\ Range(QwenPorts) = {p1, p2, p3}
  BY <1>10, QwenPortsAre
<1>12. /\ p1.name = 3 /\ p2.name = 2 /\ p3.name = 1
       /\ p1.dtypes = {"U32"} /\ p2.dtypes = {"U32"} /\ p3.dtypes = {"F32"}
  BY <1>10, QwenPortsAre DEF Predictions, DarkTokenIds, DarkLogProbs
<1>13. /\ Len(p1.dims) = 2 /\ Len(p2.dims) = 3 /\ Len(p3.dims) = 3
       /\ \A p \in {p1, p2, p3} : \A a \in DOMAIN p.dims : p.dims[a].rule = "dynamic"
  BY <1>5, <1>10, QwenPortsAre
<1>14. ValidSchema(QwenPorts)
  BY <1>4, <1>10, <1>11, <1>12 DEF ValidSchema
<1>15. \A i, j \in DOMAIN bundle : bundle[i].name = bundle[j].name => i = j
  BY <1>3, <1>4, <1>9
<1>16. {t.name : t \in Range(bundle)} = {p.name : p \in Range(QwenPorts)}
  BY <1>6, <1>9, <1>11, <1>12
<1>17. Named(bundle, 3) = t1 /\ Named(bundle, 2) = t2 /\ Named(bundle, 1) = t3
  BY <1>6, <1>9 DEF Named
<1>18. FitsPort(t1, p1) /\ FitsPort(t2, p2) /\ FitsPort(t3, p3)
  BY <1>9, <1>12, <1>13 DEF FitsPort
<1>19. \A p \in Range(QwenPorts) : FitsPort(Named(bundle, p.name), p)
  BY <1>11, <1>12, <1>17, <1>18
<1>20. \A p, q \in Range(QwenPorts) : \A a \in DOMAIN p.dims, b \in DOMAIN q.dims :
         p.dims[a].rule = "symbolic" /\ q.dims[b] = p.dims[a]
           => Named(bundle, p.name).shape[a] = Named(bundle, q.name).shape[b]
  BY <1>11, <1>13
<1>21. ValidPorts(QwenPorts, bundle)
  BY <1>14, <1>15, <1>16, <1>19, <1>20 DEF ValidPorts, ValidTensors
<1>22. QwenDarkInference["output"] = QwenPorts
  BY DEF QwenDarkInference, ContractDescriptor
<1>23. QED
  BY <1>7, <1>8, <1>21, <1>22 DEF Answerable, Encodable

-----------------------------------------------------------------------------
(* What is published                                                       *)

\* What a request may publish, and what its reader gets of it.
Ready(q) ==
  /\ Answerable(q.contract, "output", q.tensors, q.metadata)
  /\ q.results # None => /\ q.contract = QwenDarkInference /\ AreResults(q.results) /\ ~Ragged(q.results)
                         /\ q.tensors = DenseBundle(q.results)

Readable(p) ==
  LET t == p.ticket
      decoded == DecodeFrame(t.contract, "output", p.data)
  IN  /\ ValidArtifact(t.contract, "output", p.data)
      /\ Range(decoded.tensors) = Range(p.tensors) /\ decoded.metadata = p.metadata
      /\ \A i \in DOMAIN decoded.tensors : decoded.tensors[i].name = t.contract.output[i].name
      /\ ValidTicket(t) = ~HeaderTies(t.header)
      /\ p.results # None => DenseResults(decoded.tensors) = p.results

\* The tensors of the ports are the tensors.
LEMMA NamedAll ==
  ASSUME NEW tensors, NEW ports, ValidTensors(ports, tensors),
         NEW l, l = [p \in DOMAIN ports |-> Named(tensors, ports[p].name)]
  PROVE  Range(l) = Range(tensors) /\ \A i \in DOMAIN l : l[i].name = ports[i].name
<1>1. \A a, b \in Range(tensors) : a.name = b.name => a = b
  <2>1. \A i, j \in DOMAIN tensors : tensors[i].name = tensors[j].name => i = j
    BY DEF ValidTensors
  <2>2. QED
    BY <2>1 DEF Range
<1>2. {t.name : t \in Range(tensors)} = {p.name : p \in Range(ports)}
  BY DEF ValidTensors
<1>3. ASSUME NEW i \in DOMAIN ports
      PROVE  l[i] \in Range(tensors) /\ l[i].name = ports[i].name
  <2>1. ports[i] \in Range(ports)
    BY DEF Range
  <2>2. PICK t \in Range(tensors) : t.name = ports[i].name
    BY <1>2, <2>1
  <2>3. Named(tensors, t.name) = t
    BY <1>1, <2>2, NamedIs
  <2>4. QED
    BY <2>2, <2>3
<1>4. ASSUME NEW t \in Range(tensors) PROVE t \in Range(l)
  <2>1. PICK p \in Range(ports) : p.name = t.name
    BY <1>2
  <2>2. PICK i \in DOMAIN ports : ports[i] = p
    BY <2>1 DEF Range
  <2>3. l[i] = t
    BY <1>1, <1>3, <2>1, <2>2
  <2>4. QED
    BY <2>2, <2>3 DEF Range
<1>5. DOMAIN l = DOMAIN ports
  OBVIOUS
<1>6. QED
  BY <1>3, <1>4, <1>5 DEF Range

\* The ports of Qwen name the tensors of a dense bundle in their order.
LEMMA NamedDense ==
  ASSUME NEW results, NEW bundle, Dense(bundle, results), ValidTensors(QwenPorts, bundle),
         NEW l, l = [p \in DOMAIN QwenPorts |-> Named(bundle, QwenPorts[p].name)]
  PROVE  l = bundle
<1>1. DOMAIN QwenPorts = 1..3 /\ \A p \in 1..3 : QwenPorts[p].name = bundle[p].name
  <2>1. \A p \in 1..3 : p = 1 \/ p = 2 \/ p = 3
    OBVIOUS
  <2>2. QED
    BY <2>1, QwenPortsAre DEF Dense
<1>2. bundle = [p \in 1..3 |-> bundle[p]]
  <2>1. PICK a, b, c : a = bundle[1] /\ b = bundle[2] /\ c = bundle[3]
    OBVIOUS
  <2>2. bundle = <<a, b, c>>
    BY <2>1 DEF Dense
  <2>3. QED
    BY <2>2
<1>3. \A a, b \in Range(bundle) : a.name = b.name => a = b
  <2>1. \A i, j \in DOMAIN bundle : bundle[i].name = bundle[j].name => i = j
    BY DEF ValidTensors
  <2>2. QED
    BY <2>1 DEF Range
<1>4. ASSUME NEW p \in 1..3 PROVE Named(bundle, bundle[p].name) = bundle[p]
  <2>1. bundle[p] \in Range(bundle)
    BY <1>2 DEF Range
  <2>2. QED
    BY <1>3, <2>1, NamedIs
<1>5. l = [p \in 1..3 |-> bundle[p]]
  BY <1>1, <1>4
<1>6. QED
  BY <1>2, <1>5

\* The ticket of an encoded frame is one receivers accept, but for ties.
LEMMA TicketIsAccepted ==
  ASSUME NEW contract, NEW tensors, NEW metadata, NEW order, NEW bytes, NEW data,
         Answerable(contract, "output", tensors, metadata),
         Encoded(contract, "output", tensors, metadata, order, bytes, data),
         NEW t, t.contract = contract, t.envelope = data[2], t.header = TensorStreamHeader(data), t.len = Len(data)
  PROVE  ValidTicket(t) = ~HeaderTies(t.header)
<1>1. PICK h, e : h = TensorStreamHeader(data) /\ e = Envelope(contract, "output", metadata, bytes)
  OBVIOUS
<1>2. Framed(data, e, metadata, bytes, SerializedCells(Range(tensors), order))
  BY <1>1 DEF Encoded
<1>3. data[2] = e
  BY <1>2 DEF Framed
<1>4. e.contract_id = contract.id /\ e.contract_version = contract.version /\ e.contract_hash = contract /\ e.side = "output"
  BY <1>1 DEF Envelope
<1>5. DeclaredLen(h) = Len(data)
  BY <1>1, EncodedHeader
<1>6. ValidStreamHeader(contract, "output", h) <=> ~HeaderTies(h)
  BY <1>1, EncodedIsAnnounced
<1>7. ValidTicket(t) <=> ~HeaderTies(h)
  BY <1>1, <1>3, <1>4, <1>5, <1>6 DEF ValidTicket
<1>8. ValidTicket(t) \in BOOLEAN /\ HeaderTies(h) \in BOOLEAN
  BY DEF ValidTicket, HeaderTies
<1>9. QED
  BY <1>1, <1>7, <1>8

LEMMA PublishedReads ==
  ASSUME NEW me, Ready(me), NEW data, data = EncodeFrame(me.contract, "output", me.tensors, me.metadata),
         NEW p, p.tensors = me.tensors, p.metadata = me.metadata, p.results = me.results, p.data = data,
         NEW t, p.ticket = t, t.contract = me.contract, t.envelope = data[2], t.header = TensorStreamHeader(data),
         t.len = Len(data)
  PROVE  Readable(p)
<1>1. PICK contract, tensors, metadata, results :
        contract = me.contract /\ tensors = me.tensors /\ metadata = me.metadata /\ results = me.results
  OBVIOUS
<1>2. PICK order, bytes : order = Sorted(Range(tensors), DtypeBefore) /\ bytes = Serialized(tensors)
  OBVIOUS
<1>3. Answerable(contract, "output", tensors, metadata)
  BY <1>1 DEF Ready
<1>4. Encoded(contract, "output", tensors, metadata, order, bytes, data)
  BY <1>1, <1>2, <1>3, EncodedIs
<1>5. PICK ports : ports = contract["output"]
  OBVIOUS
<1>6. PICK decoded : decoded = DecodeFrame(contract, "output", data)
  OBVIOUS
<1>7. ValidArtifact(contract, "output", data)
  BY <1>3, <1>4, EncodedIsValid
<1>8. /\ decoded.metadata = metadata
      /\ decoded.tensors = [i \in DOMAIN ports |-> Named(tensors, ports[i].name)]
  BY <1>3, <1>4, <1>5, <1>6, EncodedDecodes
<1>9. ValidTensors(ports, tensors)
  BY <1>3, <1>5 DEF Answerable, Encodable, ValidPorts
<1>10. PICK l : l = decoded.tensors
  OBVIOUS
<1>11. Range(l) = Range(tensors) /\ \A i \in DOMAIN l : l[i].name = ports[i].name
  BY <1>8, <1>9, <1>10, NamedAll
<1>12. ValidTicket(t) = ~HeaderTies(t.header)
  BY <1>1, <1>3, <1>4, TicketIsAccepted
<1>13. ASSUME results # None PROVE DenseResults(l) = results
  <2>1. contract = QwenDarkInference /\ AreResults(results) /\ ~Ragged(results) /\ tensors = DenseBundle(results)
    BY <1>1, <1>13 DEF Ready
  <2>2. Dense(tensors, results)
    BY <2>1, BundleIsDense
  <2>3. ports = QwenPorts
    BY <1>5, <2>1 DEF QwenDarkInference, ContractDescriptor
  <2>4. l = tensors
    BY <1>8, <1>9, <1>10, <2>2, <2>3, NamedDense
  <2>5. QED
    BY <2>1, <2>2, <2>4, DenseDecodes
<1>14. t.contract = contract /\ p.data = data /\ p.ticket = t
  BY <1>1
<1>15. DecodeFrame(p.ticket.contract, "output", p.data) = decoded
  BY <1>6, <1>14
<1>16. ValidArtifact(p.ticket.contract, "output", p.data)
  BY <1>7, <1>14
<1>17. Range(decoded.tensors) = Range(p.tensors) /\ decoded.metadata = p.metadata
  BY <1>1, <1>8, <1>10, <1>11
<1>18. \A i \in DOMAIN decoded.tensors : decoded.tensors[i].name = p.ticket.contract.output[i].name
  BY <1>5, <1>10, <1>11, <1>14
<1>19. p.results # None => DenseResults(decoded.tensors) = p.results
  BY <1>1, <1>10, <1>13
<1>20. ValidTicket(p.ticket) = ~HeaderTies(p.ticket.header)
  BY <1>12, <1>14
<1>21. QED
  BY <1>15, <1>16, <1>17, <1>18, <1>19, <1>20 DEF Readable

Offers(q) ==
  /\ q.at = "publish" => Ready(q)
  /\ q.at = "published" => Readable(q)

Outputs == \A r \in Requests : Offers(req[r])

LEMMA OutputsImply == Outputs => PublishedDecodes
BY DEF Outputs, Offers, Readable, PublishedDecodes

LEMMA OneOffers ==
  ASSUME Tables, Outputs, NEW r \in Requests, NEW q, req' = [req EXCEPT ![r] = q], Offers(q)
  PROVE  Outputs'
<1>1. req'[r] = q /\ \A s \in Requests \ {r} : req'[s] = req[s]
  BY DEF Tables
<1>2. ASSUME NEW s \in Requests PROVE Offers(req'[s])
  BY <1>1 DEF Outputs
<1>3. QED
  BY <1>2 DEF Outputs, Offers, Ready, Readable

AtOutput == {"publish", "published"}

LEMMA NoOffer ==
  ASSUME Tables, Outputs, NEW r \in Requests, NEW q, req' = [req EXCEPT ![r] = q], q.at \notin AtOutput
  PROVE  Outputs'
<1>1. Offers(q)
  BY DEF Offers, AtOutput
<1>2. QED
  BY <1>1, OneOffers

LEMMA Moves ==
  ASSUME Tables, Outputs, NEW r \in Requests, NEW at, at \notin AtOutput, req' = [req EXCEPT ![r].at = at]
  PROVE  Outputs'
<1> DEFINE q == [req[r] EXCEPT !.at = at]
<1>1. q.at = at
  BY DEF Tables, IsEntry
<1>2. req' = [req EXCEPT ![r] = q]
  OBVIOUS
<1> HIDE DEF q
<1>3. QED
  BY <1>1, <1>2, NoOffer

LEMMA OutputAnswered ==
  ASSUME Tables, Outputs, NEW r \in Requests, req' = [req EXCEPT ![r] = Idle]
  PROVE  Outputs'
<1>1. Idle.at \notin AtOutput
  BY DEF Idle, AtOutput
<1>2. QED
  BY <1>1, NoOffer

LEMMA FailedOutput ==
  ASSUME Tables, Outputs, NEW r \in Requests, StreamFails(r)
  PROVE  Outputs'
<1>1. PICK at \in {"refused", "fallback"} : req' = [req EXCEPT ![r].at = at]
  BY DEF StreamFails
<1>2. QED
  BY <1>1, Moves DEF AtOutput

LEMMA GotNoOutput ==
  ASSUME Tables, Outputs, NEW r \in Requests, NEW bytes, Got(r, bytes)
  PROVE  Outputs'
<1> DEFINE q == [at |-> "validate", id |-> req[r].id, instance |-> req[r].instance, bytes |-> bytes]
<1>1. req' = [req EXCEPT ![r] = q] /\ q.at = "validate"
  BY DEF Got
<1> HIDE DEF q
<1>2. QED
  BY <1>1, NoOffer DEF AtOutput

\* The input comes, or does not, before there is an output.
LEMMA InputKeepsOutputs ==
  ASSUME Tables, Outputs, NEW r \in Requests,
         \/ Download(r) \/ DownloadFails(r) \/ Fallback(r) \/ ValidateReceived(r)
         \/ ReceiveBegin(r) \/ ReceiveChunk(r) \/ ReceiveCommit(r) \/ StreamBreaks(r)
  PROVE  Outputs'
<1>1. CASE Download(r)
  <2> DEFINE q == [at |-> "stream", id |-> req[r].id, instance |-> req[r].instance,
                   input |-> req[r].input, begun |-> FALSE, next |-> 0, out |-> <<>>]
  <2>1. q.at = "stream"
    OBVIOUS
  <2>2. \/ req' = [req EXCEPT ![r] = q] \/ Got(r, req[r].input.stored)
        \/ req' = [req EXCEPT ![r].at = "fallback"]
    BY <1>1 DEF Download
  <2> HIDE DEF q
  <2>3. q.at \notin AtOutput /\ "fallback" \notin AtOutput
    BY <2>1 DEF AtOutput
  <2>4. QED
    BY <2>2, <2>3, NoOffer, GotNoOutput, Moves
<1>2. CASE DownloadFails(r)
  <2>1. req' = [req EXCEPT ![r].at = "fallback"] \/ req' = [req EXCEPT ![r] = Idle]
    BY <1>2 DEF DownloadFails
  <2>2. "fallback" \notin AtOutput
    BY DEF AtOutput
  <2>3. QED
    BY <2>1, <2>2, Moves, OutputAnswered
<1>3. CASE Fallback(r)
  BY <1>3, GotNoOutput, OutputAnswered DEF Fallback
<1>4. CASE ValidateReceived(r)
  BY <1>4, GotNoOutput, FailedOutput DEF ValidateReceived
<1>5. CASE ReceiveBegin(r)
  <2> DEFINE q == [req[r] EXCEPT !.begun = TRUE]
  <2>1. q.at = "stream"
    BY <1>5 DEF ReceiveBegin, Receives, Tables, IsEntry
  <2>2. req' = [req EXCEPT ![r] = q] \/ StreamFails(r)
    BY <1>5 DEF ReceiveBegin
  <2> HIDE DEF q
  <2>3. QED
    BY <2>1, <2>2, NoOffer, FailedOutput DEF AtOutput
<1>6. CASE ReceiveChunk(r)
  <2> DEFINE me == req[r]
             live == me.input.live
             end == IF Len(me.out) + ChunkLen < Len(live) THEN Len(me.out) + ChunkLen ELSE Len(live)
             data == SubSeq(live, Len(me.out) + 1, end)
             q == [me EXCEPT !.next = @ + 1, !.out = @ \o data]
  <2>1. me.at = "stream" /\ IsEntry(me)
    BY <1>6 DEF ReceiveChunk, Receives, Tables
  <2>2. q.at = "stream"
    BY <2>1 DEF IsEntry
  <2>3. req' = [req EXCEPT ![r] = q] \/ StreamFails(r)
    BY <1>6 DEF ReceiveChunk
  <2> HIDE DEF q
  <2>4. QED
    BY <2>2, <2>3, NoOffer, FailedOutput DEF AtOutput
<1>7. CASE ReceiveCommit(r)
  <2>1. req' = [req EXCEPT ![r].at = "received"] \/ StreamFails(r)
    BY <1>7 DEF ReceiveCommit
  <2>2. "received" \notin AtOutput
    BY DEF AtOutput
  <2>3. QED
    BY <2>1, <2>2, Moves, FailedOutput
<1>8. CASE StreamBreaks(r)
  BY <1>8, FailedOutput DEF StreamBreaks
<1>9. QED
  BY <1>1, <1>2, <1>3, <1>4, <1>5, <1>6, <1>7, <1>8

\* What an operation, or the engine, answers is ready to be published.
LEMMA AnswersAreReady ==
  ASSUME Tables, Outputs, NEW r \in Requests, RunsForward(r) \/ QwenForward(r)
  PROVE  Outputs'
<1>1. CASE req' = [req EXCEPT ![r] = Idle]
  BY <1>1, OutputAnswered
<1>2. ASSUME NEW contract, NEW bundle, NEW results, Publishes(r, contract, bundle, results),
             Answerable(contract, "output", bundle.tensors, bundle.metadata),
             results # None => /\ contract = QwenDarkInference /\ AreResults(results) /\ ~Ragged(results)
                               /\ bundle.tensors = DenseBundle(results)
      PROVE  Outputs'
  <2> DEFINE q == [at |-> "publish", contract |-> contract, tensors |-> bundle.tensors,
                   metadata |-> bundle.metadata, results |-> results]
  <2>1. req' = [req EXCEPT ![r] = q]
    BY <1>2 DEF Publishes
  <2>2. /\ q.at = "publish" /\ q.contract = contract /\ q.tensors = bundle.tensors /\ q.metadata = bundle.metadata
        /\ q.results = results
    OBVIOUS
  <2> HIDE DEF q
  <2>3. Ready(q)
    BY <1>2, <2>2 DEF Ready
  <2>4. Offers(q)
    BY <2>2, <2>3 DEF Offers
  <2>5. QED
    BY <2>1, <2>4, OneOffers
<1>3. ASSUME NEW bundle \in Bundles, NEW contract, Encodable(contract, "output", bundle.tensors),
             Publishes(r, contract, bundle, None)
      PROVE  Outputs'
  <2>1. IsBundle(bundle)
    BY AnswersAssumption
  <2>2. Answerable(contract, "output", bundle.tensors, bundle.metadata)
    BY <1>3, <2>1 DEF Answerable, IsBundle
  <2>3. QED
    BY <1>2, <1>3, <2>2
<1>4. ASSUME NEW results \in Results, ~Ragged(results),
             Publishes(r, QwenDarkInference, QwenBundle(results), results)
      PROVE  Outputs'
  <2>1. AreResults(results)
    BY AnswersAssumption
  <2>2. PICK limit : limit = [limit |-> "none"]
    OBVIOUS
  <2>3. PICK bundle : bundle = QwenBundle(results)
    OBVIOUS
  <2>4. bundle.tensors = DenseBundle(results) /\ bundle.metadata = <<limit>>
    BY <2>2, <2>3 DEF QwenBundle
  <2>5. Dense(bundle.tensors, results)
    BY <1>4, <2>1, <2>4, BundleIsDense
  <2>6. Answerable(QwenDarkInference, "output", bundle.tensors, bundle.metadata)
    BY <1>4, <2>1, <2>4, <2>5, DenseIsAnswerable
  <2>7. QED
    BY <1>2, <1>4, <2>1, <2>3, <2>4, <2>6
<1>5. CASE RunsForward(r)
  BY <1>1, <1>3, <1>5 DEF RunsForward
<1>6. CASE QwenForward(r)
  BY <1>1, <1>4, <1>6 DEF QwenForward
<1>7. QED
  BY <1>5, <1>6

LEMMA PublishArtifactReads ==
  ASSUME Tables, Outputs, NEW r \in Requests, PublishArtifact(r)
  PROVE  Outputs'
<1>1. PICK me : me = req[r]
  OBVIOUS
<1>2. PICK data : data = EncodeFrame(me.contract, "output", me.tensors, me.metadata)
  OBVIOUS
<1>3. PICK t : t = [contract |-> me.contract, envelope |-> data[2], header |-> TensorStreamHeader(data),
                    len |-> Len(data), hash |-> data]
  OBVIOUS
<1>4. PICK p : p = [at |-> "published", tensors |-> me.tensors, metadata |-> me.metadata, results |-> me.results,
                    data |-> data, ticket |-> t]
  OBVIOUS
<1>5. me.at = "publish" /\ req' = [req EXCEPT ![r] = p]
  BY <1>1, <1>2, <1>3, <1>4 DEF PublishArtifact
<1>6. Ready(me)
  BY <1>1, <1>5 DEF Outputs, Offers
<1>7. /\ p.at = "published" /\ p.tensors = me.tensors /\ p.metadata = me.metadata /\ p.results = me.results
      /\ p.data = data /\ p.ticket = t
  BY <1>4
<1>8. t.contract = me.contract /\ t.envelope = data[2] /\ t.header = TensorStreamHeader(data) /\ t.len = Len(data)
  BY <1>3
<1>9. Readable(p)
  BY <1>2, <1>6, <1>7, <1>8, PublishedReads
<1>10. Offers(p)
  BY <1>7, <1>9 DEF Offers
<1>11. QED
  BY <1>5, <1>10, OneOffers

LEMMA EnterKeepsOutputs ==
  ASSUME Tables, Outputs, NEW r \in Requests, NEW i, NEW op, NEW at, NEW input, Enter(r, i, op, at, input),
         at \notin AtOutput
  PROVE  Outputs'
<1> DEFINE q == [at |-> at, id |-> i, instance |-> hosted[i], input |-> input]
<1>1. req' = [req EXCEPT ![r] = q] /\ q.at = at
  BY DEF Enter
<1> HIDE DEF q
<1>2. QED
  BY <1>1, NoOffer

LEMMA CallsKeepOutputs ==
  ASSUME Tables, Outputs, NEW r \in Requests, Calls(r)
  PROVE  Outputs'
<1>1. PICK i \in Ids :
        \/ \E c \in Wanted : StartBegins(r, i, c)
        \/ ShutdownBegins(r, i) \/ Forward(r, i) \/ PerturbUp(r, i) \/ PerturbDown(r, i) \/ Optimize(r, i)
        \/ OtherOperations(r, i)
  BY DEF Calls
<1>2. ASSUME NEW c \in Wanted, StartBegins(r, i, c) PROVE Outputs'
  <2> DEFINE q == [at |-> "start", id |-> i, capability |-> c]
  <2>1. req' = [req EXCEPT ![r] = q] /\ q.at = "start"
    BY <1>2 DEF StartBegins
  <2> HIDE DEF q
  <2>2. QED
    BY <2>1, NoOffer DEF AtOutput
<1>3. CASE ShutdownBegins(r, i)
  <2> DEFINE q == [at |-> "stop", id |-> i, instance |-> hosted[i]]
  <2>1. req' = [req EXCEPT ![r] = q] /\ q.at = "stop"
    BY <1>3 DEF ShutdownBegins
  <2> HIDE DEF q
  <2>2. QED
    BY <2>1, NoOffer DEF AtOutput
<1>4. \A at \in {"download", "up", "down", "optimize", "other"} : at \notin AtOutput
  BY DEF AtOutput
<1>5. CASE \/ Forward(r, i) \/ PerturbUp(r, i) \/ PerturbDown(r, i) \/ Optimize(r, i)
           \/ OtherOperations(r, i)
  <2>1. PICK at \in {"download", "up", "down", "optimize", "other"} : \E op, input : Enter(r, i, op, at, input)
    BY <1>5 DEF Forward, PerturbUp, PerturbDown, Optimize, OtherOperations
  <2>2. QED
    BY <1>4, <2>1, EnterKeepsOutputs
<1>6. QED
  BY <1>1, <1>2, <1>3, <1>5

LEMMA LifecycleKeepsOutputs ==
  ASSUME Tables, Outputs, NEW r \in Requests, Lifecycle(r)
  PROVE  Outputs'
<1>1. "route" \notin AtOutput /\ "unroute" \notin AtOutput
  BY DEF AtOutput
<1>2. CASE StartLocal(r)
  <2>1. req' = [req EXCEPT ![r].at = "route"] \/ req' = [req EXCEPT ![r] = Idle]
    BY <1>2 DEF StartLocal, StartFails
  <2>2. QED
    BY <1>1, <2>1, Moves, OutputAnswered
<1>3. CASE ShutdownRuns(r)
  <2> DEFINE q == [at |-> "unlist", id |-> req[r].id]
  <2>1. req' = [req EXCEPT ![r] = q] \/ req' = [req EXCEPT ![r] = Idle]
    BY <1>3 DEF ShutdownRuns
  <2>2. q.at = "unlist"
    OBVIOUS
  <2> HIDE DEF q
  <2>3. QED
    BY <2>1, <2>2, NoOffer, OutputAnswered DEF AtOutput
<1>4. CASE ShutdownUnlists(r)
  <2>1. req' = [req EXCEPT ![r].at = "unroute"]
    BY <1>4 DEF ShutdownUnlists
  <2>2. QED
    BY <1>1, <2>1, Moves
<1>5. CASE StartRoutes(r) \/ ShutdownUnroutes(r)
  BY <1>5, OutputAnswered DEF StartRoutes, ShutdownUnroutes
<1>6. QED
  BY <1>2, <1>3, <1>4, <1>5 DEF Lifecycle

LEMMA OutputsInductive == Tables /\ Outputs /\ [Next]_vars => Outputs'
<1> SUFFICES ASSUME Tables, Outputs, [Next]_vars PROVE Outputs' OBVIOUS
<1>1. CASE UNCHANGED vars
  BY <1>1 DEF Outputs, Offers, Ready, Readable
<1>2. ASSUME NEW r \in Requests, Steps(r) PROVE Outputs'
  BY <1>2, OutputAnswered DEF Steps, RunsPerturbUp, RunsPerturbDown, RunsOptimize, RunsOther
<1>3. ASSUME NEW r \in Requests, PublishFails(r) \/ AnswersForward(r) PROVE Outputs'
  BY <1>3, OutputAnswered DEF PublishFails, AnswersForward
<1>4. ASSUME NEW r \in Requests, Invokes(r) PROVE Outputs'
  BY <1>3, <1>4, InputKeepsOutputs, AnswersAreReady, PublishArtifactReads DEF Invokes
<1>5. QED
  BY <1>1, <1>2, <1>4, CallsKeepOutputs, LifecycleKeepsOutputs DEF Next

\* What is published decodes to what was encoded, whatever the operation or the
\* engine answers: whichever tensors of whatever dtypes and shapes, contract and
\* metadata, encode_descriptor lays out what decode_descriptor reads, tensors in the
\* order of the ports, dark tokens of any batch, sequence and top-k to the results
\* they were made of; and receivers accept the ticket, but for ties of an empty tensor.
THEOREM PublishedIsReadable == Spec => []PublishedDecodes
<1>1. Init => Registries /\ Outputs
  <2> SUFFICES ASSUME Init PROVE Registries /\ Outputs OBVIOUS
  <2>1. \A r \in Requests : req[r] = Idle BY DEF Init
  <2>2. Outputs BY <2>1 DEF Outputs, Offers
  <2> QED BY <2>2, RegistriesInitially
<1>2. Registries /\ Outputs /\ [Next]_vars => (Registries /\ Outputs)'
  BY RegistriesInductive, OutputsInductive DEF Registries
<1> QED BY <1>1, <1>2, OutputsImply, PTL DEF Spec
=============================================================================
