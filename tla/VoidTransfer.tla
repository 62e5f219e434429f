---------------------------- MODULE VoidTransfer ----------------------------
(***************************************************************************)
(* The progressive transfer protocol of the Void server                    *)
(* (_black_hole_void/src/lib.rs): TransferBegin, TransferChunk,            *)
(* TransferInspect, TransferCommit, TransferAbort, the lease, the sweep of *)
(* expired leases, and the single-shot upload that shares the same ids.    *)
(*                                                                         *)
(* All transfer handlers run under VoidContext::transfer_mutation, so at   *)
(* most one is between two of its awaits: `job` is that handler.  Every    *)
(* await on the metadata store or the object store is a step of its own,   *)
(* may fail, and a failed write may nonetheless have been applied (the     *)
(* answer of S3 or Postgres was lost).  The process may die and restart    *)
(* between any two steps: it then keeps the two stores and loses the rest. *)
(* A request the server refuses leaves the state as it is and is not a     *)
(* step.                                                                   *)
(*                                                                         *)
(* SHA-256 is taken to be injective: the hash of some bytes is the bytes.  *)
(***************************************************************************)
EXTENDS Naturals, Sequences, FiniteSets, FiniteSetsExt

CONSTANTS
  Transfers,     \* transfer ids
  Bytes,         \* byte values the artifacts are made of
  Declarations,  \* what a TransferBegin may declare
  Payloads,      \* what a TransferChunk may carry
  Uploaders,     \* clients that send UploadWith with the id of a transfer
  NoBytes,       \* an object the object store does not hold
  NoUpload,      \* an uploader with no request in flight
  MaxParts,      \* MAX_MULTIPART_PARTS
  MaxObjects,    \* bound: chunk objects ever created
  MaxNow,        \* bound: clock ticks
  MaxFaults,     \* bound: store operations that fail
  MaxRestarts    \* bound: restarts of the server

ChunkIds == 1..MaxObjects
Indices  == 0..(MaxParts - 1)

\* TransferBegin, without the parts no handler looks at.
Declaration == [expected_chunks : Nat, expected_len : Nat,
                expected_hash : Seq(Bytes), deadline : Nat]

ASSUME TransfersAssumption    == Transfers # {}
ASSUME DeclarationsAssumption == Declarations \subseteq Declaration
ASSUME PayloadsAssumption     == Payloads \subseteq Seq(Bytes)
ASSUME BytesAssumption        == NoBytes \notin Payloads
ASSUME UploadersAssumption    == NoUpload \notin Transfers
ASSUME BoundsAssumption       == {MaxParts, MaxObjects, MaxNow, MaxFaults, MaxRestarts} \subseteq Nat

VARIABLES
  index,    \* metadata row of a transfer id: none, or the kind of key it holds
  record,   \* object `transfer-record-<id>`
  rows,     \* chunk ids with a metadata row
  blobs,    \* objects `transfer-chunk-<id>`
  active,   \* VoidContext::active_transfers
  job,      \* the handler that holds transfer_mutation
  raw,      \* per uploader, the transfer id its handle_upload is writing
  minted,   \* chunk objects named so far (Uuid::new_v4)
  now,      \* unix_time_ms
  acked,    \* chunks whose sender was told TransferChunkStored
  verdict,  \* terminal state a client was told, if any
  faults, restarts

storeVars  == <<index, record, rows, blobs>>
clientVars == <<acked, verdict>>
boundVars  == <<faults, restarts>>
vars == <<storeVars, active, job, raw, minted, now, clientVars, boundVars>>

----------------------------------------------------------------------------
(* Records                                                                 *)

NoDeclaration == [expected_chunks |-> 0, expected_len |-> 0,
                  expected_hash |-> <<>>, deadline |-> 0]

\* TransferRecord.  `chunks` maps an index to the descriptor of its chunk: the
\* list of the source is sorted by index and holds no index twice.
TransferRecord(state, begin, chunks) ==
  [state |-> state, begin |-> begin, chunks |-> chunks]

TransferChunk == [object_id : ChunkIds, len : Nat, hash : Payloads]
NoChunk       == [object_id |-> 0, len |-> 0, hash |-> <<>>]
NoChunks      == [i \in Indices |-> NoChunk]
NoRecord      == TransferRecord("Missing", NoDeclaration, NoChunks)
Records       == [state : {"Missing", "InProgress", "Committed", "Aborted"},
                  begin : Declarations \cup {NoDeclaration},
                  chunks : [Indices -> TransferChunk \cup {NoChunk}]]

Listed(chunks)   == {i \in Indices : chunks[i].object_id # 0}
Objects(chunks)  == {chunks[i].object_id : i \in Listed(chunks)}
TotalLen(chunks) == MapThenSumSet(LAMBDA i : chunks[i].len, Listed(chunks))

\* The bytes the aggregate hash of a complete manifest covers: the first n parts.
Parts(chunks) == [i \in Listed(chunks) |-> chunks[i].hash]
Joined(parts, n) ==
  LET join[k \in 0..n] == IF k = 0 THEN <<>> ELSE join[k - 1] \o parts[k - 1]
  IN  join[n]

\* Mutant of Complete: lengths are compared and the aggregate hash is not.
CompleteByLength(begin, chunks) ==
  /\ Listed(chunks) = 0..(begin.expected_chunks - 1)
  /\ TotalLen(chunks) = begin.expected_len

\* Every index from 0, every chunk readable and intact: what commit re-checks.
Complete(begin, chunks) ==
  /\ Listed(chunks) = 0..(begin.expected_chunks - 1)
  /\ TotalLen(chunks) = begin.expected_len
  /\ Joined(Parts(chunks), begin.expected_chunks) = begin.expected_hash

Readable(chunk) ==
  /\ chunk.object_id \in rows
  /\ blobs[chunk.object_id] = chunk.hash
  /\ Len(blobs[chunk.object_id]) = chunk.len

Whole(r) == /\ Complete(r.begin, r.chunks)
            /\ \A i \in Listed(r.chunks) : Readable(r.chunks[i])

\* load_transfer_record finds a record it can decode.
Loads(t)       == index[t] = "record" /\ record[t].state # "Missing"
LoadsAs(t, st) == Loads(t) /\ record[t].state = st
Visible(t)     == IF Loads(t) THEN record[t] ELSE NoRecord
Expired(t)     == LoadsAs(t, "InProgress") /\ now >= record[t].begin.deadline
Live(t)        == LoadsAs(t, "InProgress") /\ now < record[t].begin.deadline

----------------------------------------------------------------------------
(* The handler in the critical section                                     *)

Kinds == {"none", "begin", "chunk", "inspect", "commit", "abort", "sweep"}
Steps == {"idle", "chunkPut", "chunkIndex", "dropBytes", "dropRow",
          "lookup", "put", "index"}
Jobs  == [kind : Kinds, id : Transfers, step : Steps,
          target : Records,          \* the record to persist, if any is left
          doomed : SUBSET ChunkIds,  \* chunk objects still to delete
          chunk : Nat,               \* the chunk object at hand
          at : Nat,                  \* and the index it was sent for
          existed : BOOLEAN]         \* the transfer id had a metadata row

NewJob(kind, t, step, target) ==
  [kind |-> kind, id |-> t, step |-> step, target |-> target,
   doomed |-> {}, chunk |-> 0, at |-> 0, existed |-> FALSE]
NoJob == NewJob("none", CHOOSE t \in Transfers : TRUE, "idle", NoRecord)

Idle == job.kind = "none"

Init ==
  /\ index = [t \in Transfers |-> "none"]
  /\ record = [t \in Transfers |-> NoRecord]
  /\ rows = {} /\ blobs = [c \in ChunkIds |-> NoBytes]
  /\ active = {} /\ job = NoJob /\ raw = [u \in Uploaders |-> NoUpload]
  /\ minted = 0 /\ now = 0
  /\ acked = [t \in Transfers |-> {}]
  /\ verdict = [t \in Transfers |-> "none"]
  /\ faults = 0 /\ restarts = 0

Ok    == UNCHANGED faults
Fault == faults < MaxFaults /\ faults' = faults + 1

\* Only the handler moves.
Enter(j) == /\ Idle /\ job' = j
            /\ UNCHANGED <<storeVars, active, raw, now, clientVars, boundVars>>

----------------------------------------------------------------------------
(* Requests, up to the first write                                         *)

\* Mutant of TransferBegin: an existing transfer is begun again.
TransferBeginAgain(t, d) ==
  /\ d.expected_chunks <= MaxParts
  /\ (d.expected_chunks = 0) = (d.expected_len = 0)
  /\ now < d.deadline
  /\ Enter(NewJob("begin", t, "lookup", TransferRecord("InProgress", d, NoChunks)))
  /\ UNCHANGED minted

\* handle_transfer_begin: refuse or persist revision 0.
TransferBegin(t, d) ==
  /\ d.expected_chunks <= MaxParts
  /\ (d.expected_chunks = 0) = (d.expected_len = 0)
  /\ now < d.deadline
  /\ index[t] = "none"
  /\ Enter(NewJob("begin", t, "lookup", TransferRecord("InProgress", d, NoChunks)))
  /\ UNCHANGED minted

\* handle_transfer_chunk of payload p, claimed to have hash h, under a fresh
\* object id.
TransferChunkArrives(t, i, p, h) ==
  /\ Live(t)
  /\ minted < MaxObjects /\ minted' = minted + 1
  /\ LET r     == record[t]
         chunk == [object_id |-> minted + 1, len |-> Len(p), hash |-> h]
         next  == [r.chunks EXCEPT ![i] = chunk]
     IN  /\ i < r.begin.expected_chunks
         /\ i \notin Listed(r.chunks)
         /\ h = p
         /\ TotalLen(r.chunks) + Len(p) <= r.begin.expected_len
         /\ Enter([NewJob("chunk", t, "chunkPut", TransferRecord("InProgress", r.begin, next))
                     EXCEPT !.chunk = minted + 1, !.at = i])

\* Mutant of TransferCommit: the chunks are not read back.
TransferCommitBlind(t, h) ==
  /\ Live(t)
  /\ h = record[t].begin.expected_hash
  /\ Complete(record[t].begin, record[t].chunks)
  /\ Enter(NewJob("commit", t, "lookup", TransferRecord("Committed", record[t].begin, record[t].chunks)))
  /\ UNCHANGED minted

\* handle_transfer_commit: every check, then persist the manifest.
TransferCommit(t, h) ==
  /\ Live(t)
  /\ h = record[t].begin.expected_hash
  /\ Whole(record[t])
  /\ Enter(NewJob("commit", t, "lookup", TransferRecord("Committed", record[t].begin, record[t].chunks)))
  /\ UNCHANGED minted

\* Mutant of AbortJob: the chunks are left where they are.
AbortJobKeepsChunks(kind, t) ==
  NewJob(kind, t, "dropBytes", TransferRecord("Aborted", record[t].begin, NoChunks))

\* abort_transfer_locked: delete the chunk objects, then persist the abort.
AbortJob(kind, t) ==
  [NewJob(kind, t, "dropBytes", TransferRecord("Aborted", record[t].begin, NoChunks))
     EXCEPT !.doomed = Objects(record[t].chunks)]

\* Mutant of TransferAbort: a terminal transfer can be aborted.
TransferAbortAny(t) ==
  /\ Loads(t)
  /\ Enter(AbortJob("abort", t))
  /\ UNCHANGED minted

\* handle_transfer_abort does not look at the lease.
TransferAbort(t) ==
  /\ LoadsAs(t, "InProgress")
  /\ Enter(AbortJob("abort", t))
  /\ UNCHANGED minted

\* expire_transfer_locked, reached from the handlers of a chunk, a commit and
\* an inspection; the sweep reaches it for the ids in active_transfers.
Expire(kind, t) ==
  /\ Expired(t)
  /\ kind = "sweep" => t \in active
  /\ Enter(AbortJob(kind, t))
  /\ UNCHANGED minted

\* handle_transfer_inspect of a record that needs no expiry.
TransferInspect(t) ==
  /\ Idle
  /\ LoadsAs(t, "Committed") \/ LoadsAs(t, "Aborted")
  /\ verdict' = [verdict EXCEPT ![t] = record[t].state]
  /\ UNCHANGED <<storeVars, active, job, raw, minted, now, acked, boundVars>>

\* The sweep drops an id whose record it fails to load.
SweepForgets(t) ==
  /\ Idle /\ t \in active
  /\ IF Loads(t) THEN Fault ELSE Ok
  /\ active' = active \ {t}
  /\ UNCHANGED <<storeVars, job, raw, minted, now, clientVars, restarts>>

----------------------------------------------------------------------------
(* The chunk object: handle_transfer_chunk_upload                          *)

ChunkPut ==
  /\ job.step = "chunkPut"
  /\ \/ /\ Ok
        /\ blobs' = [blobs EXCEPT ![job.chunk] = job.target.chunks[job.at].hash]
        /\ job' = [job EXCEPT !.step = "chunkIndex"]
     \/ /\ Fault
        /\ \/ UNCHANGED blobs
           \/ blobs' = [blobs EXCEPT ![job.chunk] = job.target.chunks[job.at].hash]
        /\ job' = NoJob
  /\ UNCHANGED <<index, record, rows, active, raw, minted, now, clientVars, restarts>>

\* A failed insert_object is undone, as far as the delete succeeds.
ChunkIndex ==
  /\ job.step = "chunkIndex"
  /\ \/ /\ Ok
        /\ rows' = rows \cup {job.chunk}
        /\ job' = [job EXCEPT !.step = "lookup"]
        /\ UNCHANGED blobs
     \/ /\ Fault
        /\ rows' \in {rows, rows \cup {job.chunk}}
        /\ \/ UNCHANGED blobs
           \/ blobs' = [blobs EXCEPT ![job.chunk] = NoBytes]
        /\ job' = NoJob
  /\ UNCHANGED <<index, record, active, raw, minted, now, clientVars, restarts>>

----------------------------------------------------------------------------
(* delete_object, for each doomed chunk: its bytes, then its row.  A chunk *)
(* that cannot be deleted is left behind.                                  *)

DropBytes(c) ==
  /\ job.step = "dropBytes" /\ c \in job.doomed
  /\ \/ /\ c \notin rows
        /\ Ok
        /\ job' = [job EXCEPT !.doomed = @ \ {c}]
        /\ UNCHANGED blobs
     \/ /\ c \in rows
        /\ Ok
        /\ blobs' = [blobs EXCEPT ![c] = NoBytes]
        /\ job' = [job EXCEPT !.step = "dropRow", !.chunk = c]
     \/ /\ Fault
        /\ \/ UNCHANGED blobs
           \/ c \in rows /\ blobs' = [blobs EXCEPT ![c] = NoBytes]
        /\ job' = [job EXCEPT !.doomed = @ \ {c}]
  /\ UNCHANGED <<index, record, rows, active, raw, minted, now, clientVars, restarts>>

DropRow ==
  /\ job.step = "dropRow"
  /\ \/ Ok /\ rows' = rows \ {job.chunk}
     \/ Fault /\ rows' \in {rows, rows \ {job.chunk}}
  /\ job' = [job EXCEPT !.step = "dropBytes", !.doomed = @ \ {job.chunk}]
  /\ UNCHANGED <<index, record, blobs, active, raw, minted, now, clientVars, restarts>>

\* All chunks tried: persist the abort, or answer the chunk that failed.
DropDone ==
  /\ job.step = "dropBytes" /\ job.doomed = {}
  /\ job' = IF job.target.state = "Missing" THEN NoJob
            ELSE [job EXCEPT !.step = "lookup"]
  /\ UNCHANGED <<storeVars, active, raw, minted, now, clientVars, boundVars>>

----------------------------------------------------------------------------
(* persist_transfer_record                                                 *)

\* The handler's error path: a chunk whose record was not persisted is deleted
\* again, every other handler just answers the error.
GiveUp ==
  job' = IF job.kind = "chunk" /\ job.target.state = "InProgress"
         THEN [job EXCEPT !.step = "dropBytes", !.doomed = {job.chunk}, !.target = NoRecord]
         ELSE NoJob

\* Mutant of Persisted: any update of the record takes it out of the sweep.
PersistedUntracked ==
  LET t == job.id  st == job.target.state IN
  /\ active' = IF job.kind = "begin" THEN active \cup {t} ELSE active \ {t}
  /\ acked' = IF job.kind = "chunk" /\ st = "InProgress"
              THEN [acked EXCEPT ![t] = @ \cup {<<job.at, job.target.chunks[job.at]>>}]
              ELSE acked
  /\ UNCHANGED verdict
  /\ job' = NoJob

\* The handler's success path, its answer and the release of the lock.
Persisted ==
  LET t == job.id  st == job.target.state IN
  /\ active' = IF job.kind = "begin" THEN active \cup {t}
               ELSE IF st = "InProgress" THEN active ELSE active \ {t}
  /\ acked' = IF job.kind = "chunk" /\ st = "InProgress"
              THEN [acked EXCEPT ![t] = @ \cup {<<job.at, job.target.chunks[job.at]>>}]
              ELSE acked
  /\ verdict' = IF job.kind \in {"inspect", "commit", "abort"} /\ (job.kind = "commit" => st = "Committed")
                THEN [verdict EXCEPT ![t] = st]
                ELSE verdict
  /\ job' = NoJob

PersistLookup ==
  /\ job.step = "lookup"
  /\ \/ Ok /\ job' = [job EXCEPT !.step = "put", !.existed = index[job.id] # "none"]
     \/ Fault /\ GiveUp
  /\ UNCHANGED <<storeVars, active, raw, minted, now, clientVars, restarts>>

PersistPut ==
  /\ job.step = "put"
  /\ \/ /\ Ok
        /\ record' = [record EXCEPT ![job.id] = job.target]
        /\ job' = [job EXCEPT !.step = "index"]
     \/ /\ Fault
        /\ \/ UNCHANGED record
           \/ record' = [record EXCEPT ![job.id] = job.target]
        /\ GiveUp
  /\ UNCHANGED <<index, rows, blobs, active, raw, minted, now, clientVars, restarts>>

\* A row that cannot be written is fatal only if there was none before; the
\* record object is then deleted, as far as that succeeds.
PersistIndex ==
  /\ job.step = "index"
  /\ \/ /\ Ok
        /\ index' = [index EXCEPT ![job.id] = "record"]
        /\ Persisted
        /\ UNCHANGED record
     \/ /\ Fault
        /\ \/ UNCHANGED index
           \/ index' = [index EXCEPT ![job.id] = "record"]
        /\ IF job.existed
           THEN Persisted /\ UNCHANGED record
           ELSE /\ GiveUp
                /\ \/ UNCHANGED record
                   \/ record' = [record EXCEPT ![job.id] = NoRecord]
                /\ UNCHANGED <<active, clientVars>>
  /\ UNCHANGED <<rows, blobs, raw, minted, now, restarts>>

----------------------------------------------------------------------------
(* handle_upload with the id of a transfer.  It does not take the lock: the *)
(* check and the row it writes are two steps.                              *)

UploadCheck(u, t) ==
  /\ raw[u] = NoUpload
  /\ index[t] # "record"
  /\ raw' = [raw EXCEPT ![u] = t]
  /\ UNCHANGED <<storeVars, active, job, minted, now, clientVars, boundVars>>

UploadIndex(u) ==
  /\ raw[u] # NoUpload
  /\ \/ Ok /\ index' = [index EXCEPT ![raw[u]] = "plain"]
     \/ Fault /\ \/ UNCHANGED index
                 \/ index' = [index EXCEPT ![raw[u]] = "plain"]
  /\ raw' = [raw EXCEPT ![u] = NoUpload]
  /\ UNCHANGED <<record, rows, blobs, active, job, minted, now, clientVars, restarts>>

----------------------------------------------------------------------------
(* Clock and restarts                                                      *)

Tick == /\ now < MaxNow /\ now' = now + 1
        /\ UNCHANGED <<storeVars, active, job, raw, minted, clientVars, boundVars>>

\* ServerBuilder::setup starts with an empty set of active transfers.
Restart ==
  /\ restarts < MaxRestarts /\ restarts' = restarts + 1
  /\ active' = {} /\ job' = NoJob /\ raw' = [u \in Uploaders |-> NoUpload]
  /\ UNCHANGED <<storeVars, minted, now, clientVars, faults>>

----------------------------------------------------------------------------
Request(t) ==
  \/ \E d \in Declarations : TransferBegin(t, d)
  \/ \E i \in Indices, p, h \in Payloads : TransferChunkArrives(t, i, p, h)
  \/ \E d \in Declarations : TransferCommit(t, d.expected_hash)
  \/ TransferAbort(t)
  \/ \E kind \in {"chunk", "inspect", "commit"} : Expire(kind, t)
  \/ TransferInspect(t)

Sweep(t) == Expire("sweep", t) \/ SweepForgets(t)

Progress == \/ ChunkPut \/ ChunkIndex
            \/ (\E c \in ChunkIds : DropBytes(c)) \/ DropRow \/ DropDone
            \/ PersistLookup \/ PersistPut \/ PersistIndex

Upload(u) == (\E t \in Transfers : UploadCheck(u, t)) \/ UploadIndex(u)

Next == \/ \E t \in Transfers : Request(t) \/ Sweep(t)
        \/ Progress
        \/ \E u \in Uploaders : Upload(u)
        \/ Tick \/ Restart

Spec == Init /\ [][Next]_vars

\* The runtime polls a handler whose await has completed, time passes, and the
\* cleanup task wakes every TRANSFER_CLEANUP_INTERVAL.  Clients owe nothing.
FairSpec == /\ Spec
            /\ WF_vars(Progress) /\ WF_vars(Tick)
            /\ \A t \in Transfers : WF_vars(Expire("sweep", t))

----------------------------------------------------------------------------
(* Properties                                                              *)

\* Type invariant of the server's durable and volatile state.
TypeOK ==
  /\ index \in [Transfers -> {"none", "record", "plain"}]
  /\ record \in [Transfers -> Records]
  /\ rows \subseteq ChunkIds
  /\ blobs \in [ChunkIds -> Payloads \cup {NoBytes}]
  /\ active \subseteq Transfers
  /\ job \in Jobs
  /\ raw \in [Uploaders -> Transfers \cup {NoUpload}]
  /\ minted \in 0..MaxObjects
  /\ now \in 0..MaxNow
  /\ acked \in [Transfers -> SUBSET (Indices \X TransferChunk)]
  /\ verdict \in [Transfers -> {"none", "Committed", "Aborted"}]
  /\ faults \in 0..MaxFaults
  /\ restarts \in 0..MaxRestarts

\* A committed manifest is authoritative: each of its chunks can be read back,
\* and together they are the declared artifact, whatever writes failed, aborts
\* stopped half way and restarts came before (handle_transfer_commit,
\* abort_transfer_locked, delete_object).
CommittedIsWhole == \A t \in Transfers : LoadsAs(t, "Committed") => Whole(record[t])

\* A chunk its sender was told is stored stays listed, with those bytes, for as
\* long as the transfer is not aborted: no later read-modify-write of the record
\* loses it (handle_transfer_chunk, persist_transfer_record).
AckedChunksListed ==
  \A t \in Transfers : LoadsAs(t, "InProgress") \/ LoadsAs(t, "Committed") =>
    \A a \in acked[t] : record[t].chunks[a[1]] = a[2]

\* What a client was told of the end of a transfer stays true, across failed
\* metadata refreshes and restarts (handle_transfer_commit, _abort, _inspect).
VerdictStands ==
  \A t \in Transfers : verdict[t] # "none" => LoadsAs(t, verdict[t])

\* As long as no store operation failed and the server did not die, every chunk
\* object in the stores is listed by a record between handlers: neither an abort
\* nor an expiry leaves an object that no one can find and delete
\* (abort_transfer_locked).
Stored    == rows \cup {c \in ChunkIds : blobs[c] # NoBytes}
NoOrphans == Idle /\ faults = 0 /\ restarts = 0 =>
               Stored \subseteq UNION {Objects(Visible(t).chunks) : t \in Transfers}

\* A transfer does not stay in progress: it is committed, or aborted when its
\* lease expires, by the sweep if no request touches it (spawn_transfer_cleanup);
\* or the server was restarted, and no longer knows of it.
Forgotten(t) == restarts > 0 /\ t \notin active
LeasesEnd ==
  \A t \in Transfers : LoadsAs(t, "InProgress") ~> ~LoadsAs(t, "InProgress") \/ Forgotten(t)

----------------------------------------------------------------------------
(* The inductive invariant behind CommittedIsWhole                         *)

\* The handler at each step has what that step needs.
JobOK ==
  /\ job.step = "idle" <=> job.kind = "none"
  /\ job.step \in {"chunkPut", "chunkIndex"} =>
       job.kind = "chunk" /\ job.target.state = "InProgress"
  /\ job.step \in {"dropBytes", "dropRow"} => job.target.state \in {"Aborted", "Missing"}
  /\ job.step \in {"lookup", "put", "index"} => job.target.state # "Missing"
  /\ job.step = "dropRow" => job.chunk \in job.doomed
  /\ job.target.state = "InProgress" => job.kind \in {"begin", "chunk"}
  /\ job.target.state = "Committed" => job.kind = "commit"
  /\ job.kind = "chunk" /\ job.target.state = "InProgress" =>
       /\ job.at \in Indices
       /\ job.target.chunks[job.at] \in TransferChunk
       /\ job.target.chunks[job.at].object_id = job.chunk

\* Committed record objects are whole, and the row that leads to them was there
\* before (it may since lead to an upload instead).
StoredWhole      == \A t \in Transfers : record[t].state = "Committed" => Whole(record[t])
CommittedIndexed == \A t \in Transfers : record[t].state = "Committed" => index[t] # "none"

\* Listed objects have been minted, so that the next one is fresh, and no two
\* transfers list the same object.
RecordsMinted   == \A t \in Transfers : \A c \in Objects(record[t].chunks) : c <= minted
RecordsDisjoint == \A t, u \in Transfers : t # u =>
                     Objects(record[t].chunks) \cap Objects(record[u].chunks) = {}

\* What the handler writes, stores or deletes belongs to its own transfer.
HandlerApart ==
  /\ \A c \in Objects(job.target.chunks) : c <= minted
  /\ job.kind # "none" => \A u \in Transfers : u # job.id =>
       Objects(record[u].chunks) \cap (Objects(job.target.chunks) \cup job.doomed) = {}

\* It never works on a committed transfer, except that a commit has written its
\* record and not yet its row; what it commits is whole, and has a row.
HandlerCommits ==
  /\ job.kind # "none" /\ record[job.id].state = "Committed" =>
       job.step = "index" /\ job.target.state = "Committed"
  /\ job.target.state = "Committed" => Whole(job.target) /\ index[job.id] # "none"

IInv == /\ TypeOK /\ JobOK
        /\ StoredWhole /\ CommittedIndexed /\ RecordsMinted /\ RecordsDisjoint
        /\ HandlerApart /\ HandlerCommits

----------------------------------------------------------------------------
(* Refinement                                                              *)

\* What readers see of a transfer.  The bytes of a committed one are those a
\* download of its chunks returns.
Fetched(chunk) == IF chunk.object_id \in rows THEN blobs[chunk.object_id] ELSE NoBytes
Artifact ==
  [t \in Transfers |->
     [state |-> Visible(t).state,
      begin |-> Visible(t).begin,
      parts |-> [i \in Listed(Visible(t).chunks) |->
                   IF Visible(t).state = "Committed" THEN Fetched(Visible(t).chunks[i])
                   ELSE Visible(t).chunks[i].hash]]]

Contract == INSTANCE TransferContract WITH artifact <- Artifact

\* The server implements the transfer contract.
ImplementsContract == Contract!Spec
=============================================================================
