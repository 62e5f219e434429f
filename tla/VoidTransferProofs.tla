------------------------- MODULE VoidTransferProofs -------------------------
(***************************************************************************)
(* Theorems about VoidTransfer, for every value of its constants: what it  *)
(* keeps with single-shot uploads on the same ids, and, without them, that *)
(* it implements TransferContract and orphans no chunk.  At the end, about *)
(* VoidObjects: PartsAreWhole, for any number of servers, clients, ids,    *)
(* parts, sessions and failures.                                           *)
(***************************************************************************)
EXTENDS VoidTransfer, VoidObjects, TLAPS

USE DEF vars, storeVars, clientVars, boundVars

LEMMA RecordsAreTyped ==
  /\ NoRecord \in Records
  /\ NoChunks \in [Indices -> TransferChunk \cup {NoChunk}]
  /\ \A st \in {"Missing", "InProgress", "Committed", "Aborted"},
        d \in Declarations \cup {NoDeclaration},
        cs \in [Indices -> TransferChunk \cup {NoChunk}] :
       TransferRecord(st, d, cs) \in Records
BY DEF NoRecord, Records, TransferRecord, NoChunks

LEMMA NewJobIsTyped ==
  ASSUME NEW kind \in Kinds, NEW t \in Transfers, NEW step \in Steps, NEW target \in Records
  PROVE  NewJob(kind, t, step, target) \in Jobs
BY DEF NewJob, Jobs

LEMMA NoJobIsTyped == NoJob \in Jobs
BY NewJobIsTyped, RecordsAreTyped, TransfersAssumption DEF NoJob, Kinds, Steps

LEMMA AbortJobIsTyped ==
  ASSUME TypeOK, NEW t \in Transfers, NEW kind \in Kinds
  PROVE  AbortJob(kind, t) \in Jobs
<1>1. record[t] \in Records /\ record[t].begin \in Declarations \cup {NoDeclaration}
  BY DEF TypeOK, Records
<1>2. TransferRecord("Aborted", record[t].begin, NoChunks) \in Records
  BY <1>1, RecordsAreTyped
<1>3. NewJob(kind, t, "dropBytes", TransferRecord("Aborted", record[t].begin, NoChunks)) \in Jobs
  BY <1>2, NewJobIsTyped DEF Steps
<1>4. Objects(record[t].chunks) \subseteq ChunkIds
  BY <1>1 DEF Objects, Listed, Records, TransferChunk, NoChunk
<1> QED BY <1>3, <1>4 DEF AbortJob, Jobs

\* The initial state has the types of TypeOK.
LEMMA InitTyped == Init => TypeOK
BY NoJobIsTyped, RecordsAreTyped, BoundsAssumption DEF Init, TypeOK, ChunkIds

LEMMA RequestKeepsTypes ==
  ASSUME TypeOK, NEW t \in Transfers, Request(t) PROVE TypeOK'
<1>r. record[t] \in Records /\ record[t].begin \in Declarations \cup {NoDeclaration}
      /\ record[t].chunks \in [Indices -> TransferChunk \cup {NoChunk}]
  BY DEF TypeOK, Records
<1>1. ASSUME NEW d \in Declarations, TransferBegin(t, d) PROVE TypeOK'
  <2>1. NewJob("begin", t, "lookup", TransferRecord("InProgress", d, NoChunks)) \in Jobs
    BY NewJobIsTyped, RecordsAreTyped DEF Kinds, Steps
  <2> QED BY <1>1, <2>1 DEF TransferBegin, Enter, TypeOK
<1>2. ASSUME NEW i \in Indices, NEW p \in Payloads, NEW h \in Payloads,
             TransferChunkArrives(t, i, p, h)
      PROVE TypeOK'
  <2> DEFINE chunk == [object_id |-> minted + 1, len |-> Len(p), hash |-> h]
             next  == [record[t].chunks EXCEPT ![i] = chunk]
             new   == NewJob("chunk", t, "chunkPut", TransferRecord("InProgress", record[t].begin, next))
  <2>1. minted + 1 \in ChunkIds /\ minted' \in 0..MaxObjects
    BY <1>2, BoundsAssumption DEF TransferChunkArrives, TypeOK, ChunkIds
  <2>2. chunk \in TransferChunk
    BY <2>1, PayloadsAssumption DEF TransferChunk
  <2>3. next \in [Indices -> TransferChunk \cup {NoChunk}]
    BY <1>r, <2>2
  <2>4. new \in Jobs
    BY <1>r, <2>3, NewJobIsTyped, RecordsAreTyped DEF Kinds, Steps
  <2>5. [new EXCEPT !.chunk = minted + 1, !.at = i] \in Jobs
    <3>1. minted + 1 \in Nat /\ i \in Nat
      BY <2>1, BoundsAssumption DEF ChunkIds, Indices
    <3>2. \A j \in Jobs, c, a \in Nat : [j EXCEPT !.chunk = c, !.at = a] \in Jobs
      BY DEF Jobs
    <3> HIDE DEF new
    <3> QED BY <2>4, <3>1, <3>2
  <2>6. job' = [new EXCEPT !.chunk = minted + 1, !.at = i]
    BY <1>2 DEF TransferChunkArrives, Enter
  <2> QED BY <1>2, <2>1, <2>5, <2>6 DEF TransferChunkArrives, Enter, TypeOK
<1>3. ASSUME NEW h, TransferCommit(t, h) PROVE TypeOK'
  <2>1. NewJob("commit", t, "lookup", TransferRecord("Committed", record[t].begin, record[t].chunks)) \in Jobs
    BY <1>r, NewJobIsTyped, RecordsAreTyped DEF Kinds, Steps
  <2> QED BY <1>3, <2>1 DEF TransferCommit, Enter, TypeOK
<1>4. CASE TransferAbort(t)
  BY <1>4, AbortJobIsTyped DEF TransferAbort, Enter, TypeOK, Kinds
<1>5. ASSUME NEW kind \in {"chunk", "inspect", "commit"}, Expire(kind, t) PROVE TypeOK'
  BY <1>5, AbortJobIsTyped DEF Expire, Enter, TypeOK, Kinds
<1>6. CASE TransferInspect(t)
  BY <1>6 DEF TransferInspect, LoadsAs, TypeOK
<1> QED BY <1>1, <1>2, <1>3, <1>4, <1>5, <1>6 DEF Request

(***************************************************************************)
(* Steps of the handler.  Shape is all they need to keep types.            *)
(***************************************************************************)
Shape == TypeOK /\ JobOK

LEMMA StepIsTyped ==
  ASSUME NEW j \in Jobs, NEW step \in Steps PROVE [j EXCEPT !.step = step] \in Jobs
BY DEF Jobs

LEMMA StagedChunk ==
  ASSUME Shape, job.kind = "chunk", job.target.state = "InProgress"
  PROVE  /\ job.at \in Indices
         /\ job.target.chunks[job.at] \in TransferChunk
         /\ job.target.chunks[job.at].hash \in Payloads
         /\ job.target.chunks[job.at].object_id = job.chunk
         /\ job.chunk \in ChunkIds
         /\ job.chunk \in Objects(job.target.chunks)
BY DEF Shape, JobOK, TransferChunk, Objects, Listed, ChunkIds

LEMMA GiveUpIsTyped == Shape /\ GiveUp => job' \in Jobs
<1> SUFFICES ASSUME Shape, GiveUp PROVE job' \in Jobs
  OBVIOUS
<1>1. CASE job.kind = "chunk" /\ job.target.state = "InProgress"
  <2>1. job \in Jobs /\ {job.chunk} \in SUBSET ChunkIds
    BY <1>1, StagedChunk DEF Shape, TypeOK
  <2> QED BY <1>1, <2>1, RecordsAreTyped DEF GiveUp, Jobs, Steps
<1>2. CASE ~(job.kind = "chunk" /\ job.target.state = "InProgress")
  BY <1>2, NoJobIsTyped DEF GiveUp
<1> QED BY <1>1, <1>2

LEMMA PersistedIsTyped ==
  ASSUME Shape, Persisted, job.step = "index"
  PROVE  /\ active' \subseteq Transfers
         /\ acked' \in [Transfers -> SUBSET (Indices \X TransferChunk)]
         /\ verdict' \in [Transfers -> {"none", "Committed", "Aborted"}]
         /\ job' \in Jobs
<1>1. job.id \in Transfers /\ job.target.state \in {"InProgress", "Committed", "Aborted"}
  BY DEF Shape, TypeOK, JobOK, Jobs, Records
<1>2. active' \subseteq Transfers
  BY <1>1 DEF Persisted, Shape, TypeOK
<1>3. acked' \in [Transfers -> SUBSET (Indices \X TransferChunk)]
  BY <1>1, StagedChunk DEF Persisted, Shape, TypeOK
<1>4. job.kind \in {"inspect", "commit", "abort"} => job.target.state \in {"Committed", "Aborted"}
  BY <1>1 DEF Shape, JobOK
<1>5. verdict' \in [Transfers -> {"none", "Committed", "Aborted"}]
  BY <1>1, <1>4 DEF Persisted, Shape, TypeOK
<1> QED BY <1>2, <1>3, <1>5, NoJobIsTyped DEF Persisted

LEMMA ProgressKeepsTypes == Shape /\ Progress => TypeOK'
<1> SUFFICES ASSUME Shape, Progress PROVE TypeOK'
  OBVIOUS
<1>j. job \in Jobs /\ job.id \in Transfers /\ job.target \in Records
  BY DEF Shape, TypeOK, Jobs
<1>f. faults' \in 0..MaxFaults
  <2>1. Ok \/ Fault \/ UNCHANGED faults
    BY DEF Progress, ChunkPut, ChunkIndex, DropBytes, DropRow, DropDone,
           PersistLookup, PersistPut, PersistIndex
  <2> QED BY <2>1, BoundsAssumption DEF Ok, Fault, Shape, TypeOK
<1>1. CASE ChunkPut
  <2>1. job.target.chunks[job.at].hash \in Payloads
    BY <1>1, StagedChunk DEF ChunkPut, Shape, JobOK
  <2>2. job' \in Jobs
    BY <1>1, <1>j, NoJobIsTyped, StepIsTyped DEF ChunkPut, Steps
  <2> QED BY <1>1, <1>f, <2>1, <2>2 DEF ChunkPut, Shape, TypeOK
<1>2. CASE ChunkIndex
  <2>1. job.chunk \in ChunkIds
    BY <1>2, StagedChunk DEF ChunkIndex, Shape, JobOK
  <2>2. job' \in Jobs
    BY <1>2, <1>j, NoJobIsTyped, StepIsTyped DEF ChunkIndex, Steps
  <2> QED BY <1>2, <1>f, <2>1, <2>2 DEF ChunkIndex, Shape, TypeOK
<1>3. ASSUME NEW c \in ChunkIds, DropBytes(c) PROVE TypeOK'
  <2>1. c \in Nat /\ (job.doomed \ {c}) \in SUBSET ChunkIds
    BY <1>j, BoundsAssumption DEF Jobs, ChunkIds
  <2>2. job' \in Jobs
    <3>1. [job EXCEPT !.doomed = job.doomed \ {c}] \in Jobs
      BY <1>j, <2>1 DEF Jobs
    <3>2. [job EXCEPT !.step = "dropRow", !.chunk = c] \in Jobs
      BY <1>j, <2>1 DEF Jobs, Steps
    <3> QED BY <1>3, <3>1, <3>2 DEF DropBytes
  <2> QED BY <1>3, <1>f, <2>2 DEF DropBytes, Shape, TypeOK
<1>4. CASE DropRow
  <2>1. job.doomed \ {job.chunk} \in SUBSET ChunkIds
    BY <1>j DEF Jobs
  <2>2. job' \in Jobs
    BY <1>4, <1>j, <2>1 DEF DropRow, Jobs, Steps
  <2> QED BY <1>4, <1>f, <2>2 DEF DropRow, Shape, TypeOK
<1>5. CASE DropDone
  <2>1. job' \in Jobs
    BY <1>5, <1>j, NoJobIsTyped, StepIsTyped DEF DropDone, Steps
  <2> QED BY <1>5, <2>1 DEF DropDone, Shape, TypeOK
<1>6. CASE PersistLookup
  <2>1. job' \in Jobs
    <3>1. \A b \in BOOLEAN : [job EXCEPT !.step = "put", !.existed = b] \in Jobs
      BY <1>j DEF Jobs, Steps
    <3> QED BY <1>6, <3>1, GiveUpIsTyped DEF PersistLookup
  <2> QED BY <1>6, <1>f, <2>1 DEF PersistLookup, Shape, TypeOK
<1>7. CASE PersistPut
  <2>1. job' \in Jobs
    BY <1>7, <1>j, GiveUpIsTyped, StepIsTyped DEF PersistPut, Steps
  <2> QED BY <1>7, <1>f, <1>j, <2>1 DEF PersistPut, Shape, TypeOK
<1>8. CASE PersistIndex
  <2>1. /\ active' \subseteq Transfers
        /\ acked' \in [Transfers -> SUBSET (Indices \X TransferChunk)]
        /\ verdict' \in [Transfers -> {"none", "Committed", "Aborted"}]
        /\ job' \in Jobs
    <3>1. CASE Persisted
      BY <1>8, <3>1, PersistedIsTyped DEF PersistIndex
    <3>2. CASE GiveUp /\ UNCHANGED <<active, clientVars>>
      BY <3>2, GiveUpIsTyped DEF Shape, TypeOK
    <3> QED BY <1>8, <3>1, <3>2 DEF PersistIndex
  <2>2. index' \in [Transfers -> {"none", "record", "plain"}]
    BY <1>8, <1>j DEF PersistIndex, Shape, TypeOK
  <2>3. record' \in [Transfers -> Records]
    BY <1>8, <1>j, RecordsAreTyped DEF PersistIndex, Shape, TypeOK
  <2> QED BY <1>8, <1>f, <2>1, <2>2, <2>3 DEF PersistIndex, Shape, TypeOK
<1> QED BY <1>1, <1>2, <1>3, <1>4, <1>5, <1>6, <1>7, <1>8 DEF Progress

LEMMA NextKeepsTypes == Shape /\ [Next]_vars => TypeOK'
<1> SUFFICES ASSUME Shape, [Next]_vars PROVE TypeOK'
  OBVIOUS
<1>1. ASSUME NEW t \in Transfers, Request(t) PROVE TypeOK'
  BY <1>1, RequestKeepsTypes DEF Shape
<1>2. ASSUME NEW t \in Transfers, Sweep(t) PROVE TypeOK'
  <2>1. CASE Expire("sweep", t)
    BY <2>1, AbortJobIsTyped DEF Expire, Enter, Shape, TypeOK, Kinds
  <2>2. CASE SweepForgets(t)
    BY <2>2, BoundsAssumption DEF SweepForgets, Ok, Fault, Shape, TypeOK
  <2> QED BY <1>2, <2>1, <2>2 DEF Sweep
<1>3. CASE Progress
  BY <1>3, ProgressKeepsTypes
<1>4. ASSUME NEW u \in Uploaders, Upload(u) PROVE TypeOK'
  <2>1. ASSUME NEW t \in Transfers, UploadCheck(u, t) PROVE TypeOK'
    BY <2>1 DEF UploadCheck, Shape, TypeOK
  <2>2. CASE UploadIndex(u)
    BY <2>2, BoundsAssumption DEF UploadIndex, Ok, Fault, Shape, TypeOK
  <2> QED BY <1>4, <2>1, <2>2 DEF Upload
<1>5. CASE Tick
  BY <1>5, BoundsAssumption DEF Tick, Shape, TypeOK
<1>6. CASE Restart
  BY <1>6, BoundsAssumption, NoJobIsTyped DEF Restart, Shape, TypeOK
<1>7. CASE UNCHANGED vars
  BY <1>7 DEF Shape, TypeOK
<1> QED BY <1>1, <1>2, <1>3, <1>4, <1>5, <1>6, <1>7 DEF Next

(***************************************************************************)
(* JobOK is preserved, action by action.                                   *)
(***************************************************************************)
LEMMA NoJobIsOK == job' = NoJob => JobOK'
BY DEF JobOK, NoJob, NewJob, NoRecord, TransferRecord

LEMMA AbortJobIsOK ==
  ASSUME NEW t \in Transfers, NEW kind \in Kinds \ {"none", "begin"}, job' = AbortJob(kind, t)
  PROVE  JobOK'
BY DEF JobOK, AbortJob, NewJob, TransferRecord, Kinds

LEMMA GiveUpIsOK == Shape /\ GiveUp => JobOK'
<1> SUFFICES ASSUME Shape, GiveUp PROVE JobOK'
  OBVIOUS
<1>1. CASE job.kind = "chunk" /\ job.target.state = "InProgress"
  <2> DEFINE new == [job EXCEPT !.step = "dropBytes", !.doomed = {job.chunk}, !.target = NoRecord]
  <2>1. /\ new.kind = "chunk" /\ new.step = "dropBytes"
        /\ new.target.state = "Missing"
    BY <1>1 DEF Shape, TypeOK, Jobs, NoRecord, TransferRecord
  <2> QED BY <1>1, <2>1 DEF GiveUp, JobOK
<1>2. CASE ~(job.kind = "chunk" /\ job.target.state = "InProgress")
  BY <1>2, NoJobIsOK DEF GiveUp
<1> QED BY <1>1, <1>2

LEMMA RequestKeepsJob ==
  ASSUME Shape, NEW t \in Transfers, Request(t) PROVE JobOK'
<1>1. ASSUME NEW d \in Declarations, TransferBegin(t, d) PROVE JobOK'
  BY <1>1 DEF TransferBegin, Enter, JobOK, NewJob, TransferRecord
<1>2. ASSUME NEW i \in Indices, NEW p \in Payloads, NEW h \in Payloads,
             TransferChunkArrives(t, i, p, h)
      PROVE JobOK'
  <2> DEFINE chunk == [object_id |-> minted + 1, len |-> Len(p), hash |-> h]
             next  == [record[t].chunks EXCEPT ![i] = chunk]
  <2>1. chunk \in TransferChunk
    <3>1. minted + 1 \in ChunkIds
      BY <1>2, BoundsAssumption DEF TransferChunkArrives, Shape, TypeOK, ChunkIds
    <3> QED BY <3>1, PayloadsAssumption DEF TransferChunk
  <2>2. next[i] = chunk
    BY DEF Shape, TypeOK, Records
  <2>3. /\ job'.kind = "chunk" /\ job'.step = "chunkPut"
        /\ job'.target.state = "InProgress" /\ job'.target.chunks = next
        /\ job'.chunk = minted + 1 /\ job'.at = i
    BY <1>2 DEF TransferChunkArrives, Enter, NewJob, TransferRecord
  <2> QED BY <2>1, <2>2, <2>3 DEF JobOK
<1>3. ASSUME NEW h, TransferCommit(t, h) PROVE JobOK'
  BY <1>3 DEF TransferCommit, Enter, JobOK, NewJob, TransferRecord
<1>4. CASE TransferAbort(t)
  BY <1>4, AbortJobIsOK DEF TransferAbort, Enter, Kinds
<1>5. ASSUME NEW kind \in {"chunk", "inspect", "commit"}, Expire(kind, t) PROVE JobOK'
  BY <1>5, AbortJobIsOK DEF Expire, Enter, Kinds
<1>6. CASE TransferInspect(t)
  BY <1>6 DEF TransferInspect, Shape, JobOK
<1> QED BY <1>1, <1>2, <1>3, <1>4, <1>5, <1>6 DEF Request

LEMMA ProgressKeepsJob == Shape /\ Progress => JobOK'
<1> SUFFICES ASSUME Shape, Progress PROVE JobOK'
  OBVIOUS
<1>j. job \in Jobs
  BY DEF Shape, TypeOK
<1>1. CASE ChunkPut
  <2>1. CASE job' = [job EXCEPT !.step = "chunkIndex"]
    BY <1>1, <1>j, <2>1 DEF ChunkPut, Shape, JobOK, Jobs
  <2> QED BY <1>1, <2>1, NoJobIsOK DEF ChunkPut
<1>2. CASE ChunkIndex
  <2>1. CASE job' = [job EXCEPT !.step = "lookup"]
    BY <1>2, <1>j, <2>1 DEF ChunkIndex, Shape, JobOK, Jobs
  <2> QED BY <1>2, <2>1, NoJobIsOK DEF ChunkIndex
<1>3. ASSUME NEW c \in ChunkIds, DropBytes(c) PROVE JobOK'
  BY ZenonT(60), <1>3, <1>j DEF DropBytes, Shape, JobOK, Jobs
<1>4. CASE DropRow
  BY <1>4, <1>j DEF DropRow, Shape, JobOK, Jobs
<1>5. CASE DropDone
  BY <1>5, <1>j, NoJobIsOK DEF DropDone, Shape, JobOK, Jobs
<1>6. CASE PersistLookup
  <2>1. CASE job' = [job EXCEPT !.step = "put", !.existed = index[job.id] # "none"]
    BY <1>6, <1>j, <2>1 DEF PersistLookup, Shape, JobOK, Jobs
  <2> QED BY <1>6, <2>1, GiveUpIsOK DEF PersistLookup
<1>7. CASE PersistPut
  <2>1. CASE job' = [job EXCEPT !.step = "index"]
    BY <1>7, <1>j, <2>1 DEF PersistPut, Shape, JobOK, Jobs
  <2> QED BY <1>7, <2>1, GiveUpIsOK DEF PersistPut
<1>8. CASE PersistIndex
  BY <1>8, GiveUpIsOK, NoJobIsOK DEF PersistIndex, Persisted
<1> QED BY <1>1, <1>2, <1>3, <1>4, <1>5, <1>6, <1>7, <1>8 DEF Progress

LEMMA NextKeepsJob == Shape /\ [Next]_vars => JobOK'
<1> SUFFICES ASSUME Shape, [Next]_vars PROVE JobOK'
  OBVIOUS
<1>1. ASSUME NEW t \in Transfers, Request(t) PROVE JobOK'
  BY <1>1, RequestKeepsJob
<1>2. ASSUME NEW t \in Transfers, Expire("sweep", t) PROVE JobOK'
  BY <1>2, AbortJobIsOK DEF Expire, Enter, Kinds
<1>3. CASE Progress
  BY <1>3, ProgressKeepsJob
<1>4. CASE UNCHANGED job
  BY <1>4 DEF Shape, JobOK
<1>5. CASE Restart
  BY <1>5, NoJobIsOK DEF Restart
<1>6. ASSUME NEW t \in Transfers, SweepForgets(t) PROVE UNCHANGED job
  BY <1>6 DEF SweepForgets
<1>7. ASSUME NEW u \in Uploaders, Upload(u) PROVE UNCHANGED job
  BY <1>7 DEF Upload, UploadCheck, UploadIndex
<1>8. Tick => UNCHANGED job
  BY DEF Tick
<1> QED BY <1>1, <1>2, <1>3, <1>4, <1>5, <1>6, <1>7, <1>8 DEF Next, Sweep

\* The server's state keeps its type in every behaviour: TypeOK, whatever
\* requests, store failures, uploads and restarts it meets.
THEOREM TypeCorrect == Spec => []TypeOK
<1>1. Init => Shape
  BY InitTyped DEF Shape, Init, JobOK, NoJob, NewJob, NoRecord, TransferRecord
<1>2. Shape /\ [Next]_vars => Shape'
  BY NextKeepsTypes, NextKeepsJob DEF Shape
<1>3. Shape => TypeOK
  BY DEF Shape
<1> QED BY <1>1, <1>2, <1>3, PTL DEF Spec

(***************************************************************************)
(* Committed artifacts are whole.                                          *)
(***************************************************************************)
RecordsSafe == StoredWhole /\ CommittedIndexed /\ RecordsMinted /\ RecordsDisjoint
HandlerSafe == HandlerApart /\ HandlerCommits

LEMMA IInvParts == IInv <=> Shape /\ RecordsSafe /\ HandlerSafe
BY DEF IInv, Shape, RecordsSafe, HandlerSafe

LEMMA ObjectsAreTyped ==
  ASSUME NEW chunks \in [Indices -> TransferChunk \cup {NoChunk}]
  PROVE  Objects(chunks) \subseteq ChunkIds
BY DEF Objects, Listed, TransferChunk, NoChunk

LEMMA NoChunksHasNoObject == Objects(NoChunks) = {}
BY DEF Objects, Listed, NoChunks, NoChunk

\* Whole, with the stores as parameters.
WholeIn(r, rs, bs) ==
  /\ Complete(r.begin, r.chunks)
  /\ \A i \in Listed(r.chunks) : LET c == r.chunks[i].object_id IN
       c \in rs /\ bs[c] = r.chunks[i].hash /\ Len(bs[c]) = r.chunks[i].len

LEMMA WholeInStable ==
  ASSUME NEW r, NEW rs, NEW bs, NEW rs2, NEW bs2, WholeIn(r, rs, bs),
         \A c \in Objects(r.chunks) : (c \in rs => c \in rs2) /\ bs2[c] = bs[c]
  PROVE  WholeIn(r, rs2, bs2)
BY DEF WholeIn, Objects

LEMMA WholeNow ==
  /\ \A t \in Transfers : Whole(record[t]) <=> WholeIn(record[t], rows, blobs)
  /\ \A t \in Transfers : Whole(record[t])' <=> WholeIn(record'[t], rows', blobs')
  /\ Whole(job.target) <=> WholeIn(job.target, rows, blobs)
  /\ Whole(job.target)' <=> WholeIn(job'.target, rows', blobs')
BY DEF Whole, WholeIn, Readable

\* The chunk objects a step may touch are not those of a committed record.
Untouched(chunks) ==
  \A c \in Objects(chunks) : (c \in rows => c \in rows') /\ blobs'[c] = blobs[c]

\* A step that leaves the records alone.
LEMMA RecordsFrame ==
  ASSUME IInv, TypeOK', UNCHANGED record, minted <= minted',
         \A t \in Transfers : index[t] # "none" => index'[t] # "none",
         \A t \in Transfers : record[t].state = "Committed" => Untouched(record[t].chunks)
  PROVE  RecordsSafe'
<1>1. StoredWhole'
  BY WholeNow, WholeInStable DEF IInv, StoredWhole, Untouched
<1>2. CommittedIndexed'
  BY DEF IInv, CommittedIndexed
<1>3. RecordsMinted'
  <2>1. \A t \in Transfers : Objects(record[t].chunks) \subseteq ChunkIds
    BY ObjectsAreTyped DEF IInv, TypeOK, Records
  <2>2. minted \in Nat /\ minted' \in Nat
    BY BoundsAssumption DEF IInv, TypeOK
  <2>3. \A c \in ChunkIds : c \in Nat
    BY BoundsAssumption DEF ChunkIds
  <2>4. \A t \in Transfers : Objects(record[t].chunks)' = Objects(record[t].chunks)
    OBVIOUS
  <2> QED BY <2>1, <2>2, <2>3, <2>4 DEF IInv, RecordsMinted
<1>4. RecordsDisjoint'
  BY DEF IInv, RecordsDisjoint
<1> QED BY <1>1, <1>2, <1>3, <1>4 DEF RecordsSafe

LEMMA NoJobIsSafe == job' = NoJob => HandlerSafe'
BY NoChunksHasNoObject DEF HandlerSafe, HandlerApart, HandlerCommits, NoJob, NewJob, NoRecord, TransferRecord

\* A step that overwrites the record of the handler's transfer, with the target
\* or with nothing.
LEMMA RecordsWritten ==
  ASSUME IInv, TypeOK', job.kind # "none", UNCHANGED <<rows, blobs, minted>>,
         \A t \in Transfers : index[t] # "none" => index'[t] # "none",
         \/ record' = [record EXCEPT ![job.id] = job.target]
         \/ record' = [record EXCEPT ![job.id] = NoRecord]
  PROVE  RecordsSafe'
<1>1. /\ job.id \in Transfers
      /\ \A t \in Transfers : t # job.id => record'[t] = record[t]
      /\ record'[job.id] \in {job.target, NoRecord}
  BY DEF IInv, TypeOK, Jobs
<1>2. NoRecord.state = "Missing" /\ Objects(NoRecord.chunks) = {}
  BY NoChunksHasNoObject DEF NoRecord, TransferRecord
<1>3. StoredWhole'
  <2> SUFFICES ASSUME NEW t \in Transfers, record'[t].state = "Committed"
               PROVE  Whole(record[t])'
    BY DEF StoredWhole
  <2>1. CASE t = job.id
    <3>1. record'[t] = job.target /\ job.target.state = "Committed"
      BY <1>1, <1>2, <2>1
    <3>2. WholeIn(job.target, rows, blobs)
      BY <3>1, WholeNow DEF IInv, HandlerCommits
    <3> QED BY <3>1, <3>2, WholeNow
  <2>2. CASE t # job.id
    <3>1. WholeIn(record[t], rows, blobs)
      BY <1>1, <2>2, WholeNow DEF IInv, StoredWhole
    <3> QED BY <1>1, <2>2, <3>1, WholeNow
  <2> QED BY <2>1, <2>2
<1>4. CommittedIndexed'
  <2> SUFFICES ASSUME NEW t \in Transfers, record'[t].state = "Committed"
               PROVE  index'[t] # "none"
    BY DEF CommittedIndexed
  <2> QED BY <1>1, <1>2 DEF IInv, CommittedIndexed, HandlerCommits
<1>5. RecordsMinted'
  <2> SUFFICES ASSUME NEW t \in Transfers, NEW c \in Objects(record'[t].chunks)
               PROVE  c <= minted
    BY DEF RecordsMinted
  <2>1. CASE t = job.id
    <3>1. record'[t] = job.target
      BY <1>1, <1>2, <2>1
    <3> QED BY <3>1 DEF IInv, HandlerApart
  <2>2. CASE t # job.id
    BY <1>1, <2>2 DEF IInv, RecordsMinted
  <2> QED BY <2>1, <2>2
<1>6. RecordsDisjoint'
  <2> SUFFICES ASSUME NEW t \in Transfers, NEW u \in Transfers, t # u
               PROVE  Objects(record'[t].chunks) \cap Objects(record'[u].chunks) = {}
    BY DEF RecordsDisjoint
  <2>1. \A v \in Transfers : v # job.id =>
          Objects(record[v].chunks) \cap Objects(record'[job.id].chunks) = {}
    BY <1>1, <1>2 DEF IInv, HandlerApart
  <2>2. CASE t # job.id /\ u # job.id
    BY <1>1, <2>2 DEF IInv, RecordsDisjoint
  <2>3. CASE t = job.id
    BY <1>1, <2>1, <2>3
  <2>4. CASE u = job.id
    BY <1>1, <2>1, <2>4
  <2> QED BY <2>2, <2>3, <2>4
<1> QED BY <1>3, <1>4, <1>5, <1>6 DEF RecordsSafe

\* A step of the handler that keeps its target and dooms no further chunk.
LEMMA HandlerMoves ==
  ASSUME IInv, UNCHANGED minted, job.kind # "none",
         job'.kind = job.kind, job'.id = job.id, job'.target = job.target,
         job'.doomed \subseteq job.doomed,
         \A t \in Transfers : index[t] # "none" => index'[t] # "none",
         \A t \in Transfers : t # job.id => record'[t] = record[t],
         record'[job.id].state = "Committed" =>
           job'.step = "index" /\ job.target.state = "Committed",
         job.target.state = "Committed" => Untouched(job.target.chunks)
  PROVE  HandlerSafe'
<1>1. HandlerApart'
  BY DEF IInv, HandlerApart
<1>2. HandlerCommits'
  <2>1. job.target.state = "Committed" => WholeIn(job.target, rows', blobs')
    BY WholeNow, WholeInStable DEF IInv, HandlerCommits, Untouched
  <2>2. job.target.state = "Committed" => index'[job.id] # "none"
    BY DEF IInv, HandlerCommits, TypeOK, Jobs
  <2> QED BY <2>1, <2>2, WholeNow DEF HandlerCommits
<1> QED BY <1>1, <1>2 DEF HandlerSafe

LEMMA GiveUpIsSafe ==
  ASSUME IInv, GiveUp, UNCHANGED minted,
         \A t \in Transfers : t # job.id => record'[t] = record[t],
         record'[job.id].state = "Committed" => job.target.state = "Committed"
  PROVE  HandlerSafe'
<1>1. CASE job.kind = "chunk" /\ job.target.state = "InProgress"
  <2>1. /\ job'.kind = job.kind /\ job'.id = job.id
        /\ job'.target = NoRecord /\ job'.doomed = {job.chunk}
    BY <1>1 DEF GiveUp, IInv, TypeOK, Jobs
  <2>2. NoRecord.state = "Missing" /\ Objects(NoRecord.chunks) = {}
    BY NoChunksHasNoObject DEF NoRecord, TransferRecord
  <2>3. job.chunk \in Objects(job.target.chunks)
    BY <1>1, StagedChunk DEF IInv, Shape
  <2>4. HandlerApart'
    BY <1>1, <2>1, <2>2, <2>3 DEF IInv, HandlerApart
  <2>5. HandlerCommits'
    BY <1>1, <2>1, <2>2 DEF HandlerCommits
  <2> QED BY <2>4, <2>5 DEF HandlerSafe
<1>2. CASE ~(job.kind = "chunk" /\ job.target.state = "InProgress")
  BY <1>2, NoJobIsSafe DEF GiveUp
<1> QED BY <1>1, <1>2

LEMMA AbortJobIsSafe ==
  ASSUME IInv, NEW t \in Transfers, NEW kind, LoadsAs(t, "InProgress"),
         job' = AbortJob(kind, t), UNCHANGED <<record, minted>>
  PROVE  HandlerSafe'
<1>1. /\ job'.id = t /\ job'.target.chunks = NoChunks /\ job'.target.state = "Aborted"
      /\ job'.doomed = Objects(record[t].chunks)
  BY DEF AbortJob, NewJob, TransferRecord
<1>2. HandlerApart'
  BY <1>1, NoChunksHasNoObject DEF HandlerApart, IInv, RecordsDisjoint
<1>3. HandlerCommits'
  BY <1>1 DEF HandlerCommits, LoadsAs
<1> QED BY <1>2, <1>3 DEF HandlerSafe

\* A request that enters the handler touches no store.
LEMMA EnteringKeepsRecords ==
  ASSUME IInv, TypeOK', minted <= minted', UNCHANGED storeVars PROVE RecordsSafe'
BY RecordsFrame DEF Untouched

LEMMA RequestIsSafe ==
  ASSUME IInv, TypeOK', NEW t \in Transfers, Request(t) PROVE RecordsSafe' /\ HandlerSafe'
<1>m. minted \in Nat /\ minted <= minted
  BY BoundsAssumption DEF IInv, TypeOK
<1>o. \A u \in Transfers : /\ record[u].chunks \in [Indices -> TransferChunk \cup {NoChunk}]
                           /\ Objects(record[u].chunks) \subseteq ChunkIds
  BY ObjectsAreTyped DEF IInv, TypeOK, Records
<1>1. ASSUME NEW d \in Declarations, TransferBegin(t, d) PROVE RecordsSafe' /\ HandlerSafe'
  <2>1. RecordsSafe'
    BY <1>1, <1>m, EnteringKeepsRecords DEF TransferBegin, Enter
  <2>2. /\ job'.id = t /\ job'.target.chunks = NoChunks /\ job'.target.state = "InProgress"
        /\ job'.doomed = {}
    BY <1>1 DEF TransferBegin, Enter, NewJob, TransferRecord
  <2>3. HandlerApart'
    BY <2>2, NoChunksHasNoObject DEF HandlerApart
  <2>4. HandlerCommits'
    BY <1>1, <2>2 DEF HandlerCommits, TransferBegin, Enter, IInv, CommittedIndexed
  <2> QED BY <2>1, <2>3, <2>4 DEF HandlerSafe
<1>2. ASSUME NEW i \in Indices, NEW p \in Payloads, NEW h \in Payloads,
             TransferChunkArrives(t, i, p, h)
      PROVE RecordsSafe' /\ HandlerSafe'
  <2> DEFINE chunk == [object_id |-> minted + 1, len |-> Len(p), hash |-> h]
             next  == [record[t].chunks EXCEPT ![i] = chunk]
  <2>1. minted' = minted + 1 /\ UNCHANGED storeVars /\ record[t].state = "InProgress"
    BY <1>2 DEF TransferChunkArrives, Enter, Live, LoadsAs
  <2>2. RecordsSafe'
    BY <2>1, <1>m, EnteringKeepsRecords
  <2>3. /\ job'.id = t /\ job'.target.chunks = next /\ job'.target.state = "InProgress"
        /\ job'.doomed = {}
    BY <1>2 DEF TransferChunkArrives, Enter, NewJob, TransferRecord
  <2>4. Objects(next) \subseteq Objects(record[t].chunks) \cup {minted + 1}
    BY <1>o DEF Objects, Listed
  <2>5. \A u \in Transfers : \A c \in Objects(record[u].chunks) : c \in Nat /\ c <= minted
    BY <1>o, BoundsAssumption DEF IInv, RecordsMinted, ChunkIds
  <2>6. HandlerApart'
    <3>1. \A c \in Objects(next) : c <= minted + 1
      BY <2>4, <2>5, <1>m
    <3>2. \A u \in Transfers : u # t => Objects(record[u].chunks) \cap Objects(next) = {}
      <4> SUFFICES ASSUME NEW u \in Transfers, u # t, NEW c \in Objects(record[u].chunks),
                          c \in Objects(next)
                   PROVE  FALSE
        OBVIOUS
      <4>1. c \in Objects(record[t].chunks) \/ c = minted + 1
        BY <2>4
      <4>2. c \notin Objects(record[t].chunks)
        BY DEF IInv, RecordsDisjoint
      <4>3. c \in Nat /\ c <= minted
        BY <2>5
      <4>4. c # minted + 1
        BY <4>3, <1>m
      <4> QED BY <4>1, <4>2, <4>4
    <3> HIDE DEF next
    <3> QED BY <3>1, <3>2, <2>1, <2>3 DEF HandlerApart
  <2>7. HandlerCommits'
    BY <2>1, <2>3 DEF HandlerCommits
  <2> QED BY <2>2, <2>6, <2>7 DEF HandlerSafe
<1>3. ASSUME NEW h, TransferCommit(t, h) PROVE RecordsSafe' /\ HandlerSafe'
  <2>1. UNCHANGED <<storeVars, minted>> /\ LoadsAs(t, "InProgress") /\ Whole(record[t])
    BY <1>3 DEF TransferCommit, Enter, Live
  <2>2. RecordsSafe'
    BY <2>1, <1>m, EnteringKeepsRecords
  <2>3. /\ job'.id = t /\ job'.doomed = {} /\ job'.target.state = "Committed"
        /\ job'.target.chunks = record[t].chunks /\ job'.target.begin = record[t].begin
    BY <1>3 DEF TransferCommit, Enter, NewJob, TransferRecord
  <2>4. HandlerApart'
    BY <2>1, <2>3 DEF HandlerApart, IInv, RecordsMinted, RecordsDisjoint
  <2>5. WholeIn(job'.target, rows', blobs')
    <3>1. WholeIn(record[t], rows, blobs)
      BY <2>1, WholeNow
    <3> QED BY <3>1, <2>1, <2>3 DEF WholeIn
  <2>6. HandlerCommits'
    BY <2>1, <2>3, <2>5, WholeNow DEF HandlerCommits, LoadsAs, Loads
  <2> QED BY <2>2, <2>4, <2>6 DEF HandlerSafe
<1>4. ASSUME NEW kind, LoadsAs(t, "InProgress"), Enter(AbortJob(kind, t)), UNCHANGED minted
      PROVE RecordsSafe' /\ HandlerSafe'
  BY <1>4, <1>m, EnteringKeepsRecords, AbortJobIsSafe DEF Enter
<1>5. CASE TransferAbort(t)
  BY <1>4, <1>5 DEF TransferAbort
<1>6. ASSUME NEW kind \in {"chunk", "inspect", "commit"}, Expire(kind, t)
      PROVE RecordsSafe' /\ HandlerSafe'
  BY <1>4, <1>6 DEF Expire, Expired
<1>7. CASE TransferInspect(t)
  <2>1. RecordsSafe'
    BY <1>7, <1>m, EnteringKeepsRecords DEF TransferInspect
  <2>2. HandlerSafe'
    BY <1>7 DEF TransferInspect, IInv, HandlerSafe, HandlerApart, HandlerCommits, Whole, Readable
  <2> QED BY <2>1, <2>2
<1> QED BY <1>1, <1>2, <1>3, <1>5, <1>6, <1>7 DEF Request

\* While a handler stores or deletes chunks, its own record is not committed and
\* the chunks are no other transfer's.
LEMMA ChunkWorkIsSafe ==
  ASSUME IInv, TypeOK', UNCHANGED <<index, record, minted>>,
         job.step \in {"chunkPut", "chunkIndex", "dropBytes", "dropRow"},
         NEW c \in Objects(job.target.chunks) \cup job.doomed,
         \A o \in ChunkIds : o # c => (o \in rows => o \in rows') /\ blobs'[o] = blobs[o],
         \/ job' = NoJob
         \/ /\ job'.kind = job.kind /\ job'.id = job.id /\ job'.target = job.target
            /\ job'.doomed \subseteq job.doomed
  PROVE  RecordsSafe' /\ HandlerSafe'
<1>1. job.kind # "none" /\ job.id \in Transfers /\ job.target.state # "Committed"
  BY DEF IInv, JobOK, TypeOK, Jobs
<1>2. record[job.id].state # "Committed"
  BY <1>1 DEF IInv, HandlerCommits
<1>3. ASSUME NEW t \in Transfers, record[t].state = "Committed" PROVE Untouched(record[t].chunks)
  <2>1. c \notin Objects(record[t].chunks)
    BY <1>1, <1>2, <1>3 DEF IInv, HandlerApart
  <2>2. Objects(record[t].chunks) \subseteq ChunkIds
    BY ObjectsAreTyped DEF IInv, TypeOK, Records
  <2> QED BY <2>1, <2>2 DEF Untouched
<1>4. RecordsSafe'
  <2>1. minted <= minted'
    BY BoundsAssumption DEF IInv, TypeOK
  <2> QED BY <1>3, <2>1, RecordsFrame
<1>5. HandlerSafe'
  <2>1. CASE job' = NoJob
    BY <2>1, NoJobIsSafe
  <2>2. CASE job'.kind = job.kind /\ job'.id = job.id /\ job'.target = job.target
             /\ job'.doomed \subseteq job.doomed
    BY <1>1, <1>2, <2>2, HandlerMoves
  <2> QED BY <2>1, <2>2
<1> QED BY <1>4, <1>5

LEMMA ProgressIsSafe ==
  ASSUME IInv, TypeOK', Progress PROVE RecordsSafe' /\ HandlerSafe'
<1>j. job \in Jobs /\ minted <= minted
  BY BoundsAssumption DEF IInv, TypeOK
<1>b. blobs \in [ChunkIds -> Payloads \cup {NoBytes}]
  BY DEF IInv, TypeOK
<1>1. CASE ChunkPut
  <2>1. job.chunk \in Objects(job.target.chunks)
    BY <1>1, StagedChunk DEF ChunkPut, IInv, Shape, JobOK
  <2>2. \A o \in ChunkIds : o # job.chunk => (o \in rows => o \in rows') /\ blobs'[o] = blobs[o]
    BY <1>1, <1>b DEF ChunkPut
  <2>3. \/ job' = NoJob
        \/ /\ job'.kind = job.kind /\ job'.id = job.id /\ job'.target = job.target
           /\ job'.doomed \subseteq job.doomed
    BY <1>1, <1>j DEF ChunkPut, Jobs
  <2> QED BY <1>1, <2>1, <2>2, <2>3, ChunkWorkIsSafe DEF ChunkPut
<1>2. CASE ChunkIndex
  <2>1. job.chunk \in Objects(job.target.chunks)
    BY <1>2, StagedChunk DEF ChunkIndex, IInv, Shape, JobOK
  <2>2. \A o \in ChunkIds : o # job.chunk => (o \in rows => o \in rows') /\ blobs'[o] = blobs[o]
    BY <1>2, <1>b DEF ChunkIndex
  <2>3. \/ job' = NoJob
        \/ /\ job'.kind = job.kind /\ job'.id = job.id /\ job'.target = job.target
           /\ job'.doomed \subseteq job.doomed
    BY <1>2, <1>j DEF ChunkIndex, Jobs
  <2> QED BY <1>2, <2>1, <2>2, <2>3, ChunkWorkIsSafe DEF ChunkIndex
<1>3. ASSUME NEW c \in ChunkIds, DropBytes(c) PROVE RecordsSafe' /\ HandlerSafe'
  <2>1. c \in job.doomed
    BY <1>3 DEF DropBytes
  <2>2. \A o \in ChunkIds : o # c => (o \in rows => o \in rows') /\ blobs'[o] = blobs[o]
    BY <1>3, <1>b DEF DropBytes
  <2>3. /\ job'.kind = job.kind /\ job'.id = job.id /\ job'.target = job.target
        /\ job'.doomed \subseteq job.doomed
    BY ZenonT(60), <1>3, <1>j DEF DropBytes, Jobs
  <2> QED BY <1>3, <2>1, <2>2, <2>3, ChunkWorkIsSafe DEF DropBytes
<1>4. CASE DropRow
  <2>1. job.chunk \in job.doomed
    BY <1>4 DEF DropRow, IInv, JobOK
  <2>2. \A o \in ChunkIds : o # job.chunk => (o \in rows => o \in rows') /\ blobs'[o] = blobs[o]
    BY <1>4 DEF DropRow
  <2>3. /\ job'.kind = job.kind /\ job'.id = job.id /\ job'.target = job.target
        /\ job'.doomed \subseteq job.doomed
    BY <1>4, <1>j DEF DropRow, Jobs
  <2> QED BY <1>4, <2>1, <2>2, <2>3, ChunkWorkIsSafe DEF DropRow
<1>5. CASE DropDone
  <2>1. RecordsSafe'
    BY <1>5, <1>j, EnteringKeepsRecords DEF DropDone
  <2>2. CASE job' = NoJob
    BY <2>1, <2>2, NoJobIsSafe
  <2>3. CASE job' = [job EXCEPT !.step = "lookup"]
    <3>1. /\ job'.kind = job.kind /\ job'.id = job.id /\ job'.target = job.target
          /\ job'.doomed = job.doomed
      BY <1>j, <2>3 DEF Jobs
    <3>2. job.kind # "none" /\ job.target.state # "Committed" /\ record[job.id].state # "Committed"
      BY <1>5 DEF DropDone, IInv, JobOK, HandlerCommits
    <3> QED BY <1>5, <2>1, <3>1, <3>2, HandlerMoves DEF DropDone
  <2> QED BY <1>5, <2>2, <2>3 DEF DropDone
<1>6. CASE PersistLookup
  <2>1. RecordsSafe'
    BY <1>6, <1>j, EnteringKeepsRecords DEF PersistLookup
  <2>2. job.kind # "none" /\ record[job.id].state # "Committed"
    BY <1>6 DEF PersistLookup, IInv, JobOK, HandlerCommits
  <2>3. CASE GiveUp
    BY <1>6, <2>1, <2>2, <2>3, GiveUpIsSafe DEF PersistLookup
  <2>4. CASE job' = [job EXCEPT !.step = "put", !.existed = index[job.id] # "none"]
    <3>1. /\ job'.kind = job.kind /\ job'.id = job.id /\ job'.target = job.target
          /\ job'.doomed = job.doomed
      BY <1>j, <2>4 DEF Jobs
    <3> QED BY <1>6, <2>1, <2>2, <3>1, HandlerMoves DEF PersistLookup, Untouched
  <2> QED BY <1>6, <2>3, <2>4 DEF PersistLookup
<1>7. CASE PersistPut
  <2>1. /\ job.kind # "none" /\ record[job.id].state # "Committed"
        /\ job.id \in Transfers
    BY <1>7, <1>j DEF PersistPut, IInv, JobOK, HandlerCommits, Jobs
  <2>2. UNCHANGED record \/ record' = [record EXCEPT ![job.id] = job.target]
    BY <1>7 DEF PersistPut
  <2>3. RecordsSafe'
    <3>1. CASE UNCHANGED record
      BY <1>7, <1>j, <3>1, EnteringKeepsRecords DEF PersistPut
    <3>2. CASE record' = [record EXCEPT ![job.id] = job.target]
      BY <1>7, <2>1, <3>2, RecordsWritten DEF PersistPut
    <3> QED BY <2>2, <3>1, <3>2
  <2>4. /\ \A t \in Transfers : t # job.id => record'[t] = record[t]
        /\ record'[job.id].state = "Committed" => job.target.state = "Committed"
    BY <2>1, <2>2 DEF IInv, TypeOK
  <2>5. CASE GiveUp
    BY <1>7, <2>3, <2>4, <2>5, GiveUpIsSafe DEF PersistPut
  <2>6. CASE job' = [job EXCEPT !.step = "index"]
    <3>1. /\ job'.kind = job.kind /\ job'.id = job.id /\ job'.target = job.target
          /\ job'.doomed = job.doomed /\ job'.step = "index"
      BY <1>j, <2>6 DEF Jobs
    <3> QED BY <1>7, <2>1, <2>3, <2>4, <3>1, HandlerMoves DEF PersistPut, Untouched
  <2> QED BY <1>7, <2>5, <2>6 DEF PersistPut
<1>8. CASE PersistIndex
  <2>1. /\ job.kind # "none" /\ job.id \in Transfers
        /\ \A t \in Transfers : index[t] # "none" => index'[t] # "none"
    BY <1>8, <1>j DEF PersistIndex, IInv, JobOK, TypeOK, Jobs
  <2>2. UNCHANGED record \/ record' = [record EXCEPT ![job.id] = NoRecord]
    BY <1>8 DEF PersistIndex
  <2>3. RecordsSafe'
    <3>1. CASE UNCHANGED record
      BY <1>8, <1>j, <2>1, <3>1, RecordsFrame DEF PersistIndex, Untouched
    <3>2. CASE record' = [record EXCEPT ![job.id] = NoRecord]
      BY <1>8, <2>1, <3>2, RecordsWritten DEF PersistIndex
    <3> QED BY <2>2, <3>1, <3>2
  <2>4. CASE GiveUp
    <3>1. /\ \A t \in Transfers : t # job.id => record'[t] = record[t]
          /\ record'[job.id].state = "Committed" => job.target.state = "Committed"
      BY <2>1, <2>2 DEF IInv, TypeOK, HandlerCommits, NoRecord, TransferRecord
    <3> QED BY <1>8, <2>3, <2>4, <3>1, GiveUpIsSafe DEF PersistIndex
  <2>5. CASE Persisted
    BY <2>3, <2>5, NoJobIsSafe DEF Persisted
  <2> QED BY <1>8, <2>4, <2>5 DEF PersistIndex
<1> QED BY <1>1, <1>2, <1>3, <1>4, <1>5, <1>6, <1>7, <1>8 DEF Progress

LEMMA NextKeepsIInv == IInv /\ [Next]_vars => IInv'
<1> SUFFICES ASSUME IInv, [Next]_vars PROVE IInv'
  OBVIOUS
<1>1. TypeOK' /\ JobOK'
  BY IInvParts, NextKeepsTypes, NextKeepsJob DEF Shape
<1> SUFFICES RecordsSafe' /\ HandlerSafe'
  BY <1>1 DEF IInv, RecordsSafe, HandlerSafe
<1>2. ASSUME UNCHANGED <<record, rows, blobs, minted, job>>,
             \A t \in Transfers : index[t] # "none" => index'[t] # "none"
      PROVE  RecordsSafe' /\ HandlerSafe'
  <2>1. minted <= minted'
    BY <1>2, BoundsAssumption DEF IInv, TypeOK
  <2>2. RecordsSafe'
    BY <1>1, <1>2, <2>1, RecordsFrame DEF Untouched
  <2>3. HandlerApart'
    BY <1>2 DEF IInv, HandlerApart
  <2>4. HandlerCommits'
    BY <1>2 DEF IInv, HandlerCommits, Whole, Readable, TypeOK, Jobs
  <2> QED BY <2>2, <2>3, <2>4 DEF HandlerSafe
<1>3. ASSUME NEW t \in Transfers, Request(t) PROVE RecordsSafe' /\ HandlerSafe'
  BY <1>1, <1>3, RequestIsSafe
<1>4. ASSUME NEW t \in Transfers, Sweep(t) PROVE RecordsSafe' /\ HandlerSafe'
  <2>1. CASE Expire("sweep", t)
    <3>1. UNCHANGED <<storeVars, minted>> /\ minted <= minted' /\ LoadsAs(t, "InProgress")
          /\ job' = AbortJob("sweep", t)
      BY <2>1, BoundsAssumption DEF Expire, Expired, Enter, IInv, TypeOK
    <3> QED BY <1>1, <3>1, EnteringKeepsRecords, AbortJobIsSafe
  <2>2. CASE SweepForgets(t)
    BY <1>2, <2>2 DEF SweepForgets
  <2> QED BY <1>4, <2>1, <2>2 DEF Sweep
<1>5. CASE Progress
  BY <1>1, <1>5, ProgressIsSafe
<1>6. ASSUME NEW u \in Uploaders, Upload(u) PROVE RecordsSafe' /\ HandlerSafe'
  <2>1. \A t \in Transfers : index[t] # "none" => index'[t] # "none"
    BY <1>6 DEF Upload, UploadCheck, UploadIndex, IInv, TypeOK
  <2>2. UNCHANGED <<record, rows, blobs, minted, job>>
    BY <1>6 DEF Upload, UploadCheck, UploadIndex
  <2> QED BY <1>2, <2>1, <2>2
<1>7. CASE Tick
  BY <1>2, <1>7 DEF Tick
<1>8. CASE Restart
  <2>1. RecordsSafe'
    <3>1. minted <= minted'
      BY <1>8, BoundsAssumption DEF Restart, IInv, TypeOK
    <3> QED BY <1>1, <1>8, <3>1, EnteringKeepsRecords DEF Restart
  <2> QED BY <1>8, <2>1, NoJobIsSafe DEF Restart
<1>9. CASE UNCHANGED vars
  BY <1>2, <1>9
<1> QED BY <1>3, <1>4, <1>5, <1>6, <1>7, <1>8, <1>9 DEF Next

LEMMA InitIInv == Init => IInv
<1> SUFFICES ASSUME Init PROVE IInv
  OBVIOUS
<1>1. Shape
  BY InitTyped DEF Shape, Init, JobOK, NoJob, NewJob, NoRecord, TransferRecord
<1>2. \A t \in Transfers : record[t].state = "Missing" /\ Objects(record[t].chunks) = {}
  BY NoChunksHasNoObject DEF Init, NoRecord, TransferRecord
<1>3. RecordsSafe
  BY <1>2 DEF RecordsSafe, StoredWhole, CommittedIndexed, RecordsMinted, RecordsDisjoint
<1>4. HandlerSafe
  BY NoChunksHasNoObject DEF Init, NoJob, NewJob, NoRecord, TransferRecord, HandlerSafe, HandlerApart, HandlerCommits
<1> QED BY <1>1, <1>3, <1>4, IInvParts

\* Whatever fails and whenever the server restarts, a committed transfer can be
\* read back and is the declared artifact: CommittedIsWhole.
THEOREM CommittedAreWhole == Spec => []CommittedIsWhole
<1>1. IInv => CommittedIsWhole
  BY DEF IInv, StoredWhole, CommittedIsWhole, LoadsAs
<1> QED BY <1>1, InitIInv, NextKeepsIInv, PTL DEF Spec

-----------------------------------------------------------------------------
(* What a handler is about to make of its transfer                         *)

Begins(r) ==
  \E d \in Declarations : d.expected_chunks <= MaxParts /\ r = TransferRecord("InProgress", d, NoChunks)

Stages(q, r) ==
  \E i \in Indices, c \in TransferChunk :
    /\ i < q.begin.expected_chunks /\ i \notin Listed(q.chunks)
    /\ r = TransferRecord("InProgress", q.begin, [q.chunks EXCEPT ![i] = c])

Ends(q, r) ==
  \/ r = TransferRecord("Committed", q.begin, q.chunks)
  \/ r = TransferRecord("Aborted", q.begin, NoChunks)

\* Record r replaces q, that of a transfer whose row is ix.
Follows(ix, q, r) ==
  \/ ix = "none" /\ Begins(r)
  \/ ix = "record" /\ q.state = "InProgress" /\ (Stages(q, r) \/ Ends(q, r))

\* A handler has in hand what follows from the record, until it has put it.
Plans ==
  /\ \A t \in Transfers : index[t] \in {"none", "record"}
  /\ job.kind # "none" /\ job.target.state # "Missing" =>
       IF job.step # "index" THEN Follows(index[job.id], record[job.id], job.target)
       ELSE record[job.id] = job.target /\ (index[job.id] = "none" => Begins(job.target))
  /\ job.step \in {"put", "index"} => (job.existed <=> index[job.id] # "none")

LEMMA IdlePlans ==
  ASSUME Plans, \A t \in Transfers : index'[t] \in {"none", "record"}, job' = NoJob
  PROVE  Plans'
BY DEF Plans, NoJob, NewJob

\* The handler goes on with the same record in hand.
LEMMA GoingOnPlans ==
  ASSUME Plans, UNCHANGED <<index, record>>, job.step # "index",
         job'.kind = job.kind, job'.id = job.id, job'.target = job.target,
         job'.step # "index", job'.step = "put" => (job'.existed <=> index[job.id] # "none")
  PROVE  Plans'
BY DEF Plans

\* Its record could not be persisted: the chunk it was for is deleted again.
LEMMA GivingUpPlans ==
  ASSUME IInv, Plans, \A t \in Transfers : index'[t] \in {"none", "record"}, GiveUp
  PROVE  Plans'
<1>1. CASE job' = NoJob BY <1>1, IdlePlans
<1>2. CASE job' = [job EXCEPT !.step = "dropBytes", !.doomed = {job.chunk}, !.target = NoRecord]
  <2>1. job'.step = "dropBytes" /\ job'.target = NoRecord BY <1>2 DEF IInv, TypeOK, Jobs
  <2> QED BY <2>1 DEF Plans, NoRecord, TransferRecord
<1> QED BY <1>1, <1>2 DEF GiveUp

\* A request enters the critical section with a plan.
LEMMA EnteringPlans ==
  ASSUME Plans, NEW t \in Transfers, NEW j, Enter(j), j.id = t, j.step \notin {"put", "index"},
         Follows(index[t], record[t], j.target)
  PROVE  Plans'
BY DEF Plans, Enter

LEMMA AbortPlans ==
  ASSUME Plans, NEW t \in Transfers, NEW kind, LoadsAs(t, "InProgress"), Enter(AbortJob(kind, t))
  PROVE  Plans'
<1> DEFINE j == AbortJob(kind, t)
<1>1. j.id = t /\ j.step = "dropBytes" /\ j.target = TransferRecord("Aborted", record[t].begin, NoChunks)
  BY DEF AbortJob, NewJob
<1>2. Follows(index[t], record[t], j.target) BY <1>1 DEF Follows, Ends, LoadsAs, Loads
<1> QED BY <1>1, <1>2, EnteringPlans

LEMMA RequestPlans ==
  ASSUME IInv, Plans, NEW t \in Transfers, Request(t)
  PROVE  Plans'
<1>1. ASSUME NEW d \in Declarations, TransferBegin(t, d) PROVE Plans'
  <2> DEFINE j == NewJob("begin", t, "lookup", TransferRecord("InProgress", d, NoChunks))
  <2>1. j.id = t /\ j.step = "lookup" /\ j.target = TransferRecord("InProgress", d, NoChunks) BY DEF NewJob
  <2>2. Follows(index[t], record[t], j.target) BY <1>1, <2>1 DEF TransferBegin, Follows, Begins
  <2>3. Enter(j) BY <1>1 DEF TransferBegin
  <2> HIDE DEF j
  <2> QED BY <2>1, <2>2, <2>3, EnteringPlans
<1>2. ASSUME NEW i \in Indices, NEW p \in Payloads, NEW h \in Payloads, TransferChunkArrives(t, i, p, h) PROVE Plans'
  <2> DEFINE chunk == [object_id |-> minted + 1, len |-> Len(p), hash |-> h]
             target == TransferRecord("InProgress", record[t].begin, [record[t].chunks EXCEPT ![i] = chunk])
             j == [NewJob("chunk", t, "chunkPut", target) EXCEPT !.chunk = minted + 1, !.at = i]
  <2>1. j.id = t /\ j.step = "chunkPut" /\ j.target = target BY DEF NewJob
  <2>2. chunk \in TransferChunk
    <3>1. minted + 1 \in ChunkIds BY <1>2, BoundsAssumption DEF TransferChunkArrives, IInv, TypeOK, ChunkIds
    <3>2. Len(p) \in Nat BY PayloadsAssumption
    <3> QED BY <3>1, <3>2 DEF TransferChunk
  <2>3. Stages(record[t], target) BY <1>2, <2>2 DEF TransferChunkArrives, Stages
  <2>4. Follows(index[t], record[t], j.target)
    BY <1>2, <2>1, <2>3 DEF TransferChunkArrives, Follows, Live, LoadsAs, Loads
  <2>5. Enter(j) BY <1>2 DEF TransferChunkArrives
  <2> HIDE DEF j
  <2> QED BY <2>1, <2>4, <2>5, EnteringPlans
<1>3. ASSUME NEW h, TransferCommit(t, h) PROVE Plans'
  <2> DEFINE j == NewJob("commit", t, "lookup", TransferRecord("Committed", record[t].begin, record[t].chunks))
  <2>1. j.id = t /\ j.step = "lookup" /\ j.target = TransferRecord("Committed", record[t].begin, record[t].chunks)
    BY DEF NewJob
  <2>2. Follows(index[t], record[t], j.target)
    BY <1>3, <2>1 DEF TransferCommit, Follows, Ends, Live, LoadsAs, Loads
  <2>3. Enter(j) BY <1>3 DEF TransferCommit
  <2> HIDE DEF j
  <2> QED BY <2>1, <2>2, <2>3, EnteringPlans
<1>4. CASE TransferAbort(t) BY <1>4, AbortPlans DEF TransferAbort
<1>5. ASSUME NEW kind \in {"chunk", "inspect", "commit"}, Expire(kind, t) PROVE Plans'
  BY <1>5, AbortPlans DEF Expire, Expired
<1>6. CASE TransferInspect(t) BY <1>6 DEF TransferInspect, Plans
<1> QED BY <1>1, <1>2, <1>3, <1>4, <1>5, <1>6 DEF Request

LEMMA ProgressPlans == IInv /\ Plans /\ Progress => Plans'
<1> SUFFICES ASSUME IInv, Plans, Progress PROVE Plans' OBVIOUS
<1>j. job \in Jobs /\ JobOK BY DEF IInv, TypeOK
<1>1. CASE ChunkPut
  <2>1. job' = NoJob \/ job' = [job EXCEPT !.step = "chunkIndex"] BY <1>1 DEF ChunkPut
  <2>2. UNCHANGED <<index, record>> /\ job.step = "chunkPut" BY <1>1 DEF ChunkPut
  <2>3. CASE job' = NoJob BY <2>2, <2>3, IdlePlans DEF Plans
  <2>4. CASE job' = [job EXCEPT !.step = "chunkIndex"] BY <1>j, <2>2, <2>4, GoingOnPlans DEF Jobs
  <2> QED BY <2>1, <2>3, <2>4
<1>2. CASE ChunkIndex
  <2>1. job' = NoJob \/ job' = [job EXCEPT !.step = "lookup"] BY <1>2 DEF ChunkIndex
  <2>2. UNCHANGED <<index, record>> /\ job.step = "chunkIndex" BY <1>2 DEF ChunkIndex
  <2>3. CASE job' = NoJob BY <2>2, <2>3, IdlePlans DEF Plans
  <2>4. CASE job' = [job EXCEPT !.step = "lookup"] BY <1>j, <2>2, <2>4, GoingOnPlans DEF Jobs
  <2> QED BY <2>1, <2>3, <2>4
<1>3. ASSUME NEW c \in ChunkIds, DropBytes(c) PROVE Plans'
  <2>1. UNCHANGED <<index, record>> /\ job.step = "dropBytes" BY <1>3 DEF DropBytes
  <2>2. /\ job'.kind = job.kind /\ job'.id = job.id /\ job'.target = job.target
        /\ job'.step \in {"dropBytes", "dropRow"}
    BY <1>3, <1>j DEF DropBytes, Jobs
  <2> QED BY <2>1, <2>2, GoingOnPlans
<1>4. CASE DropRow
  <2>1. UNCHANGED <<index, record>> /\ job.step = "dropRow" BY <1>4 DEF DropRow
  <2>2. job'.kind = job.kind /\ job'.id = job.id /\ job'.target = job.target /\ job'.step = "dropBytes"
    BY <1>4, <1>j DEF DropRow, Jobs
  <2> QED BY <2>1, <2>2, GoingOnPlans
<1>5. CASE DropDone
  <2>1. UNCHANGED <<index, record>> /\ job.step = "dropBytes" BY <1>5 DEF DropDone
  <2>2. job' = NoJob \/ job' = [job EXCEPT !.step = "lookup"] BY <1>5 DEF DropDone
  <2>3. CASE job' = NoJob BY <2>1, <2>3, IdlePlans DEF Plans
  <2>4. CASE job' = [job EXCEPT !.step = "lookup"] BY <1>j, <2>1, <2>4, GoingOnPlans DEF Jobs
  <2> QED BY <2>2, <2>3, <2>4
<1>6. CASE PersistLookup
  <2>1. UNCHANGED <<index, record>> /\ job.step = "lookup" BY <1>6 DEF PersistLookup
  <2>2. CASE GiveUp BY <2>1, <2>2, GivingUpPlans DEF Plans
  <2>3. CASE job' = [job EXCEPT !.step = "put", !.existed = index[job.id] # "none"]
    <3>1. /\ job'.kind = job.kind /\ job'.id = job.id /\ job'.target = job.target /\ job'.step = "put"
          /\ job'.existed = (index[job.id] # "none")
      BY <1>j, <2>3 DEF Jobs
    <3> QED BY <2>1, <3>1, GoingOnPlans
  <2> QED BY <1>6, <2>2, <2>3 DEF PersistLookup
<1>7. CASE PersistPut
  <2>1. UNCHANGED index /\ job.step = "put" BY <1>7 DEF PersistPut
  <2>2. CASE GiveUp BY <2>1, <2>2, GivingUpPlans DEF Plans
  <2>3. CASE job' = [job EXCEPT !.step = "index"] /\ record' = [record EXCEPT ![job.id] = job.target]
    <3>1. /\ job'.kind = job.kind /\ job'.id = job.id /\ job'.target = job.target /\ job'.step = "index"
          /\ job'.existed = job.existed /\ job.id \in Transfers
      BY <1>j, <2>3 DEF Jobs
    <3>2. record'[job.id] = job.target BY <2>3, <3>1 DEF IInv, TypeOK
    <3>3. job.kind # "none" /\ job.target.state # "Missing" BY <1>j, <2>1 DEF JobOK
    <3>4. index[job.id] = "none" => Begins(job.target) BY <2>1, <3>3 DEF Plans, Follows
    <3> QED BY <2>1, <3>1, <3>2, <3>4 DEF Plans
  <2> QED BY <1>7, <2>2, <2>3 DEF PersistPut
<1>8. CASE PersistIndex
  <2>1. index' = index \/ index' = [index EXCEPT ![job.id] = "record"] BY <1>8 DEF PersistIndex
  <2>2. \A t \in Transfers : index'[t] \in {"none", "record"} BY <2>1 DEF Plans, IInv, TypeOK
  <2>3. CASE GiveUp BY <2>2, <2>3, GivingUpPlans
  <2>4. CASE Persisted BY <2>2, <2>4, IdlePlans DEF Persisted
  <2> QED BY <1>8, <2>3, <2>4 DEF PersistIndex
<1> QED BY <1>1, <1>2, <1>3, <1>4, <1>5, <1>6, <1>7, <1>8 DEF Progress

LEMMA NextPlans == Uploaders = {} /\ IInv /\ Plans /\ [Next]_vars => Plans'
<1> SUFFICES ASSUME Uploaders = {}, IInv, Plans, [Next]_vars PROVE Plans' OBVIOUS
<1>1. ASSUME NEW t \in Transfers, Request(t) PROVE Plans' BY <1>1, RequestPlans
<1>2. ASSUME NEW t \in Transfers, Sweep(t) PROVE Plans'
  <2>1. CASE Expire("sweep", t) BY <2>1, AbortPlans DEF Expire, Expired
  <2>2. CASE SweepForgets(t) BY <2>2 DEF SweepForgets, Plans
  <2> QED BY <1>2, <2>1, <2>2 DEF Sweep
<1>3. CASE Progress BY <1>3, ProgressPlans
<1>4. CASE Tick BY <1>4 DEF Tick, Plans
<1>5. CASE Restart BY <1>5, IdlePlans DEF Restart, Plans
<1>6. CASE UNCHANGED vars BY <1>6 DEF Plans
<1> QED BY <1>1, <1>2, <1>3, <1>4, <1>5, <1>6 DEF Next

LEMMA InitPlans == Init => Plans
BY DEF Init, Plans, NoJob, NewJob

-----------------------------------------------------------------------------
(* What readers see                                                        *)

\* The artifact of a transfer whose readers see record r.
Seen(r) ==
  [state |-> r.state, begin |-> r.begin,
   parts |-> [i \in Listed(r.chunks) |-> IF r.state = "Committed" THEN Fetched(r.chunks[i]) ELSE r.chunks[i].hash]]

\* The same, of a record that is not committed or is whole: its hashes are its bytes.
Shown(r) == [state |-> r.state, begin |-> r.begin, parts |-> Parts(r.chunks)]

LEMMA WholeIsShown ==
  ASSUME NEW r, r.state = "Committed" => Whole(r)
  PROVE  Seen(r) = Shown(r)
<1>1. CASE r.state = "Committed"
  <2>1. \A i \in Listed(r.chunks) : Fetched(r.chunks[i]) = r.chunks[i].hash
    BY <1>1 DEF Whole, Readable, Fetched
  <2> QED BY <1>1, <2>1 DEF Seen, Shown, Parts
<1>2. CASE r.state # "Committed" BY <1>2 DEF Seen, Shown, Parts
<1> QED BY <1>1, <1>2

\* Since committed records are whole, readers see the records alone.
LEMMA ArtifactIsShown == IInv => Artifact = [t \in Transfers |-> Shown(Visible(t))]
<1> SUFFICES ASSUME IInv PROVE Artifact = [t \in Transfers |-> Shown(Visible(t))] OBVIOUS
<1>1. ASSUME NEW t \in Transfers PROVE Seen(Visible(t)) = Shown(Visible(t))
  <2>1. Visible(t).state = "Committed" => Whole(Visible(t))
    BY DEF Visible, Loads, IInv, StoredWhole, NoRecord, TransferRecord
  <2> QED BY <2>1, WholeIsShown
<1>2. Artifact = [t \in Transfers |-> Seen(Visible(t))] BY DEF Artifact, Seen
<1> QED BY <1>1, <1>2

LEMMA ArtifactIsShownNext == (IInv => Artifact = [t \in Transfers |-> Shown(Visible(t))])'
BY ArtifactIsShown, PTL

LEMMA NoPartsOfNoChunks == Parts(NoChunks) = <<>> /\ Listed(NoChunks) = {}
<1>1. Listed(NoChunks) = {} BY DEF Listed, NoChunks, NoChunk
<1> QED BY <1>1 DEF Parts

LEMMA InitIsUnstarted == Init => Contract!Init
<1> SUFFICES ASSUME Init PROVE Contract!Init OBVIOUS
<1>1. ASSUME NEW t \in Transfers PROVE Shown(Visible(t)) = Contract!Unstarted
  <2>1. Visible(t) = NoRecord BY DEF Init, Visible, Loads
  <2> QED BY <2>1, NoPartsOfNoChunks DEF Shown, NoRecord, TransferRecord, NoDeclaration, Contract!Unstarted
<1> QED BY <1>1, InitIInv, ArtifactIsShown DEF Contract!Init

\* One record replaced by one that follows from it is a step of the contract.
LEMMA BeginIsDeclare ==
  ASSUME NEW t \in Transfers, NEW r, Begins(r), Artifact[t] = Shown(NoRecord),
         Artifact' = [Artifact EXCEPT ![t] = Shown(r)]
  PROVE  Contract!Next
<1>1. PICK d \in Declarations : d.expected_chunks <= MaxParts /\ r = TransferRecord("InProgress", d, NoChunks)
  BY DEF Begins
<1>2. Shown(r) = [state |-> "InProgress", begin |-> d, parts |-> <<>>]
  BY <1>1, NoPartsOfNoChunks DEF Shown, TransferRecord
<1>3. Artifact[t].state = "Missing" BY DEF Shown, NoRecord, TransferRecord
<1>4. Contract!Declare(t, d) BY <1>1, <1>2, <1>3 DEF Contract!Declare
<1> QED BY <1>4 DEF Contract!Next

LEMMA ChunkIsStage ==
  ASSUME NEW t \in Transfers, NEW q \in Records, NEW r, q.state = "InProgress", Stages(q, r),
         Artifact[t] = Shown(q), Artifact' = [Artifact EXCEPT ![t] = Shown(r)]
  PROVE  Contract!Next
<1>1. PICK i \in Indices, c \in TransferChunk :
        /\ i < q.begin.expected_chunks /\ i \notin Listed(q.chunks)
        /\ r = TransferRecord("InProgress", q.begin, [q.chunks EXCEPT ![i] = c])
  BY DEF Stages
<1>2. q.chunks \in [Indices -> TransferChunk \cup {NoChunk}] BY DEF Records
<1>3. c.hash \in Payloads /\ c.object_id # 0 BY BoundsAssumption DEF TransferChunk, ChunkIds
<1>4. Listed(r.chunks) = Listed(q.chunks) \cup {i} BY <1>1, <1>2, <1>3 DEF Listed, TransferRecord
<1>5. Parts(r.chunks) = [k \in Listed(q.chunks) \cup {i} |-> IF k = i THEN c.hash ELSE Parts(q.chunks)[k]]
  <2>1. \A k \in Listed(q.chunks) \cup {i} : r.chunks[k] = IF k = i THEN c ELSE q.chunks[k]
    BY <1>1, <1>2 DEF TransferRecord, Listed
  <2> QED BY <1>4, <2>1 DEF Parts
<1>6. DOMAIN Artifact[t].parts = Listed(q.chunks) /\ Artifact[t].parts = Parts(q.chunks)
      /\ Artifact[t].state = "InProgress" /\ Artifact[t].begin = q.begin
  BY DEF Shown, Parts
<1>7. Shown(r) = [Artifact[t] EXCEPT !.parts =
                   [k \in Listed(q.chunks) \cup {i} |-> IF k = i THEN c.hash ELSE Parts(q.chunks)[k]]]
  <2>1. r.state = "InProgress" /\ r.begin = q.begin BY <1>1 DEF TransferRecord
  <2>2. Shown(r) = [state |-> "InProgress", begin |-> q.begin, parts |-> Parts(r.chunks)] BY <2>1 DEF Shown
  <2>3. Artifact[t] = [state |-> "InProgress", begin |-> q.begin, parts |-> Parts(q.chunks)] BY DEF Shown
  <2>4. ASSUME NEW parts PROVE [Artifact[t] EXCEPT !.parts = parts]
                                = [state |-> "InProgress", begin |-> q.begin, parts |-> parts]
    BY <2>3
  <2> QED BY <1>5, <2>2, <2>4
<1>8. Contract!Stage(t, i, c.hash) BY <1>1, <1>6, <1>7 DEF Contract!Stage
<1>9. i \in 0..(MaxParts - 1) BY DEF Indices
<1> QED BY <1>3, <1>8, <1>9 DEF Contract!Next

LEMMA EndIsPublishOrDiscard ==
  ASSUME NEW t \in Transfers, NEW q \in Records, NEW r, q.state = "InProgress", Ends(q, r),
         r.state = "Committed" => Whole(r),
         Artifact[t] = Shown(q), Artifact' = [Artifact EXCEPT ![t] = Shown(r)]
  PROVE  Contract!Next
<1>1. Artifact[t].state = "InProgress" /\ Artifact[t].begin = q.begin /\ Artifact[t].parts = Parts(q.chunks)
  BY DEF Shown
<1>2. CASE r = TransferRecord("Committed", q.begin, q.chunks)
  <2>1. Complete(q.begin, q.chunks) BY <1>2 DEF Whole, TransferRecord
  <2>2. DOMAIN Parts(q.chunks) = 0..(q.begin.expected_chunks - 1) BY <2>1 DEF Complete, Parts
  <2>3. Contract!Assembled(Parts(q.chunks), q.begin.expected_chunks) = q.begin.expected_hash
    BY <2>1 DEF Complete, Joined, Contract!Assembled
  <2>4. Shown(r) = [Artifact[t] EXCEPT !.state = "Committed"] BY <1>2 DEF Shown, TransferRecord
  <2>5. Contract!Publish(t) BY <1>1, <2>2, <2>3, <2>4 DEF Contract!Publish
  <2> QED BY <2>5 DEF Contract!Next
<1>3. CASE r = TransferRecord("Aborted", q.begin, NoChunks)
  <2>1. Shown(r) = [Artifact[t] EXCEPT !.state = "Aborted", !.parts = <<>>]
    <3>1. Artifact[t] = [state |-> "InProgress", begin |-> q.begin, parts |-> Parts(q.chunks)] BY DEF Shown
    <3>2. Shown(r) = [state |-> "Aborted", begin |-> q.begin, parts |-> Parts(NoChunks)]
      BY <1>3 DEF Shown, TransferRecord
    <3>3. ASSUME NEW parts PROVE [Artifact[t] EXCEPT !.state = "Aborted", !.parts = parts]
                                  = [state |-> "Aborted", begin |-> q.begin, parts |-> parts]
      <4> DEFINE a == [Artifact[t] EXCEPT !.state = "Aborted"]
      <4>1. a = [state |-> "Aborted", begin |-> q.begin, parts |-> Parts(q.chunks)] BY <3>1
      <4> HIDE DEF a
      <4>2. [a EXCEPT !.parts = parts] = [state |-> "Aborted", begin |-> q.begin, parts |-> parts] BY <4>1
      <4> QED BY <4>2 DEF a
    <3> QED BY <3>2, <3>3, NoPartsOfNoChunks
  <2>2. Contract!Discard(t) BY <1>1, <2>1 DEF Contract!Discard
  <2> QED BY <2>2 DEF Contract!Next
<1> QED BY <1>2, <1>3 DEF Ends

-----------------------------------------------------------------------------
(* Every step is one of the contract, or none                              *)

LEMMA HiddenStep ==
  ASSUME IInv, IInv', \A t \in Transfers : Visible(t)' = Visible(t)
  PROVE  Artifact' = Artifact
<1>1. Artifact = [t \in Transfers |-> Shown(Visible(t))] BY ArtifactIsShown
<1>2. Artifact' = [t \in Transfers |-> Shown(Visible(t))'] BY ArtifactIsShownNext
<1>3. \A t \in Transfers : Shown(Visible(t))' = Shown(Visible(t)) BY DEF Shown, Parts, Listed
<1> QED BY <1>1, <1>2, <1>3

LEMMA ShownStep ==
  ASSUME IInv, IInv', NEW u \in Transfers, \A t \in Transfers : t # u => Visible(t)' = Visible(t),
         NEW r, Visible(u)' = r
  PROVE  Artifact' = [Artifact EXCEPT ![u] = Shown(r)] /\ Artifact[u] = Shown(Visible(u))
<1>1. Artifact = [t \in Transfers |-> Shown(Visible(t))] BY ArtifactIsShown
<1>2. Artifact' = [t \in Transfers |-> Shown(Visible(t))'] BY ArtifactIsShownNext
<1>3. \A t \in Transfers : t # u => Shown(Visible(t))' = Shown(Visible(t)) BY DEF Shown, Parts, Listed
<1>4. Shown(Visible(u))' = Shown(r) BY DEF Shown, Parts, Listed
<1> QED BY <1>1, <1>2, <1>3, <1>4

\* The record of a transfer with a row is replaced by the one in hand.
LEMMA PutIsAStep ==
  ASSUME IInv, IInv', Plans, PersistPut, Uploaders = {}
  PROVE  [Contract!Next]_Artifact
<1>0. job.id \in Transfers BY DEF IInv, TypeOK, Jobs
<1> PICK t \in Transfers : t = job.id BY <1>0
<1>1. t \in Transfers /\ job.step = "put" /\ job.kind # "none" /\ job.target.state # "Missing" /\ UNCHANGED index
  BY DEF PersistPut, IInv, TypeOK, Jobs, JobOK
<1>2. Follows(index[t], record[t], job.target) BY <1>1 DEF Plans
<1>3. CASE UNCHANGED record
  <2>1. \A u \in Transfers : Visible(u)' = Visible(u) BY <1>1, <1>3 DEF Visible, Loads
  <2> QED BY <2>1, HiddenStep
<1>4. CASE record' = [record EXCEPT ![t] = job.target] /\ index[t] = "none"
  <2>1. \A u \in Transfers : Visible(u)' = Visible(u) BY <1>1, <1>4 DEF Visible, Loads, IInv, TypeOK
  <2> QED BY <2>1, HiddenStep
<1>5. CASE record' = [record EXCEPT ![t] = job.target] /\ index[t] # "none"
  <2>1. \A u \in Transfers : u # t => Visible(u)' = Visible(u) BY <1>1, <1>5 DEF Visible, Loads, IInv, TypeOK
  <2>2. index[t] = "record" /\ record[t].state = "InProgress"
        /\ (Stages(record[t], job.target) \/ Ends(record[t], job.target))
    BY <1>2, <1>5 DEF Follows
  <2>3. record'[t] = job.target BY <1>1, <1>5 DEF IInv, TypeOK
  <2>4. Visible(t) = record[t] /\ Visible(t)' = job.target BY <1>1, <2>2, <2>3 DEF Visible, Loads
  <2>5. record[t] \in Records BY <1>1 DEF IInv, TypeOK
  <2>6. job.target.state = "Committed" => Whole(job.target) BY DEF IInv, HandlerCommits
  <2>7. Artifact' = [Artifact EXCEPT ![t] = Shown(job.target)] /\ Artifact[t] = Shown(record[t])
    BY <1>1, <2>1, <2>4, ShownStep
  <2> QED BY <1>1, <2>2, <2>5, <2>6, <2>7, ChunkIsStage, EndIsPublishOrDiscard
<1> QED BY <1>3, <1>4, <1>5 DEF PersistPut

\* The row that makes a transfer visible is written last.
LEMMA RowIsAStep ==
  ASSUME IInv, IInv', Plans, PersistIndex, Uploaders = {}
  PROVE  [Contract!Next]_Artifact
<1>0. job.id \in Transfers BY DEF IInv, TypeOK, Jobs
<1> PICK t \in Transfers : t = job.id BY <1>0
<1>1. t \in Transfers /\ job.step = "index" /\ job.kind # "none" /\ job.target.state # "Missing"
  BY DEF PersistIndex, IInv, TypeOK, Jobs, JobOK
<1>2. record[t] = job.target /\ (index[t] = "none" => Begins(job.target)) /\ (job.existed <=> index[t] # "none")
      /\ index[t] \in {"none", "record"}
  BY <1>1 DEF Plans
<1>3. index' = index \/ index' = [index EXCEPT ![t] = "record"] BY DEF PersistIndex
<1>4. record' = record \/ (record' = [record EXCEPT ![t] = NoRecord] /\ ~job.existed) BY DEF PersistIndex
<1>5. \A u \in Transfers : u # t => Visible(u)' = Visible(u) BY <1>1, <1>3, <1>4 DEF Visible, Loads, IInv, TypeOK
<1>6. CASE Visible(t)' = Visible(t) BY <1>5, <1>6, HiddenStep
<1>7. CASE Visible(t)' # Visible(t)
  <2>1. index[t] = "none" /\ index'[t] = "record" /\ record'[t] = job.target
    BY <1>1, <1>2, <1>3, <1>4, <1>7 DEF Visible, Loads, NoRecord, TransferRecord, IInv, TypeOK
  <2>2. Visible(t) = NoRecord /\ Visible(t)' = job.target BY <1>1, <2>1 DEF Visible, Loads
  <2>3. Artifact' = [Artifact EXCEPT ![t] = Shown(job.target)] /\ Artifact[t] = Shown(NoRecord)
    BY <1>1, <1>5, <2>2, ShownStep
  <2> QED BY <1>1, <1>2, <2>1, <2>3, BeginIsDeclare
<1> QED BY <1>6, <1>7

LEMMA StepsAreOfTheContract ==
  ASSUME Uploaders = {}, IInv, IInv', Plans, [Next]_vars
  PROVE  [Contract!Next]_Artifact
<1>1. CASE PersistPut BY <1>1, PutIsAStep
<1>2. CASE PersistIndex BY <1>2, RowIsAStep
<1>3. ASSUME UNCHANGED <<index, record>> PROVE [Contract!Next]_Artifact
  <2>1. \A t \in Transfers : Visible(t)' = Visible(t) BY <1>3 DEF Visible, Loads
  <2> QED BY <2>1, HiddenStep
<1>4. ASSUME NEW t \in Transfers, Request(t) PROVE UNCHANGED <<index, record>>
  BY <1>4 DEF Request, TransferBegin, TransferChunkArrives, TransferCommit, TransferAbort, Expire, TransferInspect, Enter
<1>5. ASSUME NEW t \in Transfers, Sweep(t) PROVE UNCHANGED <<index, record>>
  BY <1>5 DEF Sweep, Expire, SweepForgets, Enter
<1>6. CASE Progress /\ ~PersistPut /\ ~PersistIndex
  BY <1>3, <1>6 DEF Progress, ChunkPut, ChunkIndex, DropBytes, DropRow, DropDone, PersistLookup
<1>7. CASE Tick \/ Restart BY <1>3, <1>7 DEF Tick, Restart
<1>8. CASE UNCHANGED vars BY <1>3, <1>8
<1> QED BY <1>1, <1>2, <1>3, <1>4, <1>5, <1>6, <1>7, <1>8 DEF Next

\* The server implements the transfer contract, whatever store operation fails and
\* whenever it restarts, for any transfers, declarations and payloads; as long as
\* no single-shot upload uses the id of a transfer.
THEOREM ServerImplementsContract == ASSUME Uploaders = {} PROVE Spec => ImplementsContract
<1>1. Init => Contract!Init BY InitIsUnstarted
<1>2. IInv /\ Plans /\ [Next]_vars => IInv' /\ Plans' BY NextKeepsIInv, NextPlans
<1>3. IInv /\ IInv' /\ Plans /\ [Next]_vars => [Contract!Next]_Artifact BY StepsAreOfTheContract
<1> QED BY <1>1, <1>2, <1>3, InitIInv, InitPlans, PTL DEF Spec, ImplementsContract, Contract!Spec

-----------------------------------------------------------------------------
(* What clients were told                                                  *)

\* What they were told holds, and they were told nothing of a transfer without a row.
Told == VerdictStands /\ AckedChunksListed /\ \A t \in Transfers : index[t] = "none" => acked[t] = {}

LEMMA ToldAnyway ==
  ASSUME Told, UNCHANGED <<index, record, clientVars>>
  PROVE  Told'
BY DEF Told, VerdictStands, AckedChunksListed, LoadsAs, Loads

\* A record that replaces one in progress still lists what was acknowledged.
LEMMA FollowersList ==
  ASSUME NEW q \in Records, NEW r, Stages(q, r) \/ Ends(q, r), r.state \in {"InProgress", "Committed"},
         NEW a \in Indices \X TransferChunk, q.chunks[a[1]] = a[2]
  PROVE  r.chunks[a[1]] = a[2]
<1>1. a[1] \in Indices /\ a[2] \in TransferChunk OBVIOUS
<1>2. a[1] \in Listed(q.chunks) BY <1>1 DEF Listed, TransferChunk, ChunkIds
<1>3. q.chunks \in [Indices -> TransferChunk \cup {NoChunk}] BY DEF Records
<1>4. CASE Stages(q, r)
  <2>1. PICK i \in Indices, c \in TransferChunk :
          i \notin Listed(q.chunks) /\ r = TransferRecord("InProgress", q.begin, [q.chunks EXCEPT ![i] = c])
    BY <1>4 DEF Stages
  <2>2. r.chunks = [q.chunks EXCEPT ![i] = c] BY <2>1 DEF TransferRecord
  <2> QED BY <1>1, <1>2, <1>3, <2>1, <2>2
<1>5. CASE Ends(q, r) BY <1>5 DEF Ends, TransferRecord
<1> QED BY <1>4, <1>5

LEMMA PutKeepsTold ==
  ASSUME IInv, Plans, Told, PersistPut
  PROVE  Told'
<1>0. job.id \in Transfers BY DEF IInv, TypeOK, Jobs
<1> PICK t \in Transfers : t = job.id BY <1>0
<1>1. job.step = "put" /\ job.kind # "none" /\ job.target.state # "Missing" /\ UNCHANGED <<index, clientVars>>
  BY DEF PersistPut, IInv, JobOK
<1>2. Follows(index[t], record[t], job.target) BY <1>1 DEF Plans
<1>3. record \in [Transfers -> Records] /\ acked \in [Transfers -> SUBSET (Indices \X TransferChunk)]
  BY DEF IInv, TypeOK
<1>4. CASE UNCHANGED record BY <1>1, <1>4, ToldAnyway
<1>5. CASE record' = [record EXCEPT ![t] = job.target]
  <2>1. \A u \in Transfers : u # t => record'[u] = record[u] BY <1>3, <1>5
  <2>2. record'[t] = job.target BY <1>3, <1>5
  <2>3. CASE index[t] = "none"
    <3>1. \A u \in Transfers, st \in {"InProgress", "Committed", "Aborted"} : LoadsAs(u, st)' <=> LoadsAs(u, st)
      BY <1>1, <2>1, <2>3 DEF LoadsAs, Loads
    <3>2. verdict[t] = "none" /\ acked[t] = {} BY <2>3 DEF Told, VerdictStands, LoadsAs, Loads
    <3> QED BY <1>1, <2>1, <2>3, <3>1, <3>2 DEF Told, VerdictStands, AckedChunksListed, LoadsAs, Loads
  <2>4. CASE index[t] # "none"
    <3>1. index[t] = "record" /\ record[t].state = "InProgress"
          /\ (Stages(record[t], job.target) \/ Ends(record[t], job.target))
      BY <1>2, <2>4 DEF Follows
    <3>2. verdict[t] = "none" BY <3>1 DEF Told, VerdictStands, LoadsAs, IInv, TypeOK
    <3>3. VerdictStands' BY <1>1, <2>1, <3>2 DEF Told, VerdictStands, LoadsAs, Loads
    <3>4. ASSUME NEW a \in acked[t], job.target.state \in {"InProgress", "Committed"}
          PROVE  record'[t].chunks[a[1]] = a[2]
      <4>1. record[t].chunks[a[1]] = a[2] BY <3>1 DEF Told, AckedChunksListed, LoadsAs, Loads
      <4>2. record[t] \in Records /\ a \in Indices \X TransferChunk BY <1>3
      <4> QED BY <2>2, <3>1, <3>4, <4>1, <4>2, FollowersList
    <3>5. AckedChunksListed' BY <1>1, <2>1, <2>2, <3>4 DEF Told, AckedChunksListed, LoadsAs, Loads
    <3> QED BY <1>1, <3>3, <3>5 DEF Told
  <2> QED BY <2>3, <2>4
<1> QED BY <1>4, <1>5 DEF PersistPut

LEMMA RowKeepsTold ==
  ASSUME IInv, Plans, Told, PersistIndex
  PROVE  Told'
<1>0. job.id \in Transfers BY DEF IInv, TypeOK, Jobs
<1> PICK t \in Transfers : t = job.id BY <1>0
<1>1. job.step = "index" /\ job.kind # "none" /\ job.target.state \in {"InProgress", "Committed", "Aborted"}
  BY DEF PersistIndex, IInv, JobOK, TypeOK, Jobs, Records
<1>2. record[t] = job.target /\ (job.existed <=> index[t] # "none") /\ index[t] \in {"none", "record"}
  BY <1>1 DEF Plans
<1>3. /\ index \in [Transfers -> {"none", "record", "plain"}] /\ record \in [Transfers -> Records]
      /\ acked \in [Transfers -> SUBSET (Indices \X TransferChunk)]
      /\ verdict \in [Transfers -> {"none", "Committed", "Aborted"}]
  BY DEF IInv, TypeOK
<1>4. index' = index \/ index' = [index EXCEPT ![t] = "record"] BY DEF PersistIndex
<1>5. CASE Persisted /\ UNCHANGED record /\ index'[t] = "record"
  <2>1. \A u \in Transfers : u # t => index'[u] = index[u] /\ acked'[u] = acked[u] /\ verdict'[u] = verdict[u]
    BY <1>3, <1>4, <1>5 DEF Persisted
  <2>2. \A u \in Transfers, st \in {"InProgress", "Committed", "Aborted"} : LoadsAs(u, st) => LoadsAs(u, st)'
    BY <1>3, <1>4, <1>5 DEF LoadsAs, Loads
  <2> PICK st \in {"InProgress", "Committed", "Aborted"} : st = job.target.state BY <1>1
  <2>3. verdict'[t] \in {verdict[t], st} BY <1>3, <1>5 DEF Persisted
  <2>4. LoadsAs(t, st)' BY <1>1, <1>2, <1>5 DEF LoadsAs, Loads
  <2>5. VerdictStands' BY <1>3, <2>1, <2>2, <2>3, <2>4 DEF Told, VerdictStands
  <2>6. \A a \in acked'[t] : a \in acked[t] \/ a = <<job.at, job.target.chunks[job.at]>>
    BY <1>3, <1>5 DEF Persisted
  <2>7. ASSUME NEW a \in acked[t], LoadsAs(t, "InProgress")' \/ LoadsAs(t, "Committed")'
        PROVE  record[t].chunks[a[1]] = a[2]
    <3>1. index[t] = "record" BY <1>2, <2>7 DEF Told
    <3>2. LoadsAs(t, "InProgress") \/ LoadsAs(t, "Committed") BY <1>5, <2>7, <3>1 DEF LoadsAs, Loads
    <3> QED BY <3>2 DEF Told, AckedChunksListed
  <2>8. ASSUME NEW u \in Transfers, u # t, LoadsAs(u, "InProgress")' \/ LoadsAs(u, "Committed")', NEW a \in acked'[u]
        PROVE  record'[u].chunks[a[1]] = a[2]
    BY <1>5, <2>1, <2>8 DEF Told, AckedChunksListed, LoadsAs, Loads
  <2>9. AckedChunksListed'
    <3>1. ASSUME NEW a \in acked'[t], LoadsAs(t, "InProgress")' \/ LoadsAs(t, "Committed")'
          PROVE  record'[t].chunks[a[1]] = a[2]
      BY <1>2, <1>5, <2>6, <2>7, <3>1
    <3> QED BY <2>8, <3>1 DEF AckedChunksListed
  <2> QED BY <1>5, <2>1, <2>5, <2>9 DEF Told
<1>6. CASE ~job.existed /\ UNCHANGED clientVars /\ (UNCHANGED record \/ record' = [record EXCEPT ![t] = NoRecord])
  <2>1. index[t] = "none" BY <1>2, <1>6
  <2>2. verdict[t] = "none" /\ acked[t] = {} BY <2>1 DEF Told, VerdictStands, LoadsAs, Loads
  <2>3. \A u \in Transfers : u # t => index'[u] = index[u] /\ record'[u] = record[u] BY <1>3, <1>4, <1>6
  <2> QED BY <1>6, <2>2, <2>3 DEF Told, VerdictStands, AckedChunksListed, LoadsAs, Loads
<1>7. \/ Persisted /\ UNCHANGED record /\ index'[t] = "record"
      \/ ~job.existed /\ UNCHANGED clientVars /\ (UNCHANGED record \/ record' = [record EXCEPT ![t] = NoRecord])
  BY <1>2, <1>3, <1>4 DEF PersistIndex
<1> QED BY <1>5, <1>6, <1>7

LEMMA NextToldToo == Uploaders = {} /\ IInv /\ Plans /\ Told /\ [Next]_vars => Told'
<1> SUFFICES ASSUME Uploaders = {}, IInv, Plans, Told, [Next]_vars PROVE Told' OBVIOUS
<1>1. CASE PersistPut BY <1>1, PutKeepsTold
<1>2. CASE PersistIndex BY <1>2, RowKeepsTold
<1>3. ASSUME NEW t \in Transfers, TransferInspect(t) PROVE Told'
  <2>1. UNCHANGED <<index, record, acked>> /\ LoadsAs(t, record[t].state)
        /\ verdict' = [verdict EXCEPT ![t] = record[t].state]
    BY <1>3 DEF TransferInspect, LoadsAs
  <2>2. \A u \in Transfers : verdict'[u] = IF u = t THEN record[t].state ELSE verdict[u]
    BY <2>1 DEF IInv, TypeOK
  <2> QED BY <2>1, <2>2 DEF Told, VerdictStands, AckedChunksListed, LoadsAs, Loads
<1>4. ASSUME NEW t \in Transfers, Request(t), ~TransferInspect(t) PROVE UNCHANGED <<index, record, clientVars>>
  BY <1>4 DEF Request, TransferBegin, TransferChunkArrives, TransferCommit, TransferAbort, Expire, Enter
<1>5. ASSUME NEW t \in Transfers, Sweep(t) PROVE UNCHANGED <<index, record, clientVars>>
  BY <1>5 DEF Sweep, Expire, SweepForgets, Enter
<1>6. CASE Progress /\ ~PersistPut /\ ~PersistIndex
  <2>1. UNCHANGED <<index, record, clientVars>>
    BY <1>6 DEF Progress, ChunkPut, ChunkIndex, DropBytes, DropRow, DropDone, PersistLookup
  <2> QED BY <2>1, ToldAnyway
<1>7. CASE Tick \/ Restart
  <2>1. UNCHANGED <<index, record, clientVars>> BY <1>7 DEF Tick, Restart
  <2> QED BY <2>1, ToldAnyway
<1>8. CASE UNCHANGED vars BY <1>8, ToldAnyway
<1> QED BY <1>1, <1>2, <1>3, <1>4, <1>5, <1>6, <1>7, <1>8, ToldAnyway DEF Next

LEMMA ToldForEver == ASSUME Uploaders = {} PROVE Spec => []Told
<1>1. Init => Told BY DEF Init, Told, VerdictStands, AckedChunksListed
<1>2. IInv /\ Plans /\ Told /\ [Next]_vars => IInv' /\ Plans' /\ Told' BY NextKeepsIInv, NextPlans, NextToldToo
<1> QED BY <1>1, <1>2, InitIInv, InitPlans, PTL DEF Spec

\* What a client was told of the end of a transfer stays true for ever, across
\* failed writes and restarts, as long as no single-shot upload uses its id.
THEOREM VerdictsStand == ASSUME Uploaders = {} PROVE Spec => []VerdictStands
<1>1. Told => VerdictStands BY DEF Told
<1> QED BY <1>1, ToldForEver, PTL

\* A chunk whose sender was told that it is stored stays listed until an abort,
\* with those bytes, whatever later requests, failures and restarts do.
THEOREM AcknowledgedStayListed == ASSUME Uploaders = {} PROVE Spec => []AckedChunksListed
<1>1. Told => AckedChunksListed BY DEF Told
<1> QED BY <1>1, ToldForEver, PTL
-----------------------------------------------------------------------------
(* Nothing is left behind                                                  *)

\* The chunk a handler has stored and is about to list.
AtHand(c) ==
  /\ job.kind = "chunk" /\ job.target.state = "InProgress" /\ c = job.chunk
  /\ job.step \in {"chunkIndex", "lookup", "put"}

Reachable == UNION {Objects(Visible(t).chunks) : t \in Transfers}

Tidy ==
  /\ \A c \in Stored : c \in Reachable \/ AtHand(c)
  /\ \A c \in ChunkIds : blobs[c] # NoBytes => c \in rows \/ (job.step = "chunkIndex" /\ c = job.chunk)
  /\ job.kind # "none" => job.target.state # "Missing"
  /\ job.target.state = "Aborted" /\ job.step # "index" =>
       Objects(record[job.id].chunks) \cap Stored \subseteq job.doomed
  /\ job.step = "dropRow" => blobs[job.chunk] = NoBytes
  /\ job.target.state = "Aborted" /\ job.step \in {"lookup", "put"} => job.doomed = {}

NothingLost == faults = 0 /\ restarts = 0 => Tidy

\* The stores and the records stay, and so does the handler or it enters with a record.
LEMMA TidyUntouched ==
  ASSUME Tidy, UNCHANGED <<storeVars, job>>
  PROVE  Tidy'
BY DEF Tidy, AtHand, Reachable, Visible, Loads, Stored

LEMMA TidyEntering ==
  ASSUME Tidy, Idle, UNCHANGED storeVars, job'.target.state # "Missing", job'.step \notin {"chunkIndex", "dropRow"},
         ~(job'.kind = "chunk" /\ job'.target.state = "InProgress" /\ job'.step \in {"lookup", "put"}),
         job'.target.state = "Aborted" => job'.step = "dropBytes" /\ job'.doomed = Objects(record[job'.id].chunks),
         job.step = "idle"
  PROVE  Tidy'
<1>1. \A c : ~AtHand(c) BY DEF AtHand, Idle
<1>2. Reachable' = Reachable /\ Stored' = Stored BY DEF Reachable, Visible, Loads, Stored
<1>3. (\A c \in Stored : c \in Reachable \/ AtHand(c))' BY <1>1, <1>2 DEF Tidy
<1>4. (\A c \in ChunkIds : blobs[c] # NoBytes => c \in rows \/ (job.step = "chunkIndex" /\ c = job.chunk))'
  BY DEF Tidy
<1> QED BY <1>3, <1>4 DEF Tidy

LEMMA TidyRequest ==
  ASSUME IInv, Tidy, NEW t \in Transfers, Request(t)
  PROVE  Tidy'
<1>0. Idle => job.step = "idle" BY DEF IInv, JobOK, Idle
<1>1. ASSUME NEW d \in Declarations, TransferBegin(t, d) PROVE Tidy'
  <2>1. Idle /\ UNCHANGED storeVars /\ job'.kind = "begin" /\ job'.step = "lookup" /\ job'.target.state = "InProgress"
    BY <1>1 DEF TransferBegin, Enter, NewJob, TransferRecord
  <2> QED BY <1>0, <2>1, TidyEntering
<1>2. ASSUME NEW i \in Indices, NEW p \in Payloads, NEW h \in Payloads, TransferChunkArrives(t, i, p, h) PROVE Tidy'
  <2>1. Idle /\ UNCHANGED storeVars /\ job'.step = "chunkPut" /\ job'.target.state = "InProgress"
    BY <1>2 DEF TransferChunkArrives, Enter, NewJob, TransferRecord
  <2> QED BY <1>0, <2>1, TidyEntering
<1>3. ASSUME NEW h, TransferCommit(t, h) PROVE Tidy'
  <2>1. Idle /\ UNCHANGED storeVars /\ job'.step = "lookup" /\ job'.target.state = "Committed"
    BY <1>3 DEF TransferCommit, Enter, NewJob, TransferRecord
  <2> QED BY <1>0, <2>1, TidyEntering
<1>4. ASSUME NEW kind, Enter(AbortJob(kind, t)) PROVE Tidy'
  <2>1. Idle /\ UNCHANGED storeVars /\ job'.step = "dropBytes" /\ job'.target.state = "Aborted" /\ job'.id = t
        /\ job'.doomed = Objects(record[t].chunks)
    BY <1>4 DEF Enter, AbortJob, NewJob, TransferRecord
  <2> QED BY <1>0, <2>1, TidyEntering
<1>5. CASE TransferAbort(t) BY <1>4, <1>5 DEF TransferAbort
<1>6. ASSUME NEW kind \in {"chunk", "inspect", "commit"}, Expire(kind, t) PROVE Tidy' BY <1>4, <1>6 DEF Expire
<1>7. CASE TransferInspect(t) BY <1>7, TidyUntouched DEF TransferInspect
<1> QED BY <1>1, <1>2, <1>3, <1>5, <1>6, <1>7 DEF Request

LEMMA TidyChunkPut ==
  ASSUME IInv, Tidy, ChunkPut, Ok, faults = 0
  PROVE  Tidy'
<1>1. /\ job.step = "chunkPut" /\ UNCHANGED <<index, record, rows>> /\ job' = [job EXCEPT !.step = "chunkIndex"]
      /\ blobs' = [blobs EXCEPT ![job.chunk] = job.target.chunks[job.at].hash]
  BY DEF ChunkPut, Ok, Fault
<1>2. /\ job'.step = "chunkIndex" /\ job'.kind = "chunk" /\ job'.target.state = "InProgress" /\ job'.chunk = job.chunk
      /\ job'.target = job.target
  BY <1>1 DEF IInv, TypeOK, Jobs, JobOK
<1>3. \A c \in ChunkIds : c # job.chunk => blobs'[c] = blobs[c] BY <1>1 DEF IInv, TypeOK
<1>4. Reachable' = Reachable BY <1>1 DEF Reachable, Visible, Loads
<1>5. \A c \in Stored' : c = job.chunk \/ c \in Stored BY <1>1, <1>3 DEF Stored
<1>6. (\A c \in Stored : c \in Reachable \/ AtHand(c))' BY <1>1, <1>2, <1>4, <1>5 DEF Tidy, AtHand
<1>7. (\A c \in ChunkIds : blobs[c] # NoBytes => c \in rows \/ (job.step = "chunkIndex" /\ c = job.chunk))'
  BY <1>1, <1>2, <1>3 DEF Tidy
<1> QED BY <1>2, <1>6, <1>7 DEF Tidy

LEMMA TidyChunkIndex ==
  ASSUME IInv, Tidy, ChunkIndex, Ok, faults = 0
  PROVE  Tidy'
<1>1. /\ job.step = "chunkIndex" /\ UNCHANGED <<index, record, blobs>> /\ job' = [job EXCEPT !.step = "lookup"]
      /\ rows' = rows \cup {job.chunk}
  BY DEF ChunkIndex, Ok, Fault
<1>2. /\ job'.step = "lookup" /\ job'.kind = "chunk" /\ job'.target.state = "InProgress" /\ job'.chunk = job.chunk
  BY <1>1 DEF IInv, TypeOK, Jobs, JobOK
<1>3. Reachable' = Reachable BY <1>1 DEF Reachable, Visible, Loads
<1>4. \A c \in Stored' : c = job.chunk \/ c \in Stored BY <1>1 DEF Stored
<1>5. (\A c \in Stored : c \in Reachable \/ AtHand(c))' BY <1>1, <1>2, <1>3, <1>4 DEF Tidy, AtHand
<1>6. (\A c \in ChunkIds : blobs[c] # NoBytes => c \in rows \/ (job.step = "chunkIndex" /\ c = job.chunk))'
  BY <1>1, <1>2 DEF Tidy
<1> QED BY <1>2, <1>5, <1>6 DEF Tidy

LEMMA TidyDropBytes ==
  ASSUME IInv, Tidy, NEW c \in ChunkIds, DropBytes(c), Ok, faults = 0
  PROVE  Tidy'
<1>j. job \in Jobs /\ JobOK /\ blobs \in [ChunkIds -> Payloads \cup {NoBytes}] BY DEF IInv, TypeOK
<1>1. job.step = "dropBytes" /\ c \in job.doomed /\ UNCHANGED <<index, record, rows>> BY DEF DropBytes
<1>2. /\ job'.kind = job.kind /\ job'.id = job.id /\ job'.target = job.target
      /\ \A o : ~AtHand(o)
      /\ Reachable' = Reachable
  <2>1. job'.kind = job.kind /\ job'.id = job.id /\ job'.target = job.target BY <1>j DEF DropBytes, Jobs
  <2>2. \A o : ~AtHand(o) BY <1>1 DEF AtHand
  <2>3. Reachable' = Reachable BY <1>1 DEF Reachable, Visible, Loads
  <2> QED BY <2>1, <2>2, <2>3
<1>3. job.target.state = "Aborted" BY <1>1, <1>j DEF Tidy, JobOK
<1>4. CASE c \notin rows /\ job' = [job EXCEPT !.doomed = job.doomed \ {c}] /\ UNCHANGED blobs
  <2>1. job'.step = "dropBytes" /\ job'.doomed = job.doomed \ {c} BY <1>1, <1>4, <1>j DEF Jobs
  <2>2. blobs[c] = NoBytes BY <1>1, <1>4 DEF Tidy
  <2>3. Stored' = Stored /\ c \notin Stored BY <1>1, <1>4, <2>2 DEF Stored
  <2>4. (\A o \in Stored : o \in Reachable \/ AtHand(o))' BY <1>2, <2>3 DEF Tidy
  <2>5. (\A o \in ChunkIds : blobs[o] # NoBytes => o \in rows \/ (job.step = "chunkIndex" /\ o = job.chunk))'
    BY <1>1, <1>4 DEF Tidy
  <2>6. (Objects(record[job.id].chunks) \cap Stored \subseteq job.doomed)'
    BY <1>1, <1>2, <1>3, <2>1, <2>3 DEF Tidy
  <2> QED BY <1>2, <1>3, <2>1, <2>4, <2>5, <2>6 DEF Tidy
<1>5. CASE c \in rows /\ job' = [job EXCEPT !.step = "dropRow", !.chunk = c] /\ blobs' = [blobs EXCEPT ![c] = NoBytes]
  <2>1. job'.step = "dropRow" /\ job'.doomed = job.doomed /\ job'.chunk = c BY <1>1, <1>5, <1>j DEF Jobs
  <2>2. blobs'[c] = NoBytes /\ \A o \in ChunkIds : o # c => blobs'[o] = blobs[o] BY <1>5, <1>j
  <2>3. Stored' \subseteq Stored BY <1>1, <1>5, <2>2 DEF Stored
  <2>4. (\A o \in Stored : o \in Reachable \/ AtHand(o))' BY <1>2, <2>3 DEF Tidy
  <2>5. (\A o \in ChunkIds : blobs[o] # NoBytes => o \in rows \/ (job.step = "chunkIndex" /\ o = job.chunk))'
    BY <1>1, <2>2 DEF Tidy
  <2>6. (Objects(record[job.id].chunks) \cap Stored \subseteq job.doomed)'
    BY <1>1, <1>2, <1>3, <2>1, <2>3 DEF Tidy
  <2> QED BY <1>2, <1>3, <2>1, <2>2, <2>4, <2>5, <2>6 DEF Tidy
<1> QED BY <1>4, <1>5 DEF DropBytes, Ok, Fault

LEMMA TidyDropRow ==
  ASSUME IInv, Tidy, DropRow, Ok, faults = 0
  PROVE  Tidy'
<1>j. job \in Jobs /\ JobOK BY DEF IInv, TypeOK
<1>1. job.step = "dropRow" /\ rows' = rows \ {job.chunk} /\ UNCHANGED <<index, record, blobs>>
      /\ job' = [job EXCEPT !.step = "dropBytes", !.doomed = job.doomed \ {job.chunk}]
  BY DEF DropRow, Ok, Fault
<1>2. /\ job'.kind = job.kind /\ job'.id = job.id /\ job'.target = job.target /\ job'.step = "dropBytes"
      /\ job'.doomed = job.doomed \ {job.chunk}
      /\ \A o : ~AtHand(o)
      /\ Reachable' = Reachable
  BY <1>1, <1>j DEF Jobs, AtHand, Reachable, Visible, Loads
<1>3. blobs[job.chunk] = NoBytes /\ job.target.state = "Aborted" BY <1>1, <1>j DEF Tidy, JobOK
<1>4. Stored' = Stored \ {job.chunk} BY <1>1, <1>3 DEF Stored
<1>5. (\A o \in Stored : o \in Reachable \/ AtHand(o))' BY <1>2, <1>4 DEF Tidy
<1>6. (\A o \in ChunkIds : blobs[o] # NoBytes => o \in rows \/ (job.step = "chunkIndex" /\ o = job.chunk))'
  BY <1>1, <1>3 DEF Tidy
<1>7. (Objects(record[job.id].chunks) \cap Stored \subseteq job.doomed)'
  BY <1>1, <1>2, <1>3, <1>4 DEF Tidy
<1> QED BY <1>2, <1>3, <1>5, <1>6, <1>7 DEF Tidy

LEMMA TidyOn ==
  ASSUME IInv, Tidy, UNCHANGED storeVars, job.step \in {"dropBytes", "lookup"}, job.step = "dropBytes" => job.doomed = {},
         job'.kind = job.kind, job'.id = job.id, job'.target = job.target, job'.doomed = job.doomed,
         job'.chunk = job.chunk, job'.step = IF job.step = "dropBytes" THEN "lookup" ELSE "put"
  PROVE  Tidy'
<1>1. job.kind # "none" BY DEF IInv, JobOK
<1>2. Reachable' = Reachable /\ Stored' = Stored BY DEF Reachable, Visible, Loads, Stored
<1>3. \A c : AtHand(c) => AtHand(c)' BY DEF AtHand
<1>4. (\A c \in Stored : c \in Reachable \/ AtHand(c))' BY <1>2, <1>3 DEF Tidy
<1>5. (\A c \in ChunkIds : blobs[c] # NoBytes => c \in rows \/ (job.step = "chunkIndex" /\ c = job.chunk))'
  BY DEF Tidy
<1>6. (job.target.state = "Aborted" /\ job.step # "index" =>
        Objects(record[job.id].chunks) \cap Stored \subseteq job.doomed)'
  BY <1>2 DEF Tidy
<1> QED BY <1>1, <1>4, <1>5, <1>6 DEF Tidy

LEMMA TidyDropDone == ASSUME IInv, Tidy, DropDone PROVE Tidy'
<1>1. job.step = "dropBytes" /\ job.doomed = {} /\ UNCHANGED storeVars BY DEF DropDone
<1>2. job.kind # "none" /\ job \in Jobs BY <1>1 DEF IInv, TypeOK, JobOK
<1>3. job' = [job EXCEPT !.step = "lookup"] BY <1>2 DEF DropDone, Tidy
<1>4. /\ job'.kind = job.kind /\ job'.id = job.id /\ job'.target = job.target /\ job'.doomed = job.doomed
      /\ job'.chunk = job.chunk /\ job'.step = "lookup"
  BY <1>2, <1>3 DEF Jobs
<1> QED BY <1>1, <1>4, TidyOn

LEMMA TidyLookup == ASSUME IInv, Tidy, PersistLookup, Ok, faults = 0 PROVE Tidy'
<1>1. /\ job.step = "lookup" /\ UNCHANGED storeVars /\ job \in Jobs
      /\ job' = [job EXCEPT !.step = "put", !.existed = index[job.id] # "none"]
  BY DEF PersistLookup, Ok, Fault, IInv, TypeOK
<1>2. /\ job'.kind = job.kind /\ job'.id = job.id /\ job'.target = job.target /\ job'.doomed = job.doomed
      /\ job'.chunk = job.chunk /\ job'.step = "put"
  BY <1>1 DEF Jobs
<1> QED BY <1>1, <1>2, TidyOn

\* The record that is put lists what is stored: it keeps what the old one listed and
\* adds the chunk at hand, or nothing stored is left of an aborted one.
LEMMA TidyPut == ASSUME IInv, Plans, Tidy, PersistPut, Ok, faults = 0 PROVE Tidy'
<1>0. job.id \in Transfers BY DEF IInv, TypeOK, Jobs
<1> PICK t \in Transfers : t = job.id BY <1>0
<1>1. /\ job.step = "put" /\ UNCHANGED <<index, rows, blobs>> /\ job \in Jobs /\ JobOK
      /\ record' = [record EXCEPT ![t] = job.target]
      /\ job' = [job EXCEPT !.step = "index"]
  BY DEF PersistPut, Ok, Fault, IInv, TypeOK
<1>2. /\ job'.kind = job.kind /\ job'.target = job.target /\ job'.step = "index"
  BY <1>1 DEF Jobs
<1>3. record'[t] = job.target /\ \A u \in Transfers : u # t => record'[u] = record[u] BY <1>1 DEF IInv, TypeOK
<1>4. \A u \in Transfers : u # t => Visible(u)' = Visible(u) BY <1>1, <1>3 DEF Visible, Loads
<1>5. job.kind # "none" /\ job.target.state # "Missing" /\ Follows(index[t], record[t], job.target)
  BY <1>1 DEF JobOK, Plans
<1>6. ASSUME NEW c \in Stored PROVE c \in Reachable'
  <2>1. CASE index[t] = "none" /\ Begins(job.target)
    <3>1. Visible(t) = NoRecord /\ Visible(t)' = NoRecord BY <1>1, <2>1 DEF Visible, Loads
    <3>2. ~AtHand(c)
      <4>1. Objects(job.target.chunks) = {} BY <2>1, NoChunksHasNoObject DEF Begins, TransferRecord
      <4> QED BY <4>1, StagedChunk DEF AtHand, IInv, Shape
    <3>3. PICK u \in Transfers : c \in Objects(Visible(u).chunks) BY <3>2 DEF Tidy, Reachable
    <3>4. Visible(u)' = Visible(u) BY <1>4, <3>1
    <3> QED BY <3>3, <3>4 DEF Reachable
  <2>2. CASE index[t] = "record" /\ record[t].state = "InProgress" /\ (Stages(record[t], job.target) \/ Ends(record[t], job.target))
    <3>1. Visible(t) = record[t] /\ Visible(t)' = job.target
      BY <1>1, <1>3, <1>5, <2>2 DEF Visible, Loads
    <3>2. CASE AtHand(c)
      <4>1. c \in Objects(job.target.chunks) BY <3>2, StagedChunk DEF AtHand, IInv, Shape
      <4> QED BY <3>1, <4>1 DEF Reachable
    <3>3. ASSUME NEW u \in Transfers, u # t, c \in Objects(Visible(u).chunks) PROVE c \in Reachable'
      BY <1>4, <3>3 DEF Reachable
    <3>4. CASE c \in Objects(record[t].chunks)
      <4>1. CASE Stages(record[t], job.target)
        <5>1. PICK i \in Indices, k \in TransferChunk :
                /\ i \notin Listed(record[t].chunks)
                /\ job.target = TransferRecord("InProgress", record[t].begin, [record[t].chunks EXCEPT ![i] = k])
          BY <4>1 DEF Stages
        <5>2. record[t].chunks \in [Indices -> TransferChunk \cup {NoChunk}] BY DEF IInv, TypeOK, Records
        <5>3. job.target.chunks = [record[t].chunks EXCEPT ![i] = k] BY <5>1 DEF TransferRecord
        <5>4. PICK n \in Listed(record[t].chunks) : c = record[t].chunks[n].object_id BY <3>4 DEF Objects
        <5>5. n \in Indices /\ n # i /\ job.target.chunks[n] = record[t].chunks[n] BY <5>1, <5>2, <5>3, <5>4 DEF Listed
        <5>6. c \in Objects(job.target.chunks) BY <5>4, <5>5 DEF Objects, Listed
        <5> QED BY <3>1, <5>6 DEF Reachable
      <4>2. CASE job.target = TransferRecord("Committed", record[t].begin, record[t].chunks)
        <5>1. job.target.chunks = record[t].chunks BY <4>2 DEF TransferRecord
        <5> QED BY <3>1, <3>4, <5>1 DEF Reachable
      <4>3. CASE job.target = TransferRecord("Aborted", record[t].begin, NoChunks)
        <5>1. job.target.state = "Aborted" BY <4>3 DEF TransferRecord
        <5>2. c \in job.doomed /\ job.doomed = {} BY <1>1, <3>4, <5>1 DEF Tidy
        <5> QED BY <5>2
      <4> QED BY <2>2, <4>1, <4>2, <4>3 DEF Ends
    <3> QED BY <3>1, <3>2, <3>3, <3>4 DEF Tidy, Reachable
  <2> QED BY <1>5, <2>1, <2>2 DEF Follows
<1>7. Stored' = Stored BY <1>1 DEF Stored
<1>8. (\A c \in ChunkIds : blobs[c] # NoBytes => c \in rows \/ (job.step = "chunkIndex" /\ c = job.chunk))'
  BY <1>1 DEF Tidy
<1> QED BY <1>2, <1>5, <1>6, <1>7, <1>8 DEF Tidy

LEMMA TidyRow == ASSUME IInv, Plans, Tidy, PersistIndex, Ok, faults = 0 PROVE Tidy'
<1>0. job.id \in Transfers BY DEF IInv, TypeOK, Jobs
<1> PICK t \in Transfers : t = job.id BY <1>0
<1>1. /\ job.step = "index" /\ UNCHANGED <<record, rows, blobs>> /\ job' = NoJob
      /\ index' = [index EXCEPT ![t] = "record"]
  BY DEF PersistIndex, Ok, Fault, Persisted
<1>2. index' [t] = "record" /\ \A u \in Transfers : u # t => index'[u] = index[u] BY <1>1 DEF IInv, TypeOK
<1>3. \A u \in Transfers : Loads(u) => Loads(u)' /\ Visible(u)' = Visible(u) BY <1>1, <1>2 DEF Visible, Loads
<1>4. ASSUME NEW c \in Stored PROVE c \in Reachable'
  <2>1. ~AtHand(c) BY <1>1 DEF AtHand
  <2>2. PICK u \in Transfers : c \in Objects(Visible(u).chunks) BY <2>1 DEF Tidy, Reachable
  <2>3. Loads(u) BY <2>2, NoChunksHasNoObject DEF Visible, NoRecord, TransferRecord
  <2> QED BY <1>3, <2>2, <2>3 DEF Reachable
<1>5. Stored' = Stored BY <1>1 DEF Stored
<1>6. job'.kind = "none" /\ job'.step = "idle" /\ job'.target.state = "Missing"
  BY <1>1 DEF NoJob, NewJob, NoRecord, TransferRecord
<1>7. (\A c \in ChunkIds : blobs[c] # NoBytes => c \in rows \/ (job.step = "chunkIndex" /\ c = job.chunk))'
  BY <1>1 DEF Tidy
<1> QED BY <1>4, <1>5, <1>6, <1>7 DEF Tidy

LEMMA NextLosesNothing == Uploaders = {} /\ IInv /\ Plans /\ NothingLost /\ [Next]_vars => NothingLost'
<1> SUFFICES ASSUME Uploaders = {}, IInv, Plans, NothingLost, [Next]_vars, faults' = 0, restarts' = 0 PROVE Tidy'
  BY DEF NothingLost
<1>t. faults \in Nat /\ restarts \in Nat BY BoundsAssumption DEF IInv, TypeOK
<1>1. ASSUME NEW t \in Transfers, Request(t) PROVE Tidy'
  <2>1. UNCHANGED boundVars
    BY <1>1 DEF Request, TransferBegin, TransferChunkArrives, TransferCommit, TransferAbort, Expire, TransferInspect, Enter
  <2> QED BY <1>1, <2>1, TidyRequest DEF NothingLost
<1>2. ASSUME NEW t \in Transfers, Sweep(t) PROVE Tidy'
  <2>1. CASE Expire("sweep", t)
    <3>1. /\ Idle /\ UNCHANGED <<storeVars, boundVars>> /\ job'.step = "dropBytes" /\ job'.target.state = "Aborted"
          /\ job'.id = t /\ job'.doomed = Objects(record[t].chunks)
      BY <2>1 DEF Expire, Enter, AbortJob, NewJob, TransferRecord
    <3>2. job.step = "idle" BY <3>1 DEF IInv, JobOK, Idle
    <3> QED BY <3>1, <3>2, TidyEntering DEF NothingLost
  <2>2. CASE SweepForgets(t)
    <3>1. UNCHANGED <<storeVars, job, restarts>> /\ (Ok \/ Fault) BY <2>2 DEF SweepForgets
    <3>2. Ok /\ faults = 0 BY <1>t, <3>1 DEF Ok, Fault
    <3> QED BY <3>1, <3>2, TidyUntouched DEF NothingLost
  <2> QED BY <1>2, <2>1, <2>2 DEF Sweep
<1>3. CASE Progress
  <2>1. UNCHANGED restarts /\ (Ok \/ Fault)
    BY <1>3 DEF Progress, ChunkPut, ChunkIndex, DropBytes, DropRow, DropDone, PersistLookup, PersistPut, PersistIndex, Ok
  <2>2. Ok /\ faults = 0 /\ Tidy BY <1>t, <2>1 DEF Ok, Fault, NothingLost
  <2> QED BY <1>3, <2>2, TidyChunkPut, TidyChunkIndex, TidyDropBytes, TidyDropRow, TidyDropDone, TidyLookup, TidyPut, TidyRow
      DEF Progress
<1>4. CASE Tick BY <1>4, TidyUntouched DEF Tick, NothingLost
<1>5. CASE Restart BY <1>5, <1>t DEF Restart
<1>6. CASE UNCHANGED vars BY <1>6, TidyUntouched DEF NothingLost
<1> QED BY <1>1, <1>2, <1>3, <1>4, <1>5, <1>6 DEF Next

\* As long as no store operation failed and the server did not die, no chunk object
\* is left that no record lists once the handlers are done: aborts, expiries and
\* rejected chunks clean up after themselves (abort_transfer_locked), for any
\* transfers and payloads, if no single-shot upload uses the id of one.
THEOREM NothingIsOrphaned == ASSUME Uploaders = {} PROVE Spec => []NoOrphans
<1>1. Init => NothingLost
  BY NoJobIsTyped DEF Init, NothingLost, Tidy, Stored, NoJob, NewJob, NoRecord, TransferRecord
<1>2. NothingLost => NoOrphans BY DEF NothingLost, Tidy, NoOrphans, AtHand, Reachable, Idle
<1>3. IInv /\ Plans /\ NothingLost /\ [Next]_vars => IInv' /\ Plans' /\ NothingLost'
  BY NextKeepsIInv, NextPlans, NextLosesNothing
<1> QED BY <1>1, <1>2, <1>3, InitIInv, InitPlans, PTL DEF Spec

-----------------------------------------------------------------------------
(* VoidObjects: the inductive invariant                                    *)

\* What a client does with a session: from its look at the table to its finish.
Holding  == {"sending", "part", "record", "drop"}
Handling == Holding \cup {"begin"}
After    == {"index", "publish", "notify", "done", "failed"}

PartsOf == UNION {[d -> Multis] : d \in SUBSET PartNumbers}
Known(n) == (1 .. n) \cup {None}

\* What the entry of client c may be, n sessions having been opened.
Entry(c, q, n) ==
  /\ q \in [at : Handling \cup After \cup {"idle", "put", "assemble"}, id : Ids \cup {None},
            session : Known(n), part : PartNumbers \cup {0}, data : {q.data}]
  /\ q.at # "idle" => q.id \in Ids
  /\ c \in Singles => q.at \in After \cup {"idle", "put"} /\ (q.at = "put" => q.data.by = c)
  /\ c \in Multis => q.at # "put"
  /\ q.at \in {"part", "record"} => q.part \in PartNumbers /\ q.session # None

Entries ==
  /\ up = [c \in Singles \cup Multis |-> up[c]]
  /\ \A c \in Singles \cup Multis : Entry(c, up[c], opened)

Tables ==
  /\ opened \in Nat
  /\ stored \in Seq([live : BOOLEAN, parts : PartsOf]) /\ Len(stored) = opened
  /\ table \in [Servers -> [Ids -> [session : Known(opened), parts : SUBSET PartNumbers]]]
  /\ blob = [i \in Ids |-> blob[i]]

\* Session x is one of server s and id i, for all the table and the clients know.
Refers(x, s, i) ==
  \/ table[s][i].session = x
  \/ \E c \in Multis : up[c].session = x /\ At[c] = s /\ up[c].id = i

OneHome ==
  \A x \in 1 .. opened : \A s, t \in Servers, i, j \in Ids :
    Refers(x, s, i) /\ Refers(x, t, j) => s = t /\ i = j

\* Of an id given away by nobody, a server has one client at a time,
Alone ==
  \A c, d \in Multis :
    /\ up[c].at \in Handling /\ up[d].at \in Handling
    /\ At[c] = At[d] /\ up[c].id = up[d].id /\ up[c].id \notin overlap
    => c = d

Filled(x, c) == \A n \in DOMAIN stored[x].parts : stored[x].parts[n] = c

\* whose session is in the table and holds its parts and no others,
OwnsOf(c) ==
  up[c].at \in Holding /\ up[c].id \notin overlap =>
    /\ Session(c) # None /\ Filled(Session(c), c)
    /\ up[c].at \in {"part", "record"} => up[c].session = Session(c)

\* until it has taken it out to assemble it.
AssemblesOf(c) ==
  up[c].at = "assemble" =>
    /\ up[c].session # None /\ up[c].data.parts = 1 .. up[c].part
    /\ up[c].id \notin overlap => Filled(up[c].session, c) /\ Session(c) # up[c].session

Owned == \A c \in Multis : OwnsOf(c) /\ AssemblesOf(c)

\* An object a client made has the parts of its finish, and all its own.
Published ==
  \A i \in Ids : blob[i].by \in Multis =>
    /\ up[blob[i].by].at \in After
    /\ DOMAIN blob[i].parts = 1 .. up[blob[i].by].part
    /\ i \notin overlap => \A n \in DOMAIN blob[i].parts : blob[i].parts[n] = blob[i].by

ObjectsInv == Entries /\ Tables /\ OneHome /\ Alone /\ Owned /\ Published

USE KindsAssumption, AtAssumption
USE DEF Clients, PartNumbers, Known, Holding, Handling, After

-----------------------------------------------------------------------------
(* The initial state, and steps that are not about multipart uploads       *)

LEMMA InitKeeps == ObjectsInit => ObjectsInv
<1> SUFFICES ASSUME ObjectsInit PROVE ObjectsInv OBVIOUS
<1> USE DEF ObjectsInit, IdleUp, NoBlob
<1>1. Entries BY DEF Entries, Entry
<1>2. Tables BY DEF Tables
<1>3. OneHome /\ Alone BY DEF OneHome, Alone, Refers
<1>4. Owned BY DEF Owned, OwnsOf, AssemblesOf
<1>5. Published BY DEF Published
<1> QED BY <1>1, <1>2, <1>3, <1>4, <1>5 DEF ObjectsInv

\* Readers and their registry.
LEMMA ReadersKeep ==
  ASSUME ObjectsInv, UNCHANGED <<blob, up, table, stored, opened, overlap>>
  PROVE  ObjectsInv'
<1>1. Entries' /\ Tables' BY DEF ObjectsInv, Entries, Tables
<1>2. OneHome' BY DEF ObjectsInv, OneHome, Refers
<1>3. Alone' BY DEF ObjectsInv, Alone
<1>4. Owned' BY DEF ObjectsInv, Owned, OwnsOf, AssemblesOf, Session, Filled
<1>5. Published' BY DEF ObjectsInv, Published
<1> QED BY <1>1, <1>2, <1>3, <1>4, <1>5 DEF ObjectsInv

\* A step of one client, which makes its entry q, leaves the others theirs.
LEMMA OneClient ==
  ASSUME Entries, NEW c \in Singles \cup Multis, NEW q, up' = [up EXCEPT ![c] = q],
         opened \in Nat, opened' \in Nat, opened <= opened', Entry(c, q, opened')
  PROVE  /\ up'[c] = q /\ \A d \in (Singles \cup Multis) \ {c} : up'[d] = up[d]
         /\ Entries'
<1>1. up'[c] = q /\ \A d \in (Singles \cup Multis) \ {c} : up'[d] = up[d] BY DEF Entries
<1>2. up' = [d \in Singles \cup Multis |-> up'[d]] BY DEF Entries
<1>3. ASSUME NEW d \in Singles \cup Multis, d # c PROVE Entry(d, up[d], opened')
  <2>1. Entry(d, up[d], opened) BY DEF Entries
  <2>2. Known(opened) \subseteq Known(opened') OBVIOUS
  <2> HIDE DEF Known
  <2> QED BY <2>1, <2>2 DEF Entry
<1>4. \A d \in Singles \cup Multis : Entry(d, up'[d], opened') BY <1>1, <1>3
<1> QED BY <1>1, <1>2, <1>4 DEF Entries

\* A client that is past its session, or whose request failed.
LEMMA GoingOnKeeps ==
  ASSUME ObjectsInv, NEW c \in Singles \cup Multis, NEW at \in After,
         up[c].at # "idle", up' = [up EXCEPT ![c].at = at],
         UNCHANGED <<table, opened, overlap>>, Tables',
         \A x \in 1 .. opened : stored'[x].parts = stored[x].parts,
         blob' = blob \/ Published'
  PROVE  ObjectsInv'
<1> DEFINE q == [up[c] EXCEPT !.at = at]
<1>1. Entry(c, up[c], opened) BY DEF ObjectsInv, Entries
<1>2. q.at = at /\ q.id = up[c].id /\ q.session = up[c].session /\ q.part = up[c].part /\ q.data = up[c].data
  BY <1>1 DEF Entry
<1>3. Entry(c, q, opened) BY <1>1, <1>2 DEF Entry
<1>4. up' = [up EXCEPT ![c] = q] OBVIOUS
<1> HIDE DEF q
<1>5. opened \in Nat /\ opened' \in Nat /\ opened <= opened' /\ Entries BY DEF ObjectsInv, Tables
<1>6. Entry(c, q, opened') BY <1>3
<1>7. up'[c] = q /\ (\A d \in (Singles \cup Multis) \ {c} : up'[d] = up[d]) /\ Entries'
  BY <1>4, <1>5, <1>6, OneClient
<1>8. OneHome' BY <1>2, <1>7 DEF ObjectsInv, OneHome, Refers
<1>9. Alone' BY <1>2, <1>7 DEF ObjectsInv, Alone
<1>10. Owned'
  <2> SUFFICES ASSUME NEW d \in Multis, up'[d].at \in Holding \cup {"assemble"} PROVE OwnsOf(d)' /\ AssemblesOf(d)'
    BY DEF Owned, OwnsOf, AssemblesOf
  <2>1. up'[d] = up[d] BY <1>2, <1>7
  <2>2. Session(d)' = Session(d) BY <2>1 DEF Session
  <2>3. Session(d) \in Known(opened) /\ up[d].session \in Known(opened)
    <3>1. Entry(d, up[d], opened) BY DEF ObjectsInv, Entries
    <3>2. up[d].id \in Ids /\ At[d] \in Servers BY <2>1, <3>1 DEF Entry
    <3> QED BY <3>1, <3>2 DEF ObjectsInv, Tables, Session, Entry
  <2>4. OwnsOf(d) /\ AssemblesOf(d) BY DEF ObjectsInv, Owned
  <2>5. OwnsOf(d)' BY <2>1, <2>2, <2>3, <2>4 DEF OwnsOf, Filled
  <2>6. AssemblesOf(d)' BY <2>1, <2>2, <2>3, <2>4 DEF AssemblesOf, Filled
  <2> QED BY <2>5, <2>6
<1>11. Published' BY <1>2, <1>7 DEF ObjectsInv, Published
<1> QED BY <1>7, <1>8, <1>9, <1>10, <1>11 DEF ObjectsInv

\* A single-shot upload.
LEMMA SinglesKeep ==
  ASSUME ObjectsInv, NEW c \in Singles, NEW q, up' = [up EXCEPT ![c] = q], Entry(c, q, opened),
         UNCHANGED <<table, stored, opened, overlap>>, Tables',
         \A i \in Ids : blob'[i] = blob[i] \/ blob'[i].by = c
  PROVE  ObjectsInv'
<1>1. opened \in Nat /\ opened' \in Nat /\ opened <= opened' /\ Entries BY DEF ObjectsInv, Tables
<1>2. Entry(c, q, opened') OBVIOUS
<1>3. (\A d \in (Singles \cup Multis) \ {c} : up'[d] = up[d]) /\ Entries' BY <1>1, <1>2, OneClient
<1>4. \A d \in Multis : up'[d] = up[d] BY <1>3
<1>5. OneHome' BY <1>4 DEF ObjectsInv, OneHome, Refers
<1>6. Alone' BY <1>4 DEF ObjectsInv, Alone
<1>7. \A d \in Multis : Session(d)' = Session(d) BY <1>4 DEF Session
<1>8. Owned' BY SMTT(40), <1>4, <1>7 DEF ObjectsInv, Owned, OwnsOf, AssemblesOf, Filled
<1>9. Published' BY <1>4 DEF ObjectsInv, Published
<1> QED BY <1>3, <1>5, <1>6, <1>8, <1>9 DEF ObjectsInv

-----------------------------------------------------------------------------
(* Steps of a multipart client between its begin and its finish            *)

\* Whoever else refers to the session a client sends to is of its id, and server.
LEMMA HomesAgree ==
  ASSUME ObjectsInv, NEW c \in Multis, NEW d \in Multis, NEW x \in 1 .. opened,
         up[c].at # "idle", up[d].at # "idle",
         up[c].session = x \/ Session(c) = x, up[d].session = x \/ Session(d) = x
  PROVE  At[c] = At[d] /\ up[c].id = up[d].id
<1>1. Entry(c, up[c], opened) /\ Entry(d, up[d], opened) BY DEF ObjectsInv, Entries
<1>2. up[c].id \in Ids /\ up[d].id \in Ids /\ At[c] \in Servers /\ At[d] \in Servers BY <1>1 DEF Entry
<1>3. Refers(x, At[c], up[c].id) /\ Refers(x, At[d], up[d].id) BY DEF Refers, Session
<1> QED BY <1>2, <1>3 DEF ObjectsInv, OneHome

\* The session an id has is one of those opened.
LEMMA SessionsKnown ==
  ASSUME Tables, NEW d, up[d].id \in Ids, At[d] \in Servers
  PROVE  Session(d) \in Known(opened)
BY DEF Tables, Session

\* It takes nothing from the other clients of ids nobody gave away.
LEMMA OthersKeepTheirs ==
  ASSUME ObjectsInv, NEW c \in Multis, up[c].at \in Handling, NEW d \in Multis \ {c}, up'[d] = up[d],
         overlap \subseteq overlap', opened \in Nat,
         At[d] # At[c] \/ up[d].id # up[c].id => Session(d)' = Session(d),
         Session(d)' \in {Session(d), None, opened + 1},
         \A x \in 1 .. opened : stored'[x].parts # stored[x].parts => up[c].at = "part" /\ up[c].session = x
  PROVE  OwnsOf(d)' /\ AssemblesOf(d)'
<1>1. Entry(c, up[c], opened) /\ Entry(d, up[d], opened) BY DEF ObjectsInv, Entries
<1>2. OwnsOf(c) /\ OwnsOf(d) /\ AssemblesOf(d) BY DEF ObjectsInv, Owned
<1>3. up[d].session \in Known(opened) BY <1>1 DEF Entry
<1>4. ASSUME up[d].at # "idle" PROVE Session(d) \in Known(opened)
  <2>1. up[d].id \in Ids /\ At[d] \in Servers BY <1>1, <1>4 DEF Entry
  <2> QED BY <2>1, SessionsKnown DEF ObjectsInv
<1>5. OwnsOf(d)'
  <2> SUFFICES ASSUME up[d].at \in Holding, up[d].id \notin overlap'
               PROVE  /\ Session(d)' # None /\ Filled(Session(d), d)'
                      /\ up[d].at \in {"part", "record"} => up[d].session = Session(d)'
    BY DEF OwnsOf
  <2>1. At[d] # At[c] \/ up[d].id # up[c].id BY DEF ObjectsInv, Alone
  <2>2. Session(d)' = Session(d) /\ Session(d) # None /\ Session(d) \in 1 .. opened BY <1>2, <1>4, <2>1 DEF OwnsOf
  <2>3. stored'[Session(d)].parts = stored[Session(d)].parts BY <2>1, <2>2, HomesAgree
  <2>4. Filled(Session(d), d) BY <1>2 DEF OwnsOf
  <2>5. Filled(Session(d), d)' BY <2>2, <2>3, <2>4 DEF Filled
  <2> QED BY <1>2, <2>2, <2>5 DEF OwnsOf
<1>6. AssemblesOf(d)'
  <2> SUFFICES ASSUME up[d].at = "assemble"
               PROVE  /\ up[d].session # None /\ up[d].data.parts = 1 .. up[d].part
                      /\ up[d].id \notin overlap' => Filled(up[d].session, d)' /\ Session(d)' # up[d].session
    BY DEF AssemblesOf
  <2>1. up[d].session \in 1 .. opened BY <1>2, <1>3 DEF AssemblesOf
  <2>2. ASSUME up[d].id \notin overlap' PROVE Filled(up[d].session, d)' /\ Session(d)' # up[d].session
    <3>1. Filled(up[d].session, d) /\ Session(d) # up[d].session BY <1>2, <2>2 DEF AssemblesOf
    <3>2. Session(d)' # up[d].session BY <2>1, <3>1
    <3>3. stored'[up[d].session].parts = stored[up[d].session].parts
      <4> SUFFICES ASSUME up[c].at = "part", up[c].session = up[d].session PROVE FALSE BY <2>1
      <4>1. At[c] = At[d] /\ up[c].id = up[d].id BY <2>1, HomesAgree
      <4>2. up[c].session = Session(c) BY <1>2, <2>2, <4>1 DEF OwnsOf
      <4> QED BY <3>1, <4>1, <4>2 DEF Session
    <3>4. Filled(up[d].session, d)' BY <3>1, <3>3 DEF Filled
    <3> QED BY <3>2, <3>4
  <2> QED BY <1>2, <2>2 DEF AssemblesOf
<1> QED BY <1>5, <1>6

LEMMA MultisKeep ==
  ASSUME ObjectsInv, NEW c \in Multis, NEW q, up[c].at \in Handling,
         up' = [up EXCEPT ![c] = q], Entry(c, q, opened'), Tables', opened <= opened',
         q.id = up[c].id, q.session \in {up[c].session, Session(c)},
         NEW e, table' = [table EXCEPT ![At[c]][up[c].id] = e],
         e.session \in {Session(c), None} \/ (opened' = opened + 1 /\ e.session = opened + 1),
         blob' = blob, overlap \subseteq overlap',
         \A x \in 1 .. opened : stored'[x].parts # stored[x].parts => up[c].at = "part" /\ up[c].session = x,
         OwnsOf(c)', AssemblesOf(c)'
  PROVE  ObjectsInv'
<1>1. opened \in Nat /\ opened' \in Nat /\ Entries BY DEF ObjectsInv, Tables
<1>2. up'[c] = q /\ (\A d \in (Singles \cup Multis) \ {c} : up'[d] = up[d]) /\ Entries' BY <1>1, OneClient
<1>3. \A d \in Singles \cup Multis : Entry(d, up[d], opened) BY DEF ObjectsInv, Entries
<1>4. up[c].id \in Ids /\ At[c] \in Servers BY <1>3 DEF Entry
<1>5. /\ table'[At[c]][up[c].id] = e
      /\ \A s \in Servers, i \in Ids : s # At[c] \/ i # up[c].id => table'[s][i] = table[s][i]
  BY <1>4 DEF ObjectsInv, Tables
<1>6. OneHome'
  <2>1. ASSUME NEW x \in 1 .. opened', NEW s \in Servers, NEW i \in Ids, Refers(x, s, i)'
        PROVE  (x \in 1 .. opened /\ Refers(x, s, i)) \/ (x = opened + 1 /\ s = At[c] /\ i = up[c].id)
    <3>1. CASE table'[s][i].session = x
      <4>1. \A t \in Servers, j \in Ids : table[t][j].session \in Known(opened) BY DEF ObjectsInv, Tables
      <4>2. x # None BY <1>1
      <4>3. CASE s = At[c] /\ i = up[c].id
        <5>1. Session(c) = table[s][i].session /\ e.session = x BY <1>5, <3>1, <4>3 DEF Session
        <5> QED BY <1>1, <4>1, <4>2, <4>3, <5>1 DEF Refers
      <4>4. CASE ~(s = At[c] /\ i = up[c].id)
        <5>1. table[s][i].session = x BY <1>5, <3>1, <4>4
        <5> QED BY <1>1, <4>1, <4>2, <5>1 DEF Refers
      <4> QED BY <4>3, <4>4
    <3>2. ASSUME NEW d \in Multis, up'[d].session = x, At[d] = s, up'[d].id = i
          PROVE  x \in 1 .. opened /\ Refers(x, s, i)
      <4>1. up[d].id = i BY <1>2, <3>2
      <4>2. up[d].session = x \/ Session(d) = x BY <1>2, <3>2
      <4>3. Session(d) \in Known(opened) /\ up[d].session \in Known(opened)
        <5>1. At[d] \in Servers /\ up[d].id \in Ids BY <3>2, <4>1
        <5>2. Entry(d, up[d], opened) BY <1>3
        <5> QED BY <5>1, <5>2, SessionsKnown DEF ObjectsInv, Entry
      <4> QED BY <1>1, <3>2, <4>1, <4>2, <4>3 DEF Refers, Session
    <3> QED BY <2>1, <3>1, <3>2 DEF Refers
  <2> QED BY <1>1, <2>1 DEF ObjectsInv, OneHome
<1>7. Alone' BY <1>2 DEF ObjectsInv, Alone
<1>8. Owned'
  <2> SUFFICES ASSUME NEW d \in Multis \ {c} PROVE OwnsOf(d)' /\ AssemblesOf(d)' BY DEF Owned
  <2>1. up'[d] = up[d] BY <1>2
  <2>2. CASE up[d].at = "idle" BY <2>1, <2>2 DEF OwnsOf, AssemblesOf
  <2>3. CASE up[d].at # "idle"
    <3>1. up[d].id \in Ids /\ At[d] \in Servers BY <1>3, <2>3 DEF Entry
    <3>2. At[d] # At[c] \/ up[d].id # up[c].id => Session(d)' = Session(d) BY <1>5, <2>1, <3>1 DEF Session
    <3>3. At[d] = At[c] /\ up[d].id = up[c].id => Session(d)' = e.session /\ Session(d) = Session(c)
      BY <1>5, <2>1, <3>1 DEF Session
    <3>4. Session(d)' \in {Session(d), None, opened + 1} BY <3>2, <3>3
    <3> QED BY <1>1, <2>1, <3>2, <3>4, OthersKeepTheirs
  <2> QED BY <2>2, <2>3
<1>9. Published' BY <1>2 DEF ObjectsInv, Published
<1> QED BY <1>2, <1>6, <1>7, <1>8, <1>9 DEF ObjectsInv

-----------------------------------------------------------------------------
(* One lemma for each step of a multipart upload                           *)

\* It begins: of the clients at the same id, each is still in its begin, and then
\* the id is given away, or has a session in the table.
LEMMA UploadBeginKeeps ==
  ASSUME ObjectsInv, NEW c \in Multis, NEW i \in Ids, UploadBegin(c, i)
  PROVE  ObjectsInv'
<1> DEFINE q == [up[c] EXCEPT !.at = "begin", !.id = i]
<1>1. up[c] = IdleUp /\ UNCHANGED <<blob, table, stored, opened>> /\ overlap \subseteq overlap'
  BY DEF UploadBegin
<1>2. /\ q.at = "begin" /\ q.id = i /\ q.session = None
      /\ Entry(c, q, opened) /\ up' = [up EXCEPT ![c] = q]
  <2>1. Entry(c, up[c], opened) /\ up[c].session = None
    <3>1. Entry(c, up[c], opened) BY DEF ObjectsInv, Entries
    <3>2. up[c].session = None BY <1>1 DEF IdleUp
    <3> QED BY <3>1, <3>2
  <2>2. q.at = "begin" /\ q.id = i /\ q.session = None BY <2>1 DEF Entry
  <2>3. Entry(c, q, opened) BY <2>1, <2>2 DEF Entry
  <2>4. up' = [up EXCEPT ![c] = q] BY DEF UploadBegin
  <2> QED BY <2>2, <2>3, <2>4
<1> HIDE DEF q
<1>3. opened \in Nat /\ opened' \in Nat /\ opened' = opened /\ opened <= opened' /\ Entries /\ Entry(c, q, opened')
  BY <1>1, <1>2 DEF ObjectsInv, Tables
<1>4. up'[c] = q /\ (\A d \in (Singles \cup Multis) \ {c} : up'[d] = up[d]) /\ Entries'
  BY <1>2, <1>3, OneClient
<1>5. Tables' BY <1>1 DEF ObjectsInv, Tables
<1>6. OneHome' BY <1>1, <1>2, <1>3, <1>4 DEF ObjectsInv, OneHome, Refers
<1>7. Alone'
  <2>1. ASSUME NEW d \in Multis \ {c}, up[d].at \in Handling, At[d] = At[c], up[d].id = i, i \notin overlap'
        PROVE  FALSE
    <3>1. CASE up[d].at = "begin" BY <2>1, <3>1 DEF UploadBegin
    <3>2. CASE up[d].at \in Holding
      <4>1. Session(d) = None BY <2>1 DEF UploadBegin, Session
      <4>2. OwnsOf(d) BY DEF ObjectsInv, Owned
      <4> QED BY <1>1, <2>1, <3>2, <4>1, <4>2 DEF OwnsOf
    <3> QED BY <2>1, <3>1, <3>2
  <2> QED BY <1>1, <1>2, <1>4, <2>1 DEF ObjectsInv, Alone
<1>8. Owned'
  <2>1. OwnsOf(c)' /\ AssemblesOf(c)' BY <1>2, <1>4 DEF OwnsOf, AssemblesOf
  <2>2. ASSUME NEW d \in Multis \ {c} PROVE OwnsOf(d)' /\ AssemblesOf(d)'
    <3>1. Session(d)' = Session(d) BY <1>1, <1>4 DEF Session
    <3>2. OwnsOf(d) /\ AssemblesOf(d) BY DEF ObjectsInv, Owned
    <3> QED BY <1>1, <1>4, <3>1, <3>2 DEF OwnsOf, AssemblesOf, Filled
  <2> QED BY <2>1, <2>2 DEF Owned
<1>9. Published' BY <1>1, <1>4 DEF ObjectsInv, Published, IdleUp
<1> QED BY <1>4, <1>5, <1>6, <1>7, <1>8, <1>9 DEF ObjectsInv

LEMMA BeginMultipartKeeps ==
  ASSUME ObjectsInv, NEW c \in Multis, BeginMultipart(c)
  PROVE  ObjectsInv'
<1> DEFINE q == [up[c] EXCEPT !.at = "sending"]
           e == [session |-> opened + 1, parts |-> {}]
<1>1. Entry(c, up[c], opened) /\ up[c].at = "begin" BY DEF ObjectsInv, Entries, BeginMultipart
<1>2. opened \in Nat /\ opened' = opened + 1 /\ Len(stored) = opened BY DEF BeginMultipart, ObjectsInv, Tables
<1>3. /\ q.at = "sending" /\ q.id = up[c].id /\ q.session = up[c].session /\ q.part = up[c].part /\ q.data = up[c].data
      /\ up' = [up EXCEPT ![c] = q]
  BY <1>1 DEF Entry, BeginMultipart, UpTo
<1>4. Entry(c, q, opened')
  <2>1. up[c].session \in Known(opened') BY <1>1, <1>2 DEF Entry
  <2> QED BY <1>1, <1>3, <2>1 DEF Entry
<1>5. table' = [table EXCEPT ![At[c]][up[c].id] = e] /\ e.session = opened + 1 BY DEF BeginMultipart
<1>6. up[c].id \in Ids /\ At[c] \in Servers BY <1>1 DEF Entry
<1>7. stored' = Append(stored, [live |-> TRUE, parts |-> [n \in {} |-> None]]) BY DEF BeginMultipart, Fresh
<1>8. /\ stored' \in Seq([live : BOOLEAN, parts : PartsOf]) /\ Len(stored') = opened'
      /\ \A x \in 1 .. opened : stored'[x] = stored[x]
      /\ stored'[opened + 1].parts = [n \in {} |-> None]
  <2>1. [n \in {} |-> None] \in PartsOf
    <3>1. [n \in {} |-> None] \in [{} -> Multis] /\ {} \in SUBSET PartNumbers OBVIOUS
    <3> QED BY <3>1 DEF PartsOf
  <2> QED BY <1>2, <1>7, <2>1 DEF ObjectsInv, Tables
<1>9. Tables'
  <2>1. e \in [session : Known(opened'), parts : SUBSET PartNumbers] BY <1>2
  <2>2. \A s \in Servers, i \in Ids : table[s][i] \in [session : Known(opened'), parts : SUBSET PartNumbers]
    BY <1>2 DEF ObjectsInv, Tables
  <2>3. table' \in [Servers -> [Ids -> [session : Known(opened'), parts : SUBSET PartNumbers]]]
    BY <1>5, <1>6, <2>1, <2>2 DEF ObjectsInv, Tables
  <2> QED BY <1>2, <1>8, <2>3 DEF BeginMultipart, ObjectsInv, Tables
<1> HIDE DEF q, e
<1>10. up'[c] = q BY <1>3 DEF ObjectsInv, Entries
<1>11. Session(c)' = opened + 1 BY <1>3, <1>5, <1>6, <1>10 DEF Session, ObjectsInv, Tables
<1>12. OwnsOf(c)' /\ AssemblesOf(c)' BY <1>2, <1>3, <1>8, <1>10, <1>11 DEF OwnsOf, AssemblesOf, Filled
<1>13. blob' = blob /\ overlap \subseteq overlap' BY DEF BeginMultipart
<1>14. \A x \in 1 .. opened : stored'[x].parts = stored[x].parts BY <1>8
<1>15. up[c].at \in Handling /\ opened <= opened' /\ q.session \in {up[c].session, Session(c)} BY <1>1, <1>2, <1>3
<1> QED BY <1>2, <1>3, <1>4, <1>5, <1>9, <1>12, <1>13, <1>14, <1>15, MultisKeep

\* A part: looked up, stored, recorded; its failure takes the session away.
LEMMA UploadPartKeeps ==
  ASSUME ObjectsInv, NEW c \in Multis, NEW n \in PartNumbers, UploadPart(c, n)
  PROVE  ObjectsInv'
<1> DEFINE t == Session(c)
           q == [up[c] EXCEPT !.at = IF t = None THEN "failed" ELSE "part", !.session = t, !.part = n]
           e == table[At[c]][up[c].id]
<1>1. Entry(c, up[c], opened) /\ up[c].at = "sending" BY DEF ObjectsInv, Entries, UploadPart
<1>2. UNCHANGED <<blob, table, stored, opened, overlap>> BY DEF UploadPart, multi
<1>3. up[c].id \in Ids /\ At[c] \in Servers /\ t \in Known(opened) BY <1>1 DEF Entry, Session, ObjectsInv, Tables
<1>4. up' = [up EXCEPT ![c] = q] BY DEF UploadPart
<1> HIDE DEF t
<1>5. /\ q.at = (IF t = None THEN "failed" ELSE "part") /\ q.id = up[c].id
      /\ q.session = t /\ q.part = n /\ q.data = up[c].data
  BY <1>1 DEF Entry
<1>6. Entry(c, q, opened') BY <1>1, <1>2, <1>3, <1>5 DEF Entry
<1>7. Tables' BY <1>2 DEF ObjectsInv, Tables
<1>8. table' = [table EXCEPT ![At[c]][up[c].id] = e] BY <1>2, <1>3 DEF ObjectsInv, Tables
<1> HIDE DEF q
<1>9. up'[c] = q BY <1>4 DEF ObjectsInv, Entries
<1>10. Session(c)' = t BY <1>2, <1>5, <1>9 DEF Session, t
<1>11. OwnsOf(c) BY DEF ObjectsInv, Owned
<1>12. OwnsOf(c)' /\ AssemblesOf(c)'
  BY <1>1, <1>2, <1>5, <1>9, <1>10, <1>11 DEF OwnsOf, AssemblesOf, Filled, t
<1>13. e.session \in {Session(c), None} BY DEF Session
<1>14. /\ up[c].at \in Handling /\ opened <= opened' /\ q.session \in {up[c].session, Session(c)}
       /\ q.id = up[c].id /\ blob' = blob /\ overlap \subseteq overlap'
       /\ \A x \in 1 .. opened : stored'[x].parts = stored[x].parts
  BY <1>1, <1>2, <1>5 DEF t, ObjectsInv, Tables
<1> QED BY <1>4, <1>6, <1>7, <1>8, <1>12, <1>13, <1>14, MultisKeep

LEMMA StorePartKeeps ==
  ASSUME ObjectsInv, NEW c \in Multis, StorePart(c)
  PROVE  ObjectsInv'
<1> DEFINE s == up[c].session
           n == up[c].part
           e == table[At[c]][up[c].id]
<1>1. Entry(c, up[c], opened) /\ up[c].at = "part" BY DEF ObjectsInv, Entries, StorePart
<1>2. UNCHANGED <<blob, table, opened, overlap>> BY DEF StorePart
<1>3. up[c].id \in Ids /\ At[c] \in Servers /\ n \in PartNumbers /\ s \in 1 .. opened BY <1>1 DEF Entry
<1>4. PICK at \in {"record", "drop"} : up' = [up EXCEPT ![c].at = at] BY DEF StorePart, UpTo
<1>5. stored' = stored \/ stored' = WithPart(s, n, c) BY DEF StorePart
<1> DEFINE q == [up[c] EXCEPT !.at = at]
<1>6. up' = [up EXCEPT ![c] = q] BY <1>4
<1>7. /\ q.at = at /\ q.id = up[c].id /\ q.session = s /\ q.part = n /\ q.data = up[c].data
  BY <1>1 DEF Entry
<1>8. Entry(c, q, opened') BY <1>1, <1>2, <1>3, <1>7 DEF Entry
<1>9. ASSUME NEW x \in 1 .. opened PROVE stored[x] \in [live : BOOLEAN, parts : PartsOf]
  <2> DEFINE S == [live : BOOLEAN, parts : PartsOf]
  <2>1. stored \in Seq(S) /\ Len(stored) = opened BY DEF ObjectsInv, Tables
  <2> HIDE DEF S
  <2>2. stored[x] \in S BY <1>9, <2>1
  <2> QED BY <2>2 DEF S
<1> DEFINE f == [m \in DOMAIN stored[s].parts \cup {n} |-> IF m = n THEN c ELSE stored[s].parts[m]]
<1>10. f \in PartsOf
  <2>1. stored[s].parts \in PartsOf BY <1>3, <1>9
  <2>2. PICK d \in SUBSET PartNumbers : stored[s].parts \in [d -> Multis] BY <2>1 DEF PartsOf
  <2>3. d \cup {n} \in SUBSET PartNumbers BY <1>3, <2>2
  <2>4. f \in [d \cup {n} -> Multis] BY <2>2
  <2> QED BY <2>3, <2>4 DEF PartsOf
<1>11. /\ stored' \in Seq([live : BOOLEAN, parts : PartsOf]) /\ Len(stored') = opened'
       /\ \A x \in 1 .. opened : stored'[x].parts = stored[x].parts \/ (x = s /\ stored'[s].parts = f)
  <2>1. CASE stored' = stored BY <1>2, <2>1 DEF ObjectsInv, Tables
  <2>2. CASE stored' = WithPart(s, n, c)
    <3>1. stored' = [stored EXCEPT ![s].parts = f] BY <2>2 DEF WithPart
    <3> HIDE DEF f
    <3>2. stored \in Seq([live : BOOLEAN, parts : PartsOf]) /\ Len(stored) = opened BY DEF ObjectsInv, Tables
    <3>3. [stored[s] EXCEPT !.parts = f] \in [live : BOOLEAN, parts : PartsOf] BY <1>3, <1>9, <1>10
    <3>4. stored' = [stored EXCEPT ![s] = [stored[s] EXCEPT !.parts = f]] BY <3>1
    <3>5. stored' \in Seq([live : BOOLEAN, parts : PartsOf]) /\ Len(stored') = opened
      BY <1>3, <3>2, <3>3, <3>4
    <3>6. stored'[s].parts = f /\ \A x \in 1 .. opened : x # s => stored'[x] = stored[x]
      BY <1>3, <1>9, <3>2, <3>4
    <3> QED BY <1>2, <3>5, <3>6
  <2> QED BY <1>5, <2>1, <2>2
<1> HIDE DEF f
<1>12. Tables' BY <1>2, <1>11 DEF ObjectsInv, Tables
<1>13. table' = [table EXCEPT ![At[c]][up[c].id] = e] BY <1>2, <1>3 DEF ObjectsInv, Tables
<1>14. up'[c] = [up[c] EXCEPT !.at = at] BY <1>6 DEF ObjectsInv, Entries
<1>15. Session(c)' = Session(c) BY <1>2, <1>7, <1>14 DEF Session
<1>16. OwnsOf(c)'
  <2> SUFFICES ASSUME up[c].id \notin overlap
               PROVE  Session(c) = s /\ \A m \in DOMAIN stored'[s].parts : stored'[s].parts[m] = c
    BY <1>2, <1>3, <1>7, <1>14, <1>15 DEF OwnsOf, Filled
  <2>1. OwnsOf(c) BY DEF ObjectsInv, Owned
  <2>2. Session(c) = s /\ Filled(s, c) BY <1>1, <2>1 DEF OwnsOf
  <2>3. stored'[s].parts = stored[s].parts \/ stored'[s].parts = f BY <1>3, <1>11
  <2>4. \A m \in DOMAIN f : f[m] = c BY <2>2 DEF Filled, f
  <2> QED BY <2>2, <2>3, <2>4 DEF Filled
<1>17. AssemblesOf(c)' BY <1>7, <1>14 DEF AssemblesOf
<1>18. /\ up[c].at \in Handling /\ opened <= opened' /\ q.session \in {up[c].session, Session(c)}
       /\ q.id = up[c].id /\ blob' = blob /\ overlap \subseteq overlap'
       /\ \A x \in 1 .. opened : stored'[x].parts # stored[x].parts => up[c].at = "part" /\ up[c].session = x
  BY <1>1, <1>2, <1>7, <1>11 DEF ObjectsInv, Tables
<1>19. e.session \in {Session(c), None} BY DEF Session
<1> HIDE DEF q, e
<1> QED BY <1>6, <1>8, <1>12, <1>13, <1>16, <1>17, <1>18, <1>19, MultisKeep

LEMMA RecordPartKeeps ==
  ASSUME ObjectsInv, NEW c \in Multis, RecordPart(c)
  PROVE  ObjectsInv'
<1> DEFINE k == table[At[c]][up[c].id]
           e == IF Session(c) = None THEN k ELSE [k EXCEPT !.parts = @ \cup {up[c].part}]
           q == [up[c] EXCEPT !.at = "sending"]
<1>1. Entry(c, up[c], opened) /\ up[c].at = "record" BY DEF ObjectsInv, Entries, RecordPart
<1>2. UNCHANGED <<blob, stored, opened, overlap>> BY DEF RecordPart
<1>3. up[c].id \in Ids /\ At[c] \in Servers /\ up[c].part \in PartNumbers BY <1>1 DEF Entry
<1>4. up' = [up EXCEPT ![c] = q] BY DEF RecordPart, UpTo
<1>5. /\ q.at = "sending" /\ q.id = up[c].id /\ q.session = up[c].session /\ q.part = up[c].part /\ q.data = up[c].data
  BY <1>1 DEF Entry
<1>6. Entry(c, q, opened') BY <1>1, <1>2, <1>5 DEF Entry
<1>7. k \in [session : Known(opened), parts : SUBSET PartNumbers] BY <1>3 DEF ObjectsInv, Tables
<1>8. e \in [session : Known(opened), parts : SUBSET PartNumbers] /\ e.session = Session(c) BY <1>3, <1>7 DEF Session
<1>9. table' = [table EXCEPT ![At[c]][up[c].id] = e]
  <2>1. CASE Session(c) = None BY <1>3, <2>1 DEF RecordPart, ObjectsInv, Tables
  <2>2. CASE Session(c) # None BY <2>2 DEF RecordPart
  <2> QED BY <2>1, <2>2
<1> HIDE DEF k, e, q
<1>10. Tables' BY <1>2, <1>3, <1>8, <1>9 DEF ObjectsInv, Tables
<1>11. up'[c] = q BY <1>4 DEF ObjectsInv, Entries
<1>12. Session(c)' = Session(c) BY <1>3, <1>5, <1>8, <1>9, <1>11 DEF Session, ObjectsInv, Tables
<1>13. OwnsOf(c) BY DEF ObjectsInv, Owned
<1>14. OwnsOf(c)' /\ AssemblesOf(c)' BY <1>1, <1>2, <1>5, <1>11, <1>12, <1>13 DEF OwnsOf, AssemblesOf, Filled
<1>15. /\ up[c].at \in Handling /\ opened <= opened' /\ q.session \in {up[c].session, Session(c)}
       /\ blob' = blob /\ overlap \subseteq overlap' /\ e.session \in {Session(c), None}
       /\ \A x \in 1 .. opened : stored'[x].parts = stored[x].parts
  BY <1>1, <1>2, <1>5, <1>8 DEF ObjectsInv, Tables
<1> QED BY <1>4, <1>5, <1>6, <1>9, <1>10, <1>14, <1>15, MultisKeep

\* A session that ended has the parts it had.
LEMMA EndedKeepsParts ==
  ASSUME ObjectsInv, NEW x \in 1 .. opened, stored' = Ended(x), opened' = opened
  PROVE  /\ stored' \in Seq([live : BOOLEAN, parts : PartsOf]) /\ Len(stored') = opened'
         /\ \A y \in 1 .. opened : stored'[y].parts = stored[y].parts
<1> DEFINE S == [live : BOOLEAN, parts : PartsOf]
           e == [stored[x] EXCEPT !.live = FALSE]
<1>1. stored \in Seq(S) /\ Len(stored) = opened BY DEF ObjectsInv, Tables
<1> HIDE DEF S
<1>2. stored[x] \in S BY <1>1
<1>3. e \in S /\ e.parts = stored[x].parts BY <1>2 DEF S
<1>4. stored' = [stored EXCEPT ![x] = e] BY DEF Ended
<1> HIDE DEF e
<1>5. stored' \in Seq(S) /\ Len(stored') = opened BY <1>1, <1>3, <1>4
<1>6. stored'[x] = e /\ \A y \in 1 .. opened : y # x => stored'[y] = stored[y] BY <1>1, <1>4
<1> QED BY <1>3, <1>5, <1>6 DEF S

LEMMA DropSessionKeeps ==
  ASSUME ObjectsInv, NEW c \in Multis, DropSession(c)
  PROVE  ObjectsInv'
<1> DEFINE e == [session |-> None, parts |-> {}]
           q == [up[c] EXCEPT !.at = "failed"]
<1>1. Entry(c, up[c], opened) /\ up[c].at = "drop" BY DEF ObjectsInv, Entries, DropSession
<1>2. UNCHANGED <<blob, opened>> /\ overlap \subseteq overlap' BY DEF DropSession
<1>3. up[c].id \in Ids /\ At[c] \in Servers BY <1>1 DEF Entry
<1>4. up' = [up EXCEPT ![c] = q] BY DEF DropSession, UpTo
<1>5. /\ q.at = "failed" /\ q.id = up[c].id /\ q.session = up[c].session /\ q.part = up[c].part /\ q.data = up[c].data
  BY <1>1 DEF Entry
<1>6. Entry(c, q, opened') BY <1>1, <1>2, <1>5 DEF Entry
<1>7. table' = [table EXCEPT ![At[c]][up[c].id] = e] BY DEF DropSession
<1>8. /\ stored' \in Seq([live : BOOLEAN, parts : PartsOf]) /\ Len(stored') = opened'
      /\ \A x \in 1 .. opened : stored'[x].parts = stored[x].parts
  <2>1. CASE Session(c) = None BY <1>2, <2>1 DEF DropSession, ObjectsInv, Tables
  <2>2. CASE Session(c) # None
    <3>1. Session(c) \in 1 .. opened BY <1>3, <2>2 DEF Session, ObjectsInv, Tables
    <3>2. stored' = Ended(Session(c)) BY <2>2 DEF DropSession
    <3> QED BY <1>2, <3>1, <3>2, EndedKeepsParts
  <2> QED BY <2>1, <2>2
<1>9. Tables' BY <1>2, <1>3, <1>7, <1>8 DEF ObjectsInv, Tables
<1> HIDE DEF q
<1>10. up'[c] = q BY <1>4 DEF ObjectsInv, Entries
<1>11. OwnsOf(c)' /\ AssemblesOf(c)' BY <1>5, <1>10 DEF OwnsOf, AssemblesOf
<1>12. /\ up[c].at \in Handling /\ opened <= opened' /\ q.session \in {up[c].session, Session(c)}
       /\ e.session \in {Session(c), None}
  BY <1>1, <1>2, <1>5 DEF ObjectsInv, Tables
<1> HIDE DEF e
<1> QED BY <1>2, <1>4, <1>5, <1>6, <1>7, <1>8, <1>9, <1>11, <1>12, MultisKeep

LEMMA UploadFinishKeeps ==
  ASSUME ObjectsInv, NEW c \in Multis, NEW n \in PartNumbers, UploadFinish(c, n)
  PROVE  ObjectsInv'
<1> DEFINE t == table[At[c]][up[c].id]
           e == [session |-> None, parts |-> {}]
           d == [by |-> c, parts |-> t.parts]
<1>1. Entry(c, up[c], opened) /\ up[c].at = "sending" BY DEF ObjectsInv, Entries, UploadFinish
<1>2. UNCHANGED <<blob, opened, overlap>> BY DEF UploadFinish
<1>3. up[c].id \in Ids /\ At[c] \in Servers BY <1>1 DEF Entry
<1>4. t.session = Session(c) /\ t.session \in Known(opened) BY <1>3 DEF Session, ObjectsInv, Tables
<1>5. table' = [table EXCEPT ![At[c]][up[c].id] = e] BY DEF UploadFinish
<1>6. OwnsOf(c) BY DEF ObjectsInv, Owned
<1>7. /\ up[c].at \in Handling /\ opened <= opened' /\ overlap \subseteq overlap'
      /\ e.session \in {Session(c), None}
  BY <1>1, <1>2 DEF ObjectsInv, Tables
<1>8. CASE /\ t.session # None /\ t.parts = 1 .. n /\ stored' = stored
           /\ up' = [up EXCEPT ![c].at = "assemble", ![c].session = t.session, ![c].part = n, ![c].data = d]
  <2> DEFINE q == [up[c] EXCEPT !.at = "assemble", !.session = t.session, !.part = n, !.data = d]
  <2>1. up' = [up EXCEPT ![c] = q] BY <1>8
  <2>2. d.parts = 1 .. n BY <1>8
  <2> HIDE DEF t, d
  <2>3. /\ q.at = "assemble" /\ q.id = up[c].id /\ q.session = t.session /\ q.part = n /\ q.data = d
    BY <1>1 DEF Entry
  <2>4. Entry(c, q, opened') BY <1>1, <1>2, <1>4, <2>3 DEF Entry
  <2> HIDE DEF q
  <2>5. up'[c] = q BY <2>1 DEF ObjectsInv, Entries
  <2>6. Tables' BY <1>2, <1>3, <1>5, <1>8 DEF ObjectsInv, Tables
  <2>7. Session(c)' = None BY <1>3, <1>5, <2>3, <2>5 DEF Session, ObjectsInv, Tables
  <2>8. OwnsOf(c)' /\ AssemblesOf(c)'
    <3>1. OwnsOf(c)' BY <2>3, <2>5 DEF OwnsOf
    <3>2. up[c].id \notin overlap => Filled(t.session, c) BY <1>1, <1>4, <1>6 DEF OwnsOf
    <3>3. up[c].id \notin overlap => \A m \in DOMAIN stored'[t.session].parts : stored'[t.session].parts[m] = c
      BY <1>8, <3>2 DEF Filled
    <3>4. t.session # None BY <1>8
    <3> QED BY <1>2, <2>2, <2>3, <2>5, <2>7, <3>1, <3>3, <3>4 DEF AssemblesOf, Filled
  <2>9. q.session \in {up[c].session, Session(c)} BY <1>4, <2>3
  <2>10. \A x \in 1 .. opened : stored'[x].parts = stored[x].parts BY <1>8
  <2> HIDE DEF e
  <2> QED BY <1>2, <1>5, <1>7, <2>1, <2>3, <2>4, <2>6, <2>8, <2>9, <2>10, MultisKeep
<1>9. CASE up' = [up EXCEPT ![c].at = "failed"] /\ (stored' = stored \/ (t.session # None /\ stored' = Ended(t.session)))
  <2> DEFINE q == [up[c] EXCEPT !.at = "failed"]
  <2>1. up' = [up EXCEPT ![c] = q] BY <1>9
  <2>2. /\ q.at = "failed" /\ q.id = up[c].id /\ q.session = up[c].session /\ q.part = up[c].part /\ q.data = up[c].data
    BY <1>1 DEF Entry
  <2>3. Entry(c, q, opened') BY <1>1, <1>2, <2>2 DEF Entry
  <2> HIDE DEF q
  <2>4. up'[c] = q BY <2>1 DEF ObjectsInv, Entries
  <2>5. /\ stored' \in Seq([live : BOOLEAN, parts : PartsOf]) /\ Len(stored') = opened'
        /\ \A x \in 1 .. opened : stored'[x].parts = stored[x].parts
    <3>1. CASE stored' = stored BY <1>2, <3>1 DEF ObjectsInv, Tables
    <3>2. CASE t.session # None /\ stored' = Ended(t.session)
      <4>1. t.session \in 1 .. opened /\ stored' = Ended(t.session) BY <1>4, <3>2
      <4> HIDE DEF t
      <4> QED BY <1>2, <4>1, EndedKeepsParts
    <3> QED BY <1>9, <3>1, <3>2
  <2>6. Tables' BY <1>2, <1>3, <1>5, <2>5 DEF ObjectsInv, Tables
  <2>7. OwnsOf(c)' /\ AssemblesOf(c)' BY <2>2, <2>4 DEF OwnsOf, AssemblesOf
  <2>8. q.session \in {up[c].session, Session(c)} BY <2>2
  <2> HIDE DEF e
  <2> QED BY <1>2, <1>5, <1>7, <2>1, <2>2, <2>3, <2>5, <2>6, <2>7, <2>8, MultisKeep
<1> QED BY <1>8, <1>9 DEF UploadFinish, UpTo

\* The finish makes the object, of parts that are all the client's own.
LEMMA FinishMultipartKeeps ==
  ASSUME ObjectsInv, NEW c \in Multis, FinishMultipart(c)
  PROVE  ObjectsInv'
<1> DEFINE s == up[c].session
           i == up[c].id
           wanted == up[c].data.parts
           b == [by |-> c, parts |-> Gathered(s, wanted)]
<1>1. Entry(c, up[c], opened) /\ up[c].at = "assemble" /\ AssemblesOf(c)
  BY DEF ObjectsInv, Entries, Owned, FinishMultipart
<1>2. UNCHANGED <<table, opened, overlap>> BY DEF FinishMultipart
<1>3. i \in Ids /\ s \in 1 .. opened BY <1>1 DEF Entry, AssemblesOf
<1>4. CASE /\ Holds(s, wanted) /\ blob' = [blob EXCEPT ![i] = b] /\ stored' = Ended(s)
           /\ up' = [up EXCEPT ![c].at = "index"]
  <2>1. /\ stored' \in Seq([live : BOOLEAN, parts : PartsOf]) /\ Len(stored') = opened'
        /\ \A x \in 1 .. opened : stored'[x].parts = stored[x].parts
    BY <1>2, <1>3, <1>4, EndedKeepsParts
  <2>2. Tables'
    <3>1. blob' = [j \in Ids |-> blob'[j]] BY <1>4 DEF ObjectsInv, Tables
    <3> QED BY <1>2, <2>1, <3>1 DEF ObjectsInv, Tables
  <2>3. blob'[i] = b /\ \A j \in Ids \ {i} : blob'[j] = blob[j] BY <1>3, <1>4 DEF ObjectsInv, Tables
  <2>4. /\ up'[c].at = "index" /\ up'[c].part = up[c].part
        /\ \A d \in Multis \ {c} : up'[d] = up[d]
    BY <1>1, <1>4 DEF ObjectsInv, Entries, Entry
  <2>5. Published'
    <3>1. b.by = c /\ DOMAIN b.parts = 1 .. up[c].part BY <1>1 DEF AssemblesOf, Gathered
    <3>2. ASSUME i \notin overlap, NEW n \in DOMAIN b.parts PROVE b.parts[n] = c
      <4>1. n \in wanted /\ b.parts[n] = stored[s].parts[n] BY <3>2 DEF Gathered
      <4>2. n \in DOMAIN stored[s].parts BY <1>4, <4>1 DEF Holds
      <4>3. Filled(s, c) BY <1>1, <3>2 DEF AssemblesOf
      <4>4. stored[s].parts[n] = c BY <4>2, <4>3 DEF Filled
      <4> QED BY <4>1, <4>4
    <3> HIDE DEF b, i
    <3>3. ASSUME NEW j \in Ids \ {i}, blob[j].by \in Multis PROVE blob[j].by # c BY <1>1, <3>3 DEF ObjectsInv, Published
    <3>4. ASSUME NEW j \in Ids \ {i}, blob[j].by \in Multis
          PROVE  up'[blob[j].by] = up[blob[j].by]
      BY <2>4, <3>3, <3>4
    <3>5. Published BY DEF ObjectsInv
    <3> SUFFICES ASSUME NEW j \in Ids, blob'[j].by \in Multis
                 PROVE  /\ up'[blob'[j].by].at \in After
                        /\ DOMAIN blob'[j].parts = 1 .. up'[blob'[j].by].part
                        /\ j \notin overlap => \A n \in DOMAIN blob'[j].parts : blob'[j].parts[n] = blob'[j].by
      BY <1>2 DEF Published
    <3>6. CASE j = i BY <2>3, <2>4, <3>1, <3>2, <3>6
    <3>7. CASE j # i BY <2>3, <3>4, <3>5, <3>7 DEF Published
    <3> QED BY <3>6, <3>7
  <2> QED BY <1>1, <1>2, <1>4, <2>1, <2>2, <2>5, GoingOnKeeps
<1>5. CASE UNCHANGED <<blob, stored>> /\ up' = [up EXCEPT ![c].at = "failed"]
  <2>1. Tables' BY <1>2, <1>5 DEF ObjectsInv, Tables
  <2> QED BY <1>1, <1>2, <1>5, <2>1, GoingOnKeeps
<1> QED BY <1>4, <1>5 DEF FinishMultipart, Put, UpTo

-----------------------------------------------------------------------------
(* Single-shot uploads, the end of both kinds, and restarts                *)

LEMMA UploadStartsKeeps ==
  ASSUME ObjectsInv, NEW c \in Singles, NEW i \in Ids, UploadStarts(c, i)
  PROVE  ObjectsInv'
<1> DEFINE b == [by |-> c, parts |-> {c}]
           q == [up[c] EXCEPT !.at = "put", !.id = i, !.data = b]
<1>1. up' = [up EXCEPT ![c] = q] BY DEF UploadStarts
<1>2. UNCHANGED <<blob, table, stored, opened, overlap>> BY DEF UploadStarts, multi
<1>3. Entry(c, up[c], opened) BY DEF ObjectsInv, Entries
<1>4. b.by = c OBVIOUS
<1> HIDE DEF b
<1>5. q.at = "put" /\ q.id = i /\ q.session = up[c].session /\ q.part = up[c].part /\ q.data = b BY <1>3 DEF Entry
<1>6. Entry(c, q, opened) BY <1>3, <1>4, <1>5 DEF Entry
<1>7. Tables' BY <1>2 DEF ObjectsInv, Tables
<1> HIDE DEF q
<1> QED BY <1>1, <1>2, <1>6, <1>7, SinglesKeep

LEMMA PublishesKeeps ==
  ASSUME ObjectsInv, NEW c \in Singles \cup Multis, Publishes(c)
  PROVE  ObjectsInv'
<1>1. Entry(c, up[c], opened) BY DEF ObjectsInv, Entries
<1>2. CASE UploadPut(c)
  <2> DEFINE i == up[c].id
  <2>1. UNCHANGED <<table, stored, opened, overlap>> /\ c \in Singles /\ up[c].at = "put"
    BY <1>2 DEF UploadPut, multi
  <2>2. CASE blob' = [blob EXCEPT ![i] = up[c].data] /\ up' = [up EXCEPT ![c].at = "index"]
    <3> DEFINE q == [up[c] EXCEPT !.at = "index"]
    <3>1. q.at = "index" /\ q.id = up[c].id /\ q.session = up[c].session /\ q.part = up[c].part /\ q.data = up[c].data
      BY <1>1 DEF Entry
    <3>2. Entry(c, q, opened) BY <1>1, <2>1, <3>1 DEF Entry
    <3>3. Tables' BY <2>1, <2>2 DEF ObjectsInv, Tables
    <3>4. up[c].data.by = c BY <1>1, <2>1 DEF Entry
    <3>5. \A j \in Ids : blob'[j] = blob[j] \/ blob'[j].by = c BY <2>2, <3>4 DEF ObjectsInv, Tables
    <3>6. up' = [up EXCEPT ![c] = q] BY <2>2
    <3> HIDE DEF q
    <3> QED BY <2>1, <3>2, <3>3, <3>5, <3>6, SinglesKeep
  <2>3. CASE blob' = blob /\ up' = [up EXCEPT ![c].at = "failed"]
    <3>1. Tables' BY <2>1, <2>3 DEF ObjectsInv, Tables
    <3> QED BY <2>1, <2>3, <3>1, GoingOnKeeps
  <2> QED BY <1>2, <2>2, <2>3 DEF UploadPut, Put, UpTo
<1>3. ASSUME NEW at \in After, up[c].at \in {"index", "publish", "notify"}, up' = [up EXCEPT ![c].at = at],
             UNCHANGED <<blob, table, stored, opened, overlap>>
      PROVE  ObjectsInv'
  <2>1. Tables' BY <1>3 DEF ObjectsInv, Tables
  <2> QED BY <1>3, <2>1, GoingOnKeeps
<1>4. CASE Index(c)
  <2>1. up[c].at = "index" /\ up' = [up EXCEPT ![c].at = "publish"] /\ UNCHANGED <<blob, table, stored, opened, overlap>>
    BY <1>4 DEF Index, UpTo, multi
  <2> QED BY <1>3, <2>1
<1>5. CASE Publish(c)
  <2>1. up[c].at = "publish" /\ up' = [up EXCEPT ![c].at = "notify"] /\ UNCHANGED <<blob, table, stored, opened, overlap>>
    BY <1>5 DEF Publish, UpTo, multi
  <2> QED BY <1>3, <2>1
<1>6. CASE NotifyUpload(c)
  <2>1. up[c].at = "notify" /\ up' = [up EXCEPT ![c].at = "done"] /\ UNCHANGED <<blob, table, stored, opened, overlap>>
    BY <1>6 DEF NotifyUpload, UpTo, multi
  <2> QED BY <1>3, <2>1
<1> QED BY <1>2, <1>4, <1>5, <1>6 DEF Publishes

\* Only multipart clients work on sessions.
LEMMA WorksKeeps ==
  ASSUME ObjectsInv, NEW c \in Singles \cup Multis, Works(c)
  PROVE  ObjectsInv'
<1>1. Entry(c, up[c], opened) BY DEF ObjectsInv, Entries
<1>2. up[c].at \in {"begin", "part", "record", "drop", "assemble"}
  BY DEF Works, BeginMultipart, StorePart, RecordPart, DropSession, FinishMultipart
<1>3. c \in Multis BY <1>1, <1>2 DEF Entry
<1> QED
  BY <1>3, BeginMultipartKeeps, StorePartKeeps, RecordPartKeeps, DropSessionKeeps, FinishMultipartKeeps DEF Works

LEMMA RestartKeeps ==
  ASSUME ObjectsInv, NEW s \in Servers, ServerRestarts(s)
  PROVE  ObjectsInv'
<1> DEFINE hit == {c \in Singles \cup Multis : At[c] = s /\ up[c].at \notin {"idle", "sending", "done", "failed"}}
           q(c) == [up[c] EXCEPT !.at = "failed"]
<1>1. /\ up' = [c \in Singles \cup Multis |-> IF c \in hit THEN q(c) ELSE up[c]]
      /\ table' = [table EXCEPT ![s] = [i \in Ids |-> [session |-> None, parts |-> {}]]]
      /\ overlap' = overlap \cup {up[c].id : c \in {c \in Multis : At[c] = s /\ up[c].at # "idle"}}
      /\ UNCHANGED <<blob, stored, opened>>
  BY DEF ServerRestarts
<1>2. \A c \in Singles \cup Multis : Entry(c, up[c], opened) BY DEF ObjectsInv, Entries
<1>3. ASSUME NEW c \in Singles \cup Multis
      PROVE  /\ q(c).at = "failed" /\ q(c).id = up[c].id /\ q(c).session = up[c].session
             /\ q(c).part = up[c].part /\ q(c).data = up[c].data
  BY <1>2 DEF Entry
<1>4. ASSUME NEW c \in Singles \cup Multis, c \in hit PROVE Entry(c, q(c), opened)
  BY <1>2, <1>3, <1>4 DEF Entry
<1> HIDE DEF q
<1>5. ASSUME NEW c \in Singles \cup Multis
      PROVE  /\ up'[c].id = up[c].id /\ up'[c].session = up[c].session
             /\ up'[c].part = up[c].part /\ up'[c].data = up[c].data
             /\ IF c \in hit THEN up'[c].at = "failed" ELSE up'[c] = up[c]
  BY <1>1, <1>3
<1>6. Entries' BY <1>1, <1>2, <1>4 DEF Entries
<1>7. Tables' BY <1>1 DEF ObjectsInv, Tables
<1>8. /\ \A i \in Ids : table'[s][i].session = None
      /\ \A t \in Servers, i \in Ids : t # s => table'[t][i] = table[t][i]
  BY <1>1 DEF ObjectsInv, Tables
<1>9. OneHome'
  <2>1. ASSUME NEW x \in 1 .. opened, NEW t \in Servers, NEW i \in Ids, Refers(x, t, i)' PROVE Refers(x, t, i)
    <3>1. CASE table'[t][i].session = x
      <4>1. t # s BY <1>8, <2>1, <3>1
      <4> QED BY <1>8, <3>1, <4>1 DEF Refers
    <3>2. ASSUME NEW c \in Multis, up'[c].session = x, At[c] = t, up'[c].id = i PROVE Refers(x, t, i)
      BY <1>5, <3>2 DEF Refers
    <3> QED BY <2>1, <3>1, <3>2 DEF Refers
  <2> QED BY <1>1, <2>1 DEF ObjectsInv, OneHome
<1>10. \A c \in Singles \cup Multis : up'[c].at = "failed" \/ up'[c] = up[c] BY <1>5
<1>11. overlap \subseteq overlap' BY <1>1
<1>12. Alone'
  <2>1. \A c \in Multis : up'[c].at \in Handling => up'[c] = up[c] BY <1>10
  <2> QED BY <1>11, <2>1 DEF ObjectsInv, Alone
<1>13. Owned'
  <2> SUFFICES ASSUME NEW c \in Multis, up'[c].at \in Holding \cup {"assemble"} PROVE OwnsOf(c)' /\ AssemblesOf(c)'
    BY DEF Owned, OwnsOf, AssemblesOf
  <2>1. up'[c] = up[c] /\ c \notin hit BY <1>5
  <2>2. OwnsOf(c) /\ AssemblesOf(c) BY DEF ObjectsInv, Owned
  <2>3. up[c].id \in Ids /\ At[c] \in Servers BY <1>2, <2>1 DEF Entry
  <2>4. CASE At[c] = s
    <3>1. up[c].id \in overlap' /\ up[c].at # "assemble" BY <1>1, <2>1, <2>4
    <3> QED BY <2>1, <3>1 DEF OwnsOf, AssemblesOf
  <2>5. CASE At[c] # s
    <3>1. Session(c)' = Session(c) BY <1>8, <2>1, <2>3, <2>5 DEF Session
    <3>2. overlap \subseteq overlap' /\ stored' = stored BY <1>1
    <3> QED BY <2>1, <2>2, <3>1, <3>2 DEF OwnsOf, AssemblesOf, Filled
  <2> QED BY <2>4, <2>5
<1>14. Published'
  <2>1. \A c \in Multis : up[c].at \in After => up'[c].at \in After /\ up'[c].part = up[c].part BY <1>5, <1>10
  <2> QED BY <1>1, <1>11, <2>1 DEF ObjectsInv, Published
<1> QED BY <1>6, <1>7, <1>9, <1>13, <1>14, <1>12 DEF ObjectsInv

-----------------------------------------------------------------------------
LEMMA NextKeeps == ObjectsInv /\ [ObjectsNext]_objectVars => ObjectsInv'
<1> SUFFICES ASSUME ObjectsInv, [ObjectsNext]_objectVars PROVE ObjectsInv' OBVIOUS
<1>1. CASE UNCHANGED <<blob, up, table, stored, opened, overlap>> BY <1>1, ReadersKeep
<1>2. ASSUME NEW r \in Readers, Reads(r) \/ TimeOut(r) \/ ListenFails(r) PROVE ObjectsInv'
  BY <1>1, <1>2 DEF Reads, WaiterFor, Check, Arm, Listen, ListenChecks, Wake, TimeOut, ListenFails, Others, multi
<1>3. ASSUME NEW r \in Readers, NEW i \in Ids, Wait(r, i) PROVE ObjectsInv'
  BY <1>1, <1>3 DEF Wait, Others, multi
<1>4. CASE UNCHANGED objectVars BY <1>1, <1>4 DEF objectVars, multi
<1> QED
  BY <1>2, <1>3, <1>4, PublishesKeeps, WorksKeeps, UploadStartsKeeps, UploadBeginKeeps, UploadPartKeeps,
     UploadFinishKeeps, RestartKeeps DEF ObjectsNext

\* Whatever its clients, servers and failures do, an object made of parts has the
\* parts its finish named, and all from one client, unless the id was given away
\* (handle_upload_begin, _part, _finish).
THEOREM ObjectsAreWhole == ObjectsSpec => []PartsAreWhole
<1>1. ObjectsInv => PartsAreWhole BY DEF ObjectsInv, Published, PartsAreWhole
<1> QED BY <1>1, InitKeeps, NextKeeps, PTL DEF ObjectsSpec

=============================================================================
