----------------------------- MODULE VoidStream -----------------------------
(***************************************************************************)
(* Producers and readers of one streamed transfer: Void's upload and       *)
(* download streams (_black_hole_void/src/lib.rs), the clients of Mass     *)
(* (publish_artifact, download_artifact) and of the Sun library            *)
(* (void_client.rs), and the polling of flows (_black_hole_flux ops.rs).   *)
(*                                                                         *)
(* What Void does to the transfer itself is TransferContract, which        *)
(* VoidTransfer implements: its actions are the server's here.  A stream's *)
(* frames keep their order, so that sending and receiving one is a step; a *)
(* connection that breaks ends the reader's side of it.  A producer that   *)
(* is disconnected is one that takes no further step.                      *)
(***************************************************************************)
EXTENDS Naturals, Sequences, SequencesExt

CONSTANTS
  Readers,
  Policies,    \* DurabilityPolicy of the ticket: "replay", "ephemeral"
  Producers,   \* who may produce: "mass", "sun", "requests"
  ReaderKinds, \* who may read: "mass", "sun", "flow"
  Transfer, Begin, Payloads, MaxParts,
  MaxFaults    \* bound: failed calls, broken streams and restarts

ASSUME PoliciesAssumption == Policies \subseteq {"replay", "ephemeral"}
ASSUME KindsAssumption == /\ Producers \subseteq {"mass", "sun", "requests"}
                          /\ ReaderKinds \subseteq {"mass", "sun", "flow"}

VARIABLES
  artifact,  \* the transfer, as TransferContract has it
  policy,    \* durability of the ticket
  producer,  \* its kind, where it is, the index of its next chunk
  ticket,    \* whether the ticket, or the reference, is in circulation
  late,      \* whether the deadline has passed
  active,    \* whether Void's active_transfers has the transfer
  reader,    \* per reader
  faults

streamVars == <<artifact, policy, producer, ticket, late, active, reader, faults>>
Same == <<policy>>

Void == INSTANCE TransferContract WITH
          Transfers <- {Transfer}, Declarations <- {Begin}

State   == artifact[Transfer].state
Parts   == artifact[Transfer].parts
Content == Begin.expected_hash

\* The chunks of the record, which are sorted by index.
Chunks == SetToSortSeq(DOMAIN Parts, <)

IdleReader == [kind |-> "none", at |-> "idle", chunks |-> <<>>, end |-> "Missing",
               listed |-> {}, sent |-> 0, out |-> <<>>, early |-> FALSE, hurt |-> FALSE]

StreamInit ==
  /\ Void!Init
  /\ policy \in Policies
  /\ producer \in [kind : Producers, at : {"start"}, next : {0}]
  /\ ticket = FALSE
  /\ late = FALSE
  /\ active = FALSE
  /\ reader = [r \in Readers |-> IdleReader]
  /\ faults = 0

MayFail == faults < MaxFaults /\ faults' = faults + 1

-----------------------------------------------------------------------------
(* Producing *)

ProducerTo(at) == producer' = [producer EXCEPT !.at = at]

\* handle_transfer_begin
TransferBegin ==
  /\ ~late
  /\ Void!Declare(Transfer, Begin)
  /\ active' = TRUE

\* abort_pending_upload
AbortPending == Void!Discard(Transfer) /\ active' = FALSE /\ ProducerTo("failed")

\* publish_artifact of Mass: the transfer is begun, then its ticket uploaded; if
\* that fails, the transfer is aborted.  The rest runs in the background.
Publishes ==
  /\ producer.kind = "mass" /\ producer.at = "ticket" /\ ~late
  /\ \/ /\ ticket' = TRUE /\ ProducerTo("sending") /\ UNCHANGED <<artifact, active, faults>>
     \/ /\ MayFail /\ AbortPending /\ UNCHANGED ticket
  /\ UNCHANGED <<Same, late, reader>>

\* prepare_stream_transfer uploads the ticket first.
PrepareStream ==
  /\ producer.kind = "sun" /\ producer.at = "start" /\ ~ticket
  /\ ticket' = TRUE
  /\ UNCHANGED <<Same, artifact, producer, late, active, reader, faults>>

\* The transfer is begun: by stream_transfer once the ticket is there, by
\* open_transfer_upload, or by a request whose answer is the reference.
StreamOpens ==
  /\ producer.at = "start"
  /\ producer.kind = "sun" => ticket
  /\ TransferBegin
  /\ ProducerTo(IF producer.kind = "mass" THEN "ticket" ELSE "sending")
  /\ ticket' = (producer.kind # "mass")
  /\ UNCHANGED <<Same, late, reader, faults>>

\* handle_stream_upload_frame takes chunks in order; those sent as requests come
\* in any.
InTurn(i) == producer.kind # "requests" => i = producer.next

\* finish_transfer_upload of Mass sends its data; others may send what does not
\* make up the declared content.
Sends(i, p) == producer.kind = "mass" => p = <<Content[i + 1]>>

\* A frame of the upload stream, over QUIC or TCP, or a request.
Chunk(i, p) ==
  /\ producer.at = "sending" /\ ~late
  /\ InTurn(i) /\ Sends(i, p)
  /\ Void!Stage(Transfer, i, p)
  /\ producer' = [producer EXCEPT !.next = @ + 1]
  /\ UNCHANGED <<Same, ticket, late, active, reader, faults>>

\* handle_transfer_commit
Commit ==
  /\ producer.at = "sending" /\ producer.next = Begin.expected_chunks /\ ~late
  /\ Void!Publish(Transfer)
  /\ active' = FALSE
  /\ ProducerTo("done")
  /\ UNCHANGED <<Same, ticket, late, reader, faults>>

\* stream_transfer gives up when its chunks did not make up the content; a
\* client of the single requests may abort at any time.
Abort ==
  /\ producer.at = "sending" /\ producer.kind # "mass" /\ State = "InProgress"
  /\ producer.kind = "sun" =>
       /\ producer.next = Begin.expected_chunks
       /\ Void!Assembled(Parts, producer.next) # Content
  /\ Void!Discard(Transfer)
  /\ active' = FALSE
  /\ ProducerTo("failed")
  /\ UNCHANGED <<Same, ticket, late, reader, faults>>

\* expire_transfer_locked, from whichever handler meets the record.
Expire ==
  /\ late /\ Void!Discard(Transfer)
  /\ active' = FALSE

\* A producer that is late is answered with an error.
TooLate ==
  /\ producer.at \in {"sending", "ticket"} /\ late
  /\ Expire
  /\ ProducerTo("failed")
  /\ UNCHANGED <<Same, ticket, late, reader, faults>>

-----------------------------------------------------------------------------
(* Reading the stream *)

ReaderTo(r, at) == reader' = [reader EXCEPT ![r].at = at]
OnlyReads == UNCHANGED <<Same, artifact, producer, ticket, late, active>>

\* What a broken stream leads to: receive_stream and download_artifact.
Then(k) ==
  IF policy = "replay" THEN IF k = "mass" THEN "inspect" ELSE "resolve" ELSE "failed"

Left(me, at, out) == [IdleReader EXCEPT !.kind = me.kind, !.early = me.early, !.hurt = me.hurt,
                                        !.at = at, !.out = out]
Ends(r, at, out) == reader' = [reader EXCEPT ![r] = Left(@, at, out)]
Leaves(r)        == Ends(r, Then(reader[r].kind), <<>>)

\* A reader with the ticket connects.  The stream of a transfer that is not
\* there fails at once.  A flow does not use the stream.
Receive(r, k) ==
  /\ reader[r].at = "idle" /\ ticket
  /\ reader' = [reader EXCEPT ![r].kind = k, ![r].early = State = "Missing",
                  ![r].at = IF k = "flow" THEN "poll"
                            ELSE IF State = "Missing" THEN Then(k) ELSE "snapshot"]
  /\ OnlyReads /\ UNCHANGED faults

\* Every chunk of the snapshot has been sent, over QUIC or TCP: what follows is the
\* last frame, or another look 10 ms later.
SentAll(r)    == reader[r].sent >= Len(reader[r].chunks)
LooksAgain(r) == reader[r].end = "InProgress" /\ ReaderTo(r, "snapshot")

\* Mutant of Snapshot: a late record is not expired.
SnapshotOnly(r) ==
  /\ reader[r].at = "snapshot" /\ SentAll(r)
  /\ reader' = [reader EXCEPT ![r].at = "send", ![r].end = State, ![r].chunks = Chunks]
  /\ OnlyReads /\ UNCHANGED faults

\* transfer_stream_snapshot: a record past its deadline is expired by looking.
Snapshot(r) ==
  /\ reader[r].at = "snapshot"
  /\ \/ /\ ~(late /\ State = "InProgress")
        /\ reader' = [reader EXCEPT ![r].at = "send", ![r].end = State,
                        ![r].chunks = IF State = "Aborted" THEN <<>> ELSE Chunks]
        /\ UNCHANGED <<artifact, active>>
     \/ /\ Expire
        /\ reader' = [reader EXCEPT ![r].at = "send", ![r].end = "Aborted", ![r].chunks = <<>>]
  /\ UNCHANGED <<Same, producer, ticket, late, faults>>

\* read_transfer_chunk_frame: the chunk was not deleted since the snapshot.
Readable(i) == i \in DOMAIN Parts

\* The chunk at position `sent` of the snapshot is read and sent, and the client
\* takes it if its index is the next (apply_incoming_frame).  One that cannot be
\* read ends the stream.
SendChunk(r) ==
  LET me == reader[r]
      i  == me.chunks[me.sent + 1]
  IN  /\ me.at = "send" /\ me.sent < Len(me.chunks)
      /\ IF Readable(i) /\ i = me.sent
         THEN reader' = [reader EXCEPT ![r].sent = @ + 1, ![r].out = @ \o Parts[i]]
         ELSE Leaves(r)
      /\ OnlyReads /\ UNCHANGED faults

\* Mutant of StreamEnds: any last frame ends the stream well.
StreamEndsAnyhow(r) ==
  LET me == reader[r] IN
  /\ me.at = "send" /\ SentAll(r)
  /\ \/ LooksAgain(r)
     \/ me.end # "InProgress" /\ Ends(r, "got", me.out)
  /\ OnlyReads /\ UNCHANGED faults

\* The client checks what it has at the last frame (apply_incoming_frame,
\* validate_received_tensor).
StreamEnds(r) ==
  LET me == reader[r]
      whole == me.sent = Begin.expected_chunks /\ me.out = Content
  IN  /\ me.at = "send" /\ SentAll(r)
      /\ \/ LooksAgain(r)
         \/ me.end = "Committed" /\ whole /\ Ends(r, "got", me.out)
         \/ (me.end = "Aborted" \/ (me.end = "Committed" /\ ~whole)) /\ Leaves(r)
      /\ OnlyReads /\ UNCHANGED faults

StreamBreaks(r) ==
  /\ reader[r].at \in {"snapshot", "send"} /\ MayFail
  /\ Leaves(r)
  /\ OnlyReads

-----------------------------------------------------------------------------
(* Reading the record *)

Whole(parts) == DOMAIN parts = 0 .. (Begin.expected_chunks - 1)
Resolved     == State = "Committed" /\ Whole(Parts)

\* wait_for_committed_transfer of the Sun library tries to resolve the record,
Resolve(r) ==
  /\ reader[r].at = "resolve"
  /\ IF Resolved THEN Ends(r, "got", Void!Assembled(Parts, Begin.expected_chunks))
     ELSE ReaderTo(r, "clock")
  /\ OnlyReads /\ UNCHANGED faults

ResolveFails(r) ==
  /\ reader[r].at \in {"resolve", "poll", "inspect"} /\ MayFail
  /\ reader' = [reader EXCEPT ![r].hurt = TRUE,
                              ![r].at = IF reader[r].kind = "sun" THEN "clock" ELSE "failed"]
  /\ OnlyReads

\* Mutant of Clock: the fallback tries once only.
ClockStops(r) ==
  /\ reader[r].at = "clock"
  /\ ReaderTo(r, "failed")
  /\ OnlyReads /\ UNCHANGED faults

\* and tries again until the deadline.
Clock(r) ==
  /\ reader[r].at = "clock"
  /\ ReaderTo(r, IF ~late THEN IF reader[r].kind = "mass" THEN "inspect" ELSE "resolve"
                 ELSE "failed")
  /\ OnlyReads /\ UNCHANGED faults

\* download_committed_transfer of Mass inspects the record, downloads the chunks
\* it lists and does not have yet, and looks at the clock.
Inspect(r) ==
  /\ reader[r].at = "inspect"
  /\ \/ /\ ~(late /\ State = "InProgress")
        /\ reader' = [reader EXCEPT
             ![r].at = IF State \in {"Missing", "Aborted"} THEN "failed" ELSE "stage",
             ![r].end = State, ![r].listed = DOMAIN Parts]
        /\ UNCHANGED <<artifact, active>>
     \/ /\ Expire /\ ReaderTo(r, "failed")
  /\ UNCHANGED <<Same, producer, ticket, late, faults>>

\* Staged chunks keep their place by index, and chunks never change: what has
\* been staged is what is listed.  A chunk deleted meanwhile fails the download.
StageChunks(r) ==
  LET me == reader[r] IN
  /\ me.at = "stage"
  /\ IF ~(me.listed \subseteq DOMAIN Parts) THEN Ends(r, "failed", <<>>)
     ELSE IF me.end = "Committed" THEN Ends(r, "got", Void!Assembled(Parts, Begin.expected_chunks))
     ELSE Ends(r, "clock", <<>>)
  /\ OnlyReads /\ UNCHANGED faults

\* wait_for_transfer_raw of a flow: the record is read as an object, which does
\* not expire it, for as long as it is in progress.
Poll(r) ==
  /\ reader[r].at = "poll" /\ State # "InProgress"
  /\ IF Resolved THEN Ends(r, "got", Void!Assembled(Parts, Begin.expected_chunks))
     ELSE Ends(r, "failed", <<>>)
  /\ OnlyReads /\ UNCHANGED faults

-----------------------------------------------------------------------------
(* Void's clock and its restarts *)

Deadline ==
  /\ ~late /\ late' = TRUE
  /\ UNCHANGED <<Same, artifact, producer, ticket, active, reader, faults>>

\* spawn_transfer_cleanup
Cleanup ==
  /\ active /\ Expire
  /\ UNCHANGED <<Same, producer, ticket, late, reader, faults>>

\* Void restarts: streams break and active_transfers is empty.
Restart ==
  /\ MayFail
  /\ active' = FALSE
  /\ reader' = [r \in Readers |->
       IF reader[r].at \in {"snapshot", "send"}
       THEN Left(reader[r], Then(reader[r].kind), <<>>) ELSE reader[r]]
  /\ producer' = IF producer.kind # "requests" /\ producer.at \in {"sending", "ticket"}
                 THEN [producer EXCEPT !.at = "failed"] ELSE producer
  /\ UNCHANGED <<Same, artifact, ticket, late>>

-----------------------------------------------------------------------------
Produce == \/ Publishes \/ PrepareStream \/ StreamOpens \/ Commit \/ Abort \/ TooLate
           \/ \E i \in 0 .. (MaxParts - 1), p \in Payloads : Chunk(i, p)
Reads(r) == \/ Snapshot(r) \/ SendChunk(r) \/ StreamEnds(r)
            \/ Resolve(r) \/ Clock(r) \/ Inspect(r) \/ StageChunks(r) \/ Poll(r)

StreamNext ==
  \/ Produce \/ Deadline \/ Cleanup \/ Restart
  \/ \E r \in Readers, k \in ReaderKinds : Receive(r, k)
  \/ \E r \in Readers : Reads(r) \/ StreamBreaks(r) \/ ResolveFails(r)

\* Time passes, the cleanup task runs, and what reads goes on reading; producers
\* owe nobody anything.
Fairness == /\ WF_streamVars(Deadline) /\ WF_streamVars(Cleanup)
            /\ \A r \in Readers : WF_streamVars(Reads(r))

StreamSpec == StreamInit /\ [][StreamNext]_streamVars /\ Fairness

-----------------------------------------------------------------------------
(* Properties *)

Ended(r) == reader[r].at \in {"idle", "got", "failed"}

\* _black_hole_mass/src/lib.rs, "A full-tensor operation receives bytes only
\* after the stream's commit frame, so its output cannot precede durable input":
\* whoever has an artifact, by whichever way, has the declared content of a
\* transfer that is committed.
ReceivedIsDurable ==
  \A r \in Readers : reader[r].at = "got" => State = "Committed" /\ reader[r].out = Content

\* A reader of a replayable artifact gives up only when the deadline has passed or
\* the transfer was aborted, unless one of its own calls failed or it came before
\* the transfer had begun; so broken streams and restarts cost it nothing.
NobodyGivesUpEarly ==
  policy = "replay" => \A r \in Readers :
    reader[r].at = "failed" => late \/ State = "Aborted" \/ reader[r].hurt \/ reader[r].early

\* Every reader comes to an end, except for a flow that polls a transfer which
\* nobody will commit and no cleanup knows of since Void was restarted.
ReadersEnd ==
  \A r \in Readers :
    []<>(Ended(r) \/ (reader[r].kind = "flow" /\ State = "InProgress" /\ ~active))
=============================================================================
