# Black Hole Sun: formal models

TLA+ models of Black Hole Sun, the TLC instances that check them, and TLAPS
proofs about them.  `PROJECT.json` holds the same information for tools: the
components, the runs, the lines each definition models, the hazards and the
theorems.

1. [The system](#the-system)
2. [The modules and the code](#the-modules-and-the-code)
3. [Runs](#runs)
4. [Fairness](#fairness)
5. [Proofs](#proofs)
6. [Disagreements found](#disagreements-found)
7. [Observations](#observations)
8. [What is not modelled](#what-is-not-modelled)
9. [Plan](#plan)

## The system

Black Hole Sun trains and runs a graph of models that are spread over machines.
A *Sun* is a flow of the Jungle workflow system that owns the graph; each vertex
of the graph is a flow (a *journey*) of its own.  They never call each other: all
data goes through *Void*, an object store, where one writes an object under an id
the other is already polling (a *mailbox*).  Vertices with a model call *Mass*,
the server that hosts model instances and holds their weights.

```
   Sun program ---- mailboxes in Void ---- vertices (cell, fusion, warp)
   (two_sided_zo, forward, pipeline_backward)      |
                                                   | perturb, infer, optimize
                                                   v
                     Void  <--- checkpoints ---  Mass --- tunnels --- Mass workers
```

### Void (`_black_hole_void`)

* State: a metadata store (Postgres or Fjall: id to key) and an object store
  (directory or S3), both durable; `active_transfers`, `multipart_uploads` and
  the wait registry, all lost when it restarts.
* Operations: single-shot upload and download; download that waits; multipart
  upload; the *progressive transfer*, an artifact declared in advance, sent chunk
  by chunk, readable while it grows, and made authoritative by a commit that
  checks its length and hash; a stream that replays a transfer to a reader.
* Hard: every operation is several awaits on two stores without a transaction
  between them, any of which may fail before or after it took effect; restarts;
  repeated requests; leases that end when the client is gone; requests on one id
  through different handlers, only some of which share a mutex.
* Right when: a committed manifest is whole and final; what was acknowledged is
  not lost; an unfinished transfer ends; nothing is stored that no one can find;
  a waiting reader is woken; a stream replays exactly the chunks.

### Mass (`_black_hole_mass`)

* State: three registries of the instances it hosts (the Qwen slots, `instances`,
  `routes`); per instance an engine with weights and a session: where it is in
  the *QuZO* step (perturb up, infer, perturb down, infer, optimize), whether it
  is frozen, how many steps it made.  As a parent: its workers, their capacity,
  and one tunnel to each, with calls pending on it.
* Operations: start, shut down, perturb up and down, infer, optimize, fuse
  weights with a checkpoint, save a checkpoint; register a worker, forward a
  start to it, forward its requests.
* Hard: a request finds its instance and locks it in two steps, with shutdowns
  and restarts in between; overlapping starts; three registries changed one after
  the other; the train/freeze oscillation, off-by-one country; tunnels that break
  with calls in flight.
* Right when: weights are perturbed exactly when the session says so; no request
  touches an instance that is gone; capacity holds; registries agree; a schedule
  trains as often as configured; every call over a tunnel is answered.

### Flux (`_black_hole_flux`)

* State: the topology of the graph (fixed once finalized) and what observers are
  shown; per program its counters, mailbox ids and collected outputs; per vertex
  its loop position and the two or three mailboxes it knows.
* Programs: *two-sided ZO* (the inputs of a step are driven through the graph
  twice, on weights perturbed up and down, and the difference of the losses is
  broadcast), *forward* (windows of inputs are pipelined through the graph),
  *pipeline backward* (1F1B training of a chain of stages).
* Hard: there are no barriers, so vertices are at different microsteps and passes
  at one time; a vertex only knows mailboxes from the envelope it read last; a
  broadcast is a sequence of uploads that may stop half-way; calls to Mass that
  took effect are repeated when their answer is lost.
* Right when: the losses compare outputs of the same input on the two sides of
  the same weights; each vertex applies the losses of a step to the weights they
  were measured on; every step ends; observers count right.

### Clients, contracts, Beam

* The clients of Void and Mass (`black-hole-sun`, and the copies inside Mass and
  Flux) open a connection per call, send one frame and read one; requests and
  answers are told apart by position, in tables each crate writes for itself.
  Files travel in one frame or in parts and come back by ranges.  Right when both
  ends mean the same by every call and a file comes back whole.
* `_black_hole_spec` has tensor contracts and the codec of tensor bundles, which a
  receiver decodes whole or, from a live stream, header first.  Right when the
  two ways accept the same artifacts.
* `_black_hole_beam` is the window of a user: a picture of a running Sun with the
  Suns nested in it, polled while it changes, and a piano that loops over a score
  file, with a tool that makes and edits such files.  Right when nothing is left
  sounding, the score is played by the clock, an edit never makes a file that
  cannot be played, and a click expands the Sun it was made on.
* `_black_hole_type` has the wire types; `_black_hole_probe` integration tests;
  `_black_hole_toy` examples, of which two operations keep state that the models
  need (corgi-zo's shared weights, the pipeline's stage).

## The modules and the code

| module | models |
| --- | --- |
| `VoidTransfer` | the transfer handlers, the sweep, single-shot upload (`_black_hole_void/src/lib.rs`) |
| `TransferContract` | what the transfer protocol promises its readers |
| `VoidObjects` | single-shot and multipart uploads, downloads that wait, notifications (`lib.rs`, `object_store.rs`, `persist`) |
| `VoidStream` | producers and readers of one transfer over its streams (`lib.rs`, Mass's and Sun's clients, Flux's `ops.rs`) |
| `RemoteCalls` | a call between any client and Void or Mass: frames, tables, limits, files, shutdown |
| `MassSession` | instances, registries, sessions, oscillation (`_black_hole_mass/src/lib.rs`) |
| `MassWorkers` | registration, tunnels, routes and placement between a root and its workers |
| `MassOperations` | injected operations: contracts, input references, live streams, published outputs |
| `TensorFrames` | tensor contracts and the bundle codec (`_black_hole_spec`); operators only |
| `CellLoop` | the loops of the vertices (`_black_hole_flux/src/nodes`) |
| `TwoSidedZo` | the two-sided ZO program, composed with `CellLoop` (`programs/two_sided_zo`) |
| `PipelineBackward` | the 1F1B driver and its stages (`programs/pipeline_backward`) |
| `PipelineContract` | what a pipeline step computes, whatever the schedule |
| `SunTopology` | declaring, connecting and finalising a graph, and the frontier (`compile`, `topology`); operators only |
| `ForwardPipeline` | the three forward drivers with their vertices (`forward`, `programs/forward_only`) |
| `ServeContract` | what a forward program promises its source and consumer |
| `ScoreText` | the score file format and every edit of a score (`piano/score_text.rs`); operators only |
| `ScoreTool` | the program that converts and edits score files (`bin/black-hole-score.rs`) |
| `PianoApp` | the piano: score player, keys, voices (`app/piano.rs`, `piano/`) |
| `BeamView` | the view of a Sun and its nested Suns (`app/mod.rs`, `live.rs`, `model.rs`, `visual.rs`) |
| `VoidTransferProofs`, `MassSessionProofs`, `MassWorkersProofs`, `MassOperationsProofs`, `TwoSidedZoProofs`, `PipelineBackwardProofs`, `ForwardPipelineProofs`, `BeamProofs` | theorems about the module each is named after, in `VoidTransferProofs` about `VoidObjects` too, in `MassSessionProofs` about `VoidStream`, in `MassOperationsProofs` about `RemoteCalls`, and in `BeamProofs` about `PianoApp` and `BeamView` |
| `MC...` | instances for TLC |

`VoidStream` uses the actions of `TransferContract` as its server, and
`VoidTransfer` is shown to implement that contract, so the two compose.
`TwoSidedZo` and `PipelineBackward` contain the sessions or operations of Mass as
their vertices see them; `ScoreTool` extends `ScoreText`, `PianoApp` plays the
file `ScoreTool` writes, `MassOperations` extends `TensorFrames`, and
`ForwardPipeline` runs the graphs `SunTopology` accepts.  `MCVoidServer` and
`MCBeam` put components that share a process and nothing else into one instance:
each behaviour is about one of them, and the other stays as it started.

### VoidTransfer

All transfer handlers take `transfer_mutation` for their whole length, so at most
one of them is between two awaits; `job` is that handler: which one it is, the
record it means to write (`target`), the chunks it has still to delete (`doomed`)
and the await it is at (`step`).  A handler's first step is the action named
after it (`TransferBegin`, `TransferChunkArrives`, `TransferCommit`,
`TransferAbort`, `Expire`, `TransferInspect`), with the guards of the code.  Its
awaits are shared: `ChunkPut` and `ChunkIndex` (`handle_transfer_chunk_upload`),
`DropBytes` and `DropRow` (`delete_object`), `PersistLookup`, `PersistPut` and
`PersistIndex` (`persist_transfer_record`); `Persisted` is what the handler does
after, its reply included.  Each may fail, and a failed write may have been
applied.  `handle_upload` takes no mutex, so its check of the row (`UploadCheck`)
and its write (`UploadIndex`) are steps that interleave with all of these.
`Restart` keeps the stores and loses `active`, the handler and the uploads in
flight.

`index` and `record` hold the metadata row and the object of a transfer's record;
`rows` and `blobs` those of its chunks.  SHA-256 is taken to be injective, so a
hash is the bytes themselves.  A request that is refused changes nothing and is
not a step; a repetition that is answered without a change is not one either.
`acked` and `verdict` remember what clients were told.

`TransferContract` knows one thing of each transfer, the artifact its readers
see: missing, growing by one part at a time, committed once it is exactly what
was declared, or aborted.  The refinement mapping `Artifact` reads the bytes of a
committed transfer's chunks back from the stores, so that a commit over a missing
or damaged chunk is not a step of the contract.  Failed writes, half-made aborts
and restarts have to map to stutters or to steps it allows.

### VoidObjects

`up[c]` is an upload by the step its handler is at, `reader[r]` a
`handle_download_wait`.  An upload puts the bytes, then the row (`Index`, whose
failure is only logged), publishes a notification through the metadata store
(`Publish`) and wakes the server's own waiters (`NotifyUpload`).  A reader looks
(`Wait`), registers (`WaiterFor`), looks again (`Check`) and only then makes the
future that can be woken (`Arm`); with Postgres it listens as well (`Listen`,
`ListenChecks`, `ListenFails`).  `registry` is `WaitRegistry::waiters` of each
server, a Notify being a number, and `ReleaseIfIdle` its reference count.
Multipart uploads look for a session in flight (`UploadBegin`) and enter theirs
one step later (`BeginMultipart`), since the lock is given up between; parts are
looked up, stored and recorded in three steps (`UploadPart`, `StorePart`,
`RecordPart`), a failed part takes the session with it (`DropSession`), and a
finish takes it out and assembles it (`UploadFinish`, `FinishMultipart`).
`Fresh`, `WithPart`, `Ended`, `Holds` and `Gathered` are the object store's
sessions, the same for a directory and for memory.  `ServerRestarts` empties what
a server keeps in memory.  `missed` and `overlap` record which of the exceptions
named by the properties has happened.

### VoidStream

One transfer, its producer and its readers.  The producer is Mass's
`publish_artifact` (begin, ticket, data, commit), the Sun library's
`prepare_stream_transfer` and `stream_transfer` (ticket first), or a client of
the single requests; a reader is Mass's `download_artifact` (stream, then
inspect and stage), Sun's `receive_stream` (stream, then resolve until the
deadline) or a flow (polls the record).  The stream is positional:
`transfer_stream_snapshot` re-reads the record every 10 ms and goes on behind the
chunks it has `sent` (`Snapshot`, `SendChunk`, `StreamEnds`).  Void itself is
`TransferContract`, which `VoidTransfer` implements; `late` is the deadline
having passed, and whatever meets the record then expires it.

### RemoteCalls

A call of any client method from the frame to the answer: `Sends` encodes with
the client's table, the server reads the frame with its own limit and table
(`VoidServes`, `MassRuns`), runs the handler and answers, and the client decodes
(`Verdict`).  Void's requests and answers are written down twice, as Void and the
Sun library have them and as Mass has its own copies, because postcard goes by the
order of variants and fields.  Files are put whole, by parts or fetched by ranges
(`UploadFile`, `UploadPartByNumber`, `DownloadToFile` ...), a read of a file
giving any length up to a part.  A caller may go away (`GoesAway`) and its request
is still handled (`RunsLeft`); Mass may be shut down (`MassStops`: the loops end,
TCP connections that are open are still served).  What a transfer request answers
is any answer its handler has (`VoidTransfer` says which, when).  Calls that have
nothing to do with files are made in behaviours of their own (`CallAlone`).

### MassSession

`slot`, `hosted` and `routed` are the three registries; `session` and `engine`
the latest instance of each id.  `StartBegins`/`StartEnds`/`StartFails` and
`ShutdownBegins`/`ShutdownUnloads`/`ShutdownUnlists` cut start and shutdown at
their awaits.  An unload may fail, which leaves the slot vacated and the id listed
and routed; `stranded` remembers such ids, for `RegistriesAgree` only.  A session request is `Enters` (`get_instance` clones the `Arc`)
and then, under the session lock, one of `PerturbUp`, `PerturbDown`, `Infer`,
`Optimize`, `FuseWeights` or `Refused`; `request` remembers which instance it
found.  Of the engine only the side its weights are on is modelled.
`FrozenAtStep`, `NewSession` and `Oscillated` are the schedule.

### MassWorkers

`registered`, `connection`, `route`, `dispatch` and `req` are the root's;
`stage`, `session`, `offer` and `token` each worker's.  A tunnel is used in both
directions; `link` holds what each end knows of it, `pending` the calls waiting at
the root, `wire` the frames under way.  `Cut` breaks a tunnel and each end finds
out by itself (`Notice`, `WriteFails`), which fails the calls pending there
(`FailCalls`); over TCP the closed flag is never stored (`Refuses`), which is why
a call made after that waits for ever.  Registration, the answer, the replaced
tunnel and the token are steps of their own (`RegisterTunnel`, `Registered`,
`StoreToken`), as are choosing a target, calling and entering the route
(`StartInstance`, `Call`, `TunnelForward`, `Answered`, `Reroute`).  A host that
starts or shuts down an instance looks it up (`Found`), awaits its operation, which
may fail, and then changes its table, whatever others did to it meanwhile: on a
worker these are `TunnelForward` and `ForwardEnds`, on the root `Local` and
`LocalEnds`.  Shutdowns can overlap there; starts cannot, since the root and each
worker hold their own `start_dispatch` (`dispatch`, `Starting`).  `doubt`, `crossed`
and `doubled` are for the properties: ids with a call that failed after it was
sent, with overlapping requests, and with overlapping shutdowns.  A worker's
process may end and the root be restarted at any point.

### MassOperations and TensorFrames

`TensorFrames` has the codec of tensor bundles: contracts with their ports,
`EncodeFrame`, `DecodeFrame`, `ValidArtifact`, and what a receiver of a live
stream checks of the header alone (`TensorStreamHeader`).  A frame is a sequence of
cells, so prefixes, truncation and chunks are those of sequences, while lengths,
offsets and padding are computed.

`MassOperations` is the server around an injected operation (corgi-zo's, whose
instances share one model) and Qwen's.  Start, shutdown and their registries are
cut at their awaits (`StartLocal`, `StartRoutes`, `ShutdownRuns`,
`ShutdownUnlists`, `ShutdownUnroutes`).  A forward resolves its input, a stored
object or a ticket with a live stream and a durable fallback
(`Download`, `ReceiveBegin`, `ReceiveChunk`, `ReceiveCommit`, `StreamFails`,
`Fallback`), validates it, runs, and publishes its output with a ticket
(`RunsForward`, `QwenForward`, `PublishArtifact`).  What arrives may be any of the
listed frames, tickets and begin frames, well-formed or not, and they need not
belong together.

### CellLoop and TwoSidedZo

`CellLoop` is the loop of a vertex over its mailboxes: perturb up, `GradSteps`
times receive, infer and transmit, the same again perturbed down, await the
losses, optimize.  One module covers the cell, the fusion (two ports, whose
envelopes must agree on where to answer; no `Backoff`) and the model-free warp
boundary, by the constants `Owner` and `ModelFree` and the operator `HasBackoff`.
A call may take effect and its reply be lost; what retries, retries.  The session
it talks to is that of `MassSession` as its only client sees it.

`TwoSidedZo` is the program.  An action of the flow is an *emit*, an effect that
makes uploads one after the other, and an *absorb*; `todo` holds the uploads the
effect has yet to make, so vertices act between any two of them, and `SendFails`
stops the program between any two.  `SeedRoots`/`RootsSeeded`,
`TakeOutput`/`OutputForwarded` and `CollectPairs`/`LossesBroadcast` are the emit
and absorb of `SendReadyRootTasks`, `ProcessReadyPipelineNode` and
`BroadcastPotentiation`; `Ready` and `Task` are the readiness rule; `NextInputId`
is the mailbox chain.  UUIDs are fresh, so a mailbox is named by what it is
allocated for.  An emission is its provenance: which input it started from and,
for every model passed, the side and the number of updates of the weights.
`shown` is what observers read.  The graph is a constant that satisfies
`Finalized`, which is what `FinalizeGraph` lets through.

### PipelineBackward and PipelineContract

The driver's scan over stages and replicas is `at` and `lane`; for each stage it
sends a backward if one is ready, otherwise a forward within the warm-up, to all
replicas, and polls for replies.  A stage is one journey that reads its inboxes,
computes with an operation of Mass that caches a graph per forward and uses the
oldest in each backward, and answers.  Artifacts are named by what they are, the
stage that made them and the batch they hold.  `shown` is what observers read.
A backward may fail before it has touched its graph (`OpRefuses`) or after it has
taken it from the cache (`OpLosesGraph`; `lost` remembers which).
`PipelineContract` knows, per stage, the micro-batches forwarded and reversed and
the updates made; the mapping reads them from the stages' caches, gradients and
lost graphs.

### SunTopology, ForwardPipeline and ServeContract

`SunTopology` is `resolve_neutral_topology`, `visit` and the frontier as operators
over any list of descriptors; `Sound` says independently of them when a graph can
be run: each port is claimed once, no port is fed twice and a fusion has both its
inputs or none, each edge leads to a port between contracts that meet, the
vertices have places such that every edge leads forward (no cycle), and exactly one
feeds nobody.  `FinalizedIsSound` compares the two on every small graph, and
`CompilesWhatIsSound` proves them the same for every graph.
`ForwardPipeline` deploys a graph and serves with it.  The three drivers share the
code: `Collect`, `Prepare`, `SeedRoots`/`RootsSeeded`, `TakeOutput`/
`OutputForwarded` (an emit and an absorb with the uploads of the effect between,
as in `TwoSidedZo`), `Drain`; `Frontier` is that of the single pass.  A vertex
starts, receives once all its ports have an input, responds and moves on.
`ServeContract` says what the drivers promise: the n-th output served is computed
from the n-th input alone, and inputs are drawn in batches never larger than the
limit.

### ScoreText, ScoreTool, PianoApp and BeamView

`ScoreText` parses lines to a score and writes it back, with the names and the
arithmetic of `score_text.rs`: rounding of ticks, headers, comments that anchor to
notes, looping, every edit.  `ScoreTool` is a file and the commands that convert a
MIDI performance into it and edit it.  `PianoApp` plays the file: `events`,
`index` and `cycle` are the player's, `active` what the window holds down,
`queue` the channel to the audio thread, `voices` its strings.  A tick of the window
takes the events due (`take_due`) and performs them (`Performed`); the user presses
and lets go of keys, mouse and fingers and changes octave and modifiers between; the
audio thread takes the commands one by one (`PerformCommand`), so that the window
may send more between any two, and steals a string when it has no more.
`BeamView` fetches appearances of a Sun and of the nested Suns its user expanded
(a fetch reads one per step while the cells move), merges them under new ids
(`Joined`; the code recurses into a nested Sun, here the graph of a path is made from
those of the paths one longer), and walks each cell's colours through the phases it skipped
(`PhasesAfter`).

## Runs

`lost_wakeup` expects a violation: it checks a statement of the repository the code
does not keep; see [below](#disagreements-found).  All others pass.

| run | instance | shows |
| --- | --- | --- |
| `transfer_core` | one transfer of 0, 1 or 2 chunks, payloads of 0 to 2 bytes, 3 chunk objects, 1 failure, 1 restart; or two callers with two things to do, files of 3 and 5 cells and a stored one of 4 (frame limits 3 and 4, parts of 2), 1 failure or caller that leaves, Mass stopping; 1,073,888 states | `CommittedIsWhole`, `AckedChunksListed`, `VerdictStands`, `NoOrphans`, `ImplementsContract`; `CallsMeanTheSame`, `FilesComeBackWhole` |
| `transfer_lease` | 2 transfers, 1 uploader using their ids, 1 restart, no failure; 1,218,738 states | `LeasesEnd` |
| `objects` | 2 servers, six casts of readers, uploaders and multipart clients on one id, Fjall or Postgres, 2 failures or restarts; 145,647 states | `PartsAreWhole`, `WaitersAreWoken` |
| `lost_wakeup` | the same without failures | violates `WaitersSeeTheObject` |
| `stream` | 2 readers of any kind, 3 kinds of producer, replayable or ephemeral, a deadline, 2 failures or restarts; 521,351 states | `ReceivedIsDurable`, `NobodyGivesUpEarly`, `ReadersEnd` |
| `session` | 2 ids, room for 1, 2 requests, unloads that fail, every interleaving over 2 optimize steps with an alternating schedule or none; 1 instance under every schedule of period up to 3, phase 0, 1, 4, warm-up 0, 2 for 8 optimize steps | `WeightsInStep`, `WithinCapacity`, `RegistriesAgree`, `NoUseAfterUnload`, `CyclesTrain` |
| `workers` | root and 2 workers with a place each, 2 ids (one only one worker can host), QUIC or TCP, 4 requests of which two may overlap, 1 broken tunnel, dead worker or restarted root; 275,149 states | `NoLostInstance`, `RouteLeadsHome`, `WorkersComeBack`, `RequestsEnd` |
| `operations` | 2 ids, 2 requests, a two-port toy contract and Qwen's, one optimize step with up to 2 downward perturbations, 1 failure, two shutdowns of one id; 1,281,399 states | `CommittedStreamsValid`, `PublishedDecodes`, `StepsReturn`, `ListedAndRouted` |
| `sun_step` | cell, warp boundary and fusion on paths of unequal length, 2 gradient steps, 2 training steps, 1 lost reply, 1 failed upload | `PairsCompareSides`, `LossesFitWeights`, `EveryStepEnds` |
| `pipeline_step` | 2 stages, 3 micro-batches, 2 replicas, 1 step, 1 failure; 285,129 states | `GradientsFitGraphs`, `ImplementsContract`, `EveryRunEnds` |
| `serving` | every graph of 3 unary or of 1 unary and 1 binary vertices over 3 ports, a merge, a diamond, ill-typed ones; 3 drivers, 2 windows of 2 inputs, 1 failed call | `FinalizedIsSound`, `ImplementsContract`, `WindowsEnd` |
| `beam` | 6 score files, 2 MIDI files, 2 edits, 7 quarters of a second, 2 voices, 2 inputs; or 3 nested Suns whose cells move while they are fetched, expanded and collapsed | `NothingStuck`, `ScoreFollowsClock`, `EditsKeepScoresPlayable`, `PathsLeadHome`, `LatestIsShown` |

Every passing run of a module also fires all of its actions.  Bounds, and why they
are enough to show something:

* `transfer_core`: two chunks are the fewest with a wrong order, a gap and a
  repetition; three chunk objects allow one of them to be sent again after a
  failure; byte strings up to two over `a`, `b` include a chunk of the wrong
  length, of the wrong bytes and an empty one; one failure at any await, applied
  or not, together with one restart at any point reaches every half-made record.
  Clock values 0 to 2 place a deadline before, between and after the steps.  A
  second transfer adds only interleavings of whole handlers, which share no
  object; the theorems are for any number.  The file sizes are one of exactly the
  frame limit, one of two parts and a rest and a stored one of exactly two parts;
  two callers are enough to replace or finish a file under one another.
* `transfer_lease` has no failures: with one the sweep forgets a transfer whose
  record fails to load, as it does after a restart (`Forgotten`).
* `objects`: a cast is the fewest clients for one race: two readers of one server
  share a Notify, a reader of the other server needs Postgres, two multipart
  clients overlap.
* `stream`: two readers can be in the fallback and in the stream at once; two
  chunks are needed for a snapshot between them.
* `session`: two requests are enough for one to be between its look-up and the
  lock while the other shuts the instance down and starts it anew; two ids compete
  for one place.  What follows a fusion is not explored further, since it changes no other
  variable.  Phase and warm-up exceed the period of the schedule, which is
  arithmetic modulo that period.
* `workers`: four tunnels allow each worker to register again after a break; a
  fault counts as two requests, so that some remain to be made after it.  Four
  requests are a start, two shutdowns that overlap and a start between their
  answers.  Only one worker offers what the first id asks for, and every host what
  the second does.
* `operations`: the bundles include an empty tensor that shares its start with a
  later one and tensors of zero rows; frames include overlapping, truncated and
  foreign ones.
* `sun_step`: the fusion is reached by paths of one and two hops, so that a vertex
  is a pass ahead of another; two gradient steps are the fewest with a microstep
  that is neither first nor last; two training steps show the mailboxes handed
  over.
* `pipeline_step`: three micro-batches exceed the warm-up of two stages, so that
  forwards and backwards alternate; two replicas have to stay in lock-step.
* `serving`: the graphs of three ports are all that there are, sound or not; two
  inputs in flight follow one another through every vertex, and the second window
  reads the mailboxes the first has left.
* `beam`: files include a loop, rests, comments (one an anchor at the end of a note
  line), overlapping notes and events on one tick; all grids divide the nanoseconds
  of a beat, so that the rounding down in `ticks_to_duration` is not met here; two voices make the third steal one; a late timer finds up to three
  events due.
* `MaxLost`, `MaxFaults`, `MaxFailures`, `MaxErrors`, `MaxRestarts`, `MaxNow`,
  `MaxEpochs`, `MaxObjects`, `MaxPartNumber`, `MaxSessions`, `MaxTasks`, `MaxOps`, `MaxStarts`, `MaxSteps`,
  `MaxForwards`, `MaxDowns`, `MaxOverlaps`, `MaxWindows`, `MaxEdits`,
  `MaxMutations`, `MaxInputs` and `MaxTime` are bounds of the instances, not of the
  code; `MaxParts` of `VoidTransfer`, `MaxInstances`, `MaxInFlight`,
  `MaxPolyphony`, `MaxWarpDepth`, `MaxPendingPhases`, `FrameLimit`,
  `VoidFrameLimit` and `PartLen` are the code's (with smaller values).

`CHECK_DEADLOCK FALSE` in every configuration: a bounded model ends, at the last
tick, step or request; that nothing ends earlier is what the liveness properties
say.

## Fairness

* `VoidTransfer`: the runtime polls a handler whose await completed
  (`WF(Progress)`), time passes, and the cleanup task wakes every
  `TRANSFER_CLEANUP_INTERVAL` and expires the transfers it knows
  (`WF(Expire("sweep", t))` for each).  Clients are not fair: they may vanish at
  any point.  Weak fairness of the sweep is enough because no handler keeps the
  mutex for ever.
* `VoidObjects`: a reader or an uploader whose await completed goes on.  Timeouts
  are not fair: a reader may ask for the longest wait there is, and a wake-up must
  not depend on its end.
* `VoidStream`: the deadline comes, the cleanup task runs, and what reads goes on
  reading; producers owe nobody anything.
* `MassWorkers`: tasks that can run are run, the refresh timer fires, a broken
  connection is noticed, and what a whole one carries arrives.  What a broken one
  still carries need not, but a task that awaits an operation is detached and does
  not end with its connection.  The liveness properties are for QUIC: over TCP a call
  that meets the window in `mark_closed` waits for ever.
* `TwoSidedZo`, `PipelineBackward`, `ForwardPipeline`: Jungle workers poll every
  journey for ever, so the driver and each vertex or stage are weakly fair.
  Failures and lost replies are not fair.
* `MassSession`, `MassOperations`, `RemoteCalls`, `ScoreTool`, `PianoApp` and
  `BeamView` have no liveness property, and no fairness.


## Proofs

`tlapm` checks the eight proof modules without an unproved or assumed step.  The
theorems hold for every value of the constants that satisfies the `ASSUME`s of
the modules (types of the constants, and that markers such as `NoBytes` are not
values), whatever the sizes of the sets and the bounds.

`VoidTransferProofs`
* `TypeCorrect`: `Spec => []TypeOK`.  Needs `JobOK`: a handler at its put must be
  carrying a record of its own kind.
* `CommittedAreWhole`: `Spec => []CommittedIsWhole`.  The property is not
  inductive: a delete under way could hit the chunk of a committed transfer if
  two transfers listed one object, if a handler deleted the chunks of another, or
  if a new object reused a listed id.  `IInv` excludes these: objects listed are
  minted and disjoint (`RecordsMinted`, `RecordsDisjoint`), a handler writes and
  deletes only what no other transfer lists (`HandlerApart`), works on a
  committed transfer only to finish that commit, and commits only what is whole
  (`HandlerCommits`); committed record objects are whole even while no row leads
  to them (`StoredWhole`, `CommittedIndexed`).  The proof goes by the shape of a
  step: entering the critical section, writing a chunk, deleting, writing the
  record, and everything else.

The rest of `VoidTransferProofs` is for a server on which no single-shot upload uses
the id of a transfer (`Uploaders = {}`; with one the statements are false, see
[below](#disagreements-found))
* `ServerImplementsContract`: `Spec => ImplementsContract`.  `IInv` says nothing
  of what a handler is about to write, so `Plans` is added: until it is put, the
  record a handler has in hand is one that `Follows` from the stored one (the
  transfer begun, one chunk more, committed or aborted).  By `IInv` the bytes read
  back from the stores are those a committed record lists (`WholeIsShown`), so
  `Artifact` is a function of the record and of whether a row leads to it
  (`ArtifactIsShown`).  A put or the write of a row is then a `Declare`, `Stage`,
  `Publish` or `Discard` of the contract (`PutIsAStep`, `RowIsAStep`), and every
  other step a stutter.
* `VerdictsStand` and `AcknowledgedStayListed`, from `Told`: what was answered is
  what the record says, and a record that follows keeps it, unless it aborts.
* `NothingIsOrphaned`: `Spec => []NoOrphans`, from `Tidy`: on a server where
  nothing failed and that did not restart, a stored chunk is listed by a record
  its readers can load or is the one the handler has in hand, bytes are without a
  row only between the two writes of an upload, and what an abort has still to
  delete covers what is still stored.

`VoidTransferProofs`, of `VoidObjects`
* `ObjectsAreWhole`: `ObjectsSpec => []PartsAreWhole`.  The property looks at finished
  objects; what makes it true is who can reach a session before.  `ObjectsInv` says
  that a session is known on one server and for one id only (`OneHome`); that, of
  an id whose uploads did not overlap on a server, one client is between its
  begin and its finish (`Alone`); that the session of this client is in the table
  and holds its parts and no others, until the client has taken it out to
  assemble it (`Owned`); and that what was assembled has the parts of the finish
  (`Published`).  There is one lemma per step, and in each the other clients keep
  what they had (`MultisKeep`, `OthersKeepTheirs`).

`MassSessionProofs`, of `VoidStream`
* `WhatIsReceivedIsDurable` and `ReadersHoldOut`: `Spec => []ReceivedIsDurable` and
  `Spec => []NobodyGivesUpEarly`.  `Stored` says that what is committed is whole
  and is what was declared.  `Sees` says of each reader that a frame or an
  inspection that told it of a commit is of a transfer that is still committed,
  that the chunks it was shown are there until an abort, and that a reader that
  did not come before the begin knows of a transfer that was begun.  Between a
  reader's steps the server makes those of `TransferContract`; `Advances` says how
  far they can move a transfer, and that none of it makes a reader's knowledge
  wrong.

`MassSessionProofs`, of `MassSession`
* `Typed`, with the tie between a start in flight and `start_dispatch`.
* `WeightsStayInStep` and `FusionsStartFromBase`, from `WInv`, which adds that a
  running session's engine is loaded.
* `NothingAfterUnload`: a step that ends a request and changes its instance is
  one under the lock (`WorkIsLocked`), where `ensure_running` and the identity of
  the `Arc` hold.
* `NeverOverCapacity`, from `Capacity`: hosted ids are routed, and while
  `start_dispatch` is held there is room for one more.
* `RegistriesStayInAgreement`, from `Owned`: a request that opens or closes an
  instance owns the slot, and no two own the same; an id whose unload failed is
  `stranded`, and since its slot is vacant and it is still routed, no request can
  begin on it again.
* `SchedulesTrain`: `Spec => []CyclesTrain`.  `OnSchedule` says that a session
  counts its steps, that its frozen flag is that of the latest step, and that each
  step updated the engine as the schedule said after the one before.  What is left
  is arithmetic: of `p` numbers in a row just `t` have a remainder below `t`
  (`OneCycle`, by a bijection with `1 .. t`).

`MassWorkersProofs`
* `NoInstanceIsLost` and `RoutesLeadHome`: `Spec => []NoLostInstance` and
  `Spec => []RouteLeadsHome`.  Both need the whole of the traffic between the root
  and its workers.  `Messages` says that for each call there is at most one
  message, a request before it ran, the work it is or the answer after, and that
  somebody waits for it unless the id is in doubt.  `OneStart` says that one start
  is placed at a time.  `Placed`: the hosts of an id that no call left in doubt and
  on which no two shutdowns overlapped (`doubled`) change one at a time, and the
  root knows of each change before the next begins.  Without the second condition
  the statement is false (see [below](#disagreements-found)).  `Reached`: a
  route leads to a host until a stop of the id is done, where the calls on the id
  did not overlap.

`TwoSidedZoProofs`
* `PairsAreComparable`: `Spec => []PairsCompareSides`, and `LossesReachTheirWeights`:
  `Spec => []LossesFitWeights`.  `Mail` says that the id of a mailbox tells what is
  in it (`Fits`).  `Loops` and `Sessions` say that a vertex reads the mailboxes of
  the driver's epochs in their order (`Reads`) and that its session is on the side
  of the pass it is in and was updated once for each earlier epoch, or is one call
  ahead where the answer of that call was lost.  `Paired` follows emissions
  upstream: each carries the marks of all vertices it depends on (`Upstream`), and
  those of the sink carry the marks of all.  That all vertices of a finalised
  graph are upstream of its sink is `SinkSeesAll`: vertices that were not would
  each have a successor among them, and so contain a cycle, which finalising
  refuses.  The assumption added is that `Nodes` is finite.

`PipelineBackwardProofs`
* `StagesReverseTheirForwards`: `Spec => []GradientsFitGraphs`.  Per stage and
  replica, `LaneInv` says that there is at most one command on its way
  (`OneCommand`), that it is the one the driver waits for (`Linked`), and that the
  graphs cached are those of the micro-batches forwarded and not reversed, oldest
  first (`Graphs`), which is why taking the oldest is right.  `Known` and
  `Position` tie this to the driver: it knows only outputs and gradients that
  stages made, and the numbers it counts by are those of the schedule.
* `ScheduleComputesTheStep`: `Spec => ImplementsContract`.  The contract forgets
  the schedule, so `CInv` has to say why the schedule never asks too early: the
  weights are those the driver's place in the step asks for (`Weights`, `Place`),
  a command that is still to be executed is `Due`, that is, it was not executed
  before and the stage next to it has done its part, and of what the driver heard
  everything was done (`Heard`, `AskedFor`).  Executing a command is then a
  `Forward`, a `Backward` or an `Update`, the start of the next step is
  `NextBatch`, and the rest stutters.  A backward that fails with its graph stutters
  too: the graph is still one that was forwarded and not reversed
  (`OpLosesGraphContract`).

`ForwardPipelineProofs`
* `Invariance`: `Spec => []IInv`.  While a graph is deployed, every vertex
  registered waits at the first mailboxes of its ports (`Deploying`).  Afterwards
  (`Serving`) the name of a mailbox tells what may be in it (`Mail`): in that of a
  port, the emission of one input past the vertices upstream (`InputFits`), in that
  of a vertex, its answer to one (`OutputFits`); each vertex waits for, or works on,
  one input at all its ports (`Loops`).  The outputs served and queued are a `Row`:
  those of the inputs in their order.  That the driver is never ahead of a window is
  a count: `completions` is the number of inputs that are through a vertex (`Done`),
  and while some are not, a window goes on (`Progress`, `Stage`).  For a pass,
  `FrontierFits` says that what is pending is what the vertices not yet through
  wait for, and `FrontierAdvances` that taking a ready vertex keeps it so.
* `ServesAsPromised`: `Spec => ImplementsContract`.  `Collect` is the contract's
  `Generate` and `Drain` its `Serve`: at both, the inputs drawn and the outputs
  served are whole windows (`WindowsDivide`), and the first output queued is that of
  the next input (`DrainServes`).  It has passed every vertex because the compiler
  takes graphs without cycles and with one sink only, and so all vertices are
  upstream of it (`SinkSeesAll`).
* `CompilesWhatIsSound`: `Spec => []FinalizedIsSound`.  The invariant `Compiling`
  says that the topology is `Built`: it has recorded a duplicate exactly when two
  descriptors so far, or one twice, claim a port, and otherwise it says of vertices,
  ports, edges and contracts what the descriptors say.  When nothing is claimed
  twice, each check of `resolve_neutral_topology` is the same thing said of
  descriptors (`FitMirrors`, `FedMirrors`, `SinksMirror`, `PlacesMirror`).  Only the
  last is more than a translation: the round in which Kahn's queue gets to a vertex
  is its place, and given places, the vertices up to place *n* are all reached by
  round *n*.  The theorem speaks of every list of descriptors, also of those that
  `GraphsAssumption` lets claim a port twice or feed a port that nobody has.

`MassOperationsProofs`
* `StepsEndWhereTheyBegan`: `Spec => []StepsReturn`.  The invariant `Offset` says
  how far the shared weights of corgi-zo are from home at any moment of a step,
  not only at its end: one up, less two for each downward perturbation, and back
  by what optimize undoes.
* `RegistriesAgreeOnIdsAtRest`: `Spec => []ListedAndRouted`.  `Registries` ties,
  for each id whose starts and shutdowns did not overlap, the phase of the one
  call that is at it to what is listed and routed (`Phases`).  Calls that serve a
  model are shown to be `Quiet` first; a start or shutdown of one id leaves the
  phases of the others alone (`OneIdAtATime`).
* `AcceptedStreamsAreArtifacts`: `Spec => []CommittedStreamsValid`.  `Streams` says
  that a stream under way has a valid ticket and that the cells so far which are the
  header's are those of the ticket's header (`Follows`), so at the commit the whole
  starts with a header that was checked (`AnnouncedIsValid`).  What is left is that
  the two checks mean the same although one sorts the tensors by their start, the
  other by start and end: in a contiguous list an empty tensor that starts where
  another does comes before it (`TiesEndInOrder`), so both sorts give one list
  (`SpansInOrder`).  Without the contiguity they do not.  `InputsAssumption` is what
  decoding a header gives: unsigned offsets, and a name once.
* `PublishedIsReadable`: `Spec => []PublishedDecodes`.  `Outputs` says that what is
  about to be published was checked by encode (`Ready`), and that what is published
  reads back (`Readable`); the work is in `PublishArtifact`, between the two.  A list
  sorted by any strict total order has each member once (`SortedIsListed`), so the
  header lists the tensors and its offsets are where their data was put
  (`OffsetsOf`, by `BodyParts`, whatever lengths come before); read by offsets it is
  contiguous, although empty tensors may change places (`SameSpans`), and each port
  finds the tensor of its name with the data it had (`EncodedDecodes`).  The prefix
  sent ahead passes the stream check just when no empty tensor ties with a later name
  (`EncodedIsAnnounced`).  For dark tokens, a position of a flattened batch is
  (*b* - 1) *n* + *s* (`FlatIs`, twice), which decode computes again (`DenseDecodes`).
  `AnswersAssumption` is what types say of an answer: lists of tensors, shapes of
  unsigned sizes, dark tokens with lists of pairs.
* `BothEndsAgree`: `CallsSpec => []CallsMeanTheSame`.  First the tables of the four
  clients and two servers, without a state: each method names the handler it means and
  knows what that handler answers (`ClientsAgree`); the number a client writes is
  decoded as the variant it meant (`RequestDecoded`), and so is what comes back
  (`AnswerDecoded`).  Then `CallsInv` follows one call: a frame under way is the
  request or the answer its caller waits for (`OnItsWay`), and a file moves by the
  methods a Void client has (`TaskKept`).
* `FilesArrive`: `CallsSpec => []FilesComeBackWhole`, on top of `CallsInv`.
  `FilesInv` says of each call what the task behind it already moved (`Sane`): the
  session a file is put into has the parts up to the one under way, and they are
  the cells up to the ones in it (`Has`, `NextPart`); what was got by ranges is the
  beginning of the object, unless that was replaced meanwhile (`Ranging`).  This
  would not be kept if two callers, or a caller and a request left behind by one
  that went away, wrote to one session, so sessions are told apart by the ids drawn
  (`Mine`, `SessionOf`).  `Steady` is what a handler does to everybody else: an
  object that was there stays unless it is `replaced`, and a session only goes.
  That a file cut in parts of any length is the file again is `FlattenAppend` and
  `OnePartMore`, by the least number of parts for which it would not be.  Assumed
  are sizes that are numbers and stored files that are something
  (`SizesAssumption`, `FilesAssumption`).

`BeamProofs`, of `PianoApp`
* `NoNoteSticks`: `PianoSpec => []NothingStuck`, for any score, number of strings, keys
  and fingers.  A release on its way says nothing of a string that is not struck yet,
  so the invariant follows the strings through the channel (`Keeps`): a string is
  struck once (`OneStrike`), since its number is never used again; after a strike in
  the queue the string is held, or its release comes behind it (`StrikesEnd`); and a
  string that sounds undamped is held or its release is queued (`Sounding`).  This is
  kept by attacking and by releasing any inputs (`AttackKeeps`, `ReleaseKeeps`),
  hence by any number of due events with the stale notes of older loops among them
  (`PerformedKeeps`, by the least number for which it would not be), and by the
  audio thread, whatever string it steals.  That what is held by hand is down is
  the rest (`InHand`): it needs that the mouse remembers a note whenever its input
  is active, or its release would be forgotten.

`BeamProofs`, of `BeamView`
* `PathsAreHome`: `ViewSpec => []PathsLeadHome`, and `ColoursCatchUp`:
  `ViewSpec => []LatestIsShown`, for any nesting of Suns, any polls and any clicks.
  `ViewInv` says of a fetch, under way or done, that each path it has found an
  appearance at leads from the watched Sun through warp cells to the Sun that
  appearance is of (`Nests`).  A graph merged from such a fetch is then well formed,
  keeps the cells and ids of its own Sun, and each path in it leads to the cell it is
  kept for, no two to one (`Home`).  That is shown for one join, where the new ids
  and ports are above all old ones and in the order of the old (`SortedIds`,
  `Rank`); for joining any number of nested Suns one after the other; and for any
  depth, by the longest path at which it would fail.  Since the watched Sun's own
  cells keep their ids when nested Suns come and go, the colours kept by id are those
  of the same cell throughout, and what a poll adds to the colours to come ends in
  what the poll saw, also when the oldest are dropped (`VisualsOk`).  What is assumed
  of Suns (`SunsAssumption`): they have finitely many cells and ports, which are
  numbers, edges are between their cells, and a warp leads to a Sun or to nothing.

Only model-checked:
* liveness (`LeasesEnd`, `EveryStepEnds`, `EveryRunEnds`, `WindowsEnd`,
  `WaitersAreWoken`, `ReadersEnd`, `WorkersComeBack`, `RequestsEnd`), which is out
  of the prover's reach;
* `EditsKeepScoresPlayable`, which is about what folds over sequences of any length
  compute (inductions over data);
* `ScoreFollowsClock`, which counts: the notes that sound at a time are as many by the
  player's own events as by the text of the score, so a proof has to count the members
  of sets that sorting, skipping and merging made.

## Disagreements found

One is a run that expects a violation (`PROJECT.json`, "findings"):

* **A waiting download misses the upload it waits for** (`lost_wakeup`).
  `handle_download_wait` looks a second time and only afterwards makes the
  `Notified` future (`_black_hole_void/src/lib.rs:1697`), so an upload that stores
  its row and calls `notify_waiters` in between wakes nobody.  The reader sleeps
  for its whole timeout and answers `TimedOut`, against line 64: "Wait up to
  `timeout_ms` for an object to exist, then download it."  Postgres hides this.

The others are not runs of their own.  Where the first column names a definition or
a constant, the passing property leaves the case out by it, and TLC finds the case
when it is let in; the rest were seen while modelling.

| where | the code | says otherwise |
| --- | --- | --- |
| `_black_hole_void/src/lib.rs:286` (`LeasesEnd`; `Forgotten`) | `active_transfers` is empty after a restart and the sweep looks only there; it also forgets a transfer whose record fails to load once (1338).  Such a transfer never ends unless a request touches it | `_black_hole_type/src/lib.rs:682`: "An uncommitted transfer is aborted after this lease expires." |
| `_black_hole_void/src/lib.rs:911` (`VerdictStands`; `Uploaders = {}` in `transfer_core`) | `handle_upload` reads the row without `transfer_mutation` and overwrites it later, that of a transfer committed meanwhile too | `_black_hole_type/src/lib.rs:698`: "Durable manifest that makes all chunks authoritative and replayable." |
| `_black_hole_void/src/lib.rs:805`, `850` | the stream counts what it sent by position, so a chunk persisted out of order is skipped and another sent twice | `_black_hole_void/src/lib.rs:117`: "Already-persisted and newly arriving chunks are sent in order until commit or abort." |
| `_black_hole_flux/src/ops.rs:113` (`NobodyGivesUpEarly`; `early`) | a flow that polls a transfer before it was begun fails | `black-hole-sun/src/void_client.rs:205`: "The returned artifact can be sent through a Flow immediately" |
| `_black_hole_mass/src/lib.rs:4632` (`RegistriesAgree`; `stranded`) | `handle_shutdown` vacates the slot, then returns the error of the unload; listing and route stay, and the id can be neither used, shut down nor started | `_black_hole_mass/src/lib.rs:2099`: "The sole authoritative registry for locally hosted instances." |
| `_black_hole_mass/src/lib.rs:4239` (`NoLostInstance`; `doubled`) | two overlapping shutdowns both find the instance (4259), both stop it and both answer Ack; when a start comes between the two answers, the second removes the route (4252) of the new instance, which runs on, unrouted and with no call failed | the routes, by which every request finds its instance |
| `_black_hole_mass/src/lib.rs:1573` (`WorkersComeBack`, `RequestsEnd`; `transport = "quic"`) | over TCP `mark_closed` sends on a watch channel without a receiver, so the flag is never stored; a call made after it waits for ever, and a worker whose refresh is that call does not come back | `_black_hole_probe/tests/mass.rs:790`: "worker should re-register with restarted root" |
| `_black_hole_flux/src/nodes/cell/mod.rs:59`, `87` (`EveryStepEnds`; `Refused`) | a perturbation or optimize whose answer is lost is repeated, Mass refuses the repetition, and it is repeated for ever | "Runs one perturb-up step with automatic retry backoff." |
| `_black_hole_flux/src/programs/two_sided_zo/mod.rs:351` | with several gradient steps a vertex is shown in the second pass while its first is under way | `action.rs:1891`: "sending propagation 2 must not hide in-flight propagation 1" |
| `_black_hole_mass/src/lib.rs:4855` (`CyclesTrain`; `warmup_steps + 1`) | the first cycle of an oscillating instance has one step more of its first kind than configured | the schedule's own counts |
| `_black_hole_beam/src/piano/score_text.rs:226`, `650` (`EditsKeepScoresPlayable`; `AnchorAtLineEnd`) | a comment at the end of a note line that reads like a measure anchor is kept as text, written as a line of its own, and read as an anchor the next time, stale if the measure is elsewhere (721) | `score_text.rs:726`: "re-emit to refresh", of a file just emitted |
| `_black_hole_beam/src/piano/score_text.rs:480` | `shift_ticks` subtracts the shift from an explicit loop that may be shorter | 473: "Notes survive only when the content (and therefore the loop) extends past the shift point, so this cannot underflow." |

## Observations

Behaviours met while modelling that a maintainer may want to know of.  Unless a
property is named, they are read from the code and not checked.

Void
* Abort marks a transfer aborted although a chunk could not be deleted (1284;
  `NoOrphans` is about servers on which nothing failed).  An upload answers
  Uploaded although its row was not inserted.  `total_size` counts a part twice
  that was sent twice; a finish that fails leaves the backend's parts, and a
  session nobody finishes stays for ever.  A directory store may publish an
  assembled object and then report an error, when the directory of parts cannot
  be removed.
* A reader whose second look finds the object leaves its entry in the registry.
* The deadline races with commit: a record read just before the commit may be
  judged by a clock read just after the deadline.  An ephemeral stream with an
  invalid ticket still falls back to the record (692).  A flow polls a transfer
  for ever after Void lost it in a restart.
* An answer of exactly 64 MB passes Void's limit and exceeds Mass's.  S3 refuses a
  range that starts at the end of an object, so a file that is a multiple of the
  16 MB part, or empty, cannot be fetched by ranges from S3, although the protocol
  says that such a read returns nothing.  A file replaced between two ranged reads
  comes back torn (`FilesComeBackWhole` allows for it).

Mass
* TCP connections are still served after a shutdown; an error does not mean that
  a request did not run.
* The lost answer of a shutdown leaves its route; the entry of a dead worker is
  never removed (2497, 3602).  Two shutdowns of one id that overlap can unlist or
  unroute an instance started between them (4239; `overlapped` of
  `MassOperations`, `doubled` of `MassWorkers`), after which the id may be routed and
  not listed for ever.
* Two fusions of one model with one checkpoint share a temporary file, which the
  first to end deletes (5242).
* The perturbation of a step survives a shutdown and a restart of its instance; a
  perturb_down that is repeated moves the weights again (`StepsReturn` counts
  them); a checkpoint of corgi-zo taken within a step saves perturbed weights.  A
  forward changes the operation's state although its output is then refused or
  cannot be published.
* An empty tensor of a larger dtype that shares its start offset with an
  alphabetically earlier name is accepted from the whole frame and refused by the
  header of its stream (`HeaderTies` in `PublishedDecodes`).
* Qwen's decoders index `token_ids` by the shape of the predictions, and nothing
  ties the two.

Flux
* A crash leaves cells with checkpoints of different steps
  (`nodes/cell/effect.rs:311`), and nothing brings them together.
* In forward serving a vertex is shown Succeeded for input k while k+1 is in its
  mailbox, and a vertex with two predecessors counts a start for each.
* The Sun library's `receive_artifact` of a transfer makes one attempt.

Beam
* The comment above the first note moves to the head of the file when it is
  written again; a trailing comment that looks like a header is dropped, one that
  looks like an anchor is read as one at the second time (`AnchorAtLineEnd`).
* `merge_with` can make a score unplayable by rounding, as can a mutation (it
  warns).  `measure_ticks` is in ticks of the file, which is wrong on the fallback
  grid, and 0 makes formatting panic; a loop of 0 makes rescaling divide by zero;
  no spelling of G sharp with `#` is accepted, though line 21 says so.  Of MIDI
  files the time signature's denominator is used as stored, though stored as a
  logarithm, and a tempo of 0 panics.
* The ids of nested cells depend on which other warps are expanded, and panels are
  keyed by them: after a collapse a panel may show another cell, and closing it
  may collapse the Sun it belongs to.

## What is not modelled

* Object and metadata stores beyond puts, gets and deletes that may fail, applied
  or not: S3's limits and consistency, file system errors, migration.
* TLS, stateless retry, argument parsing, logging, `_black_hole_probe`.
* Mass: engines (gradients, sampling, quantisation), the download of model files,
  the adapters of Qwen's inputs and outputs, workers of workers.  Seeds and losses
  are opaque.
* Flux: the journal and the replay of Jungle, a dependency (a journey whose action
  fails is over); the journey inside a warp; checkpoints of cells; what observers
  are shown of a forward pass.
* Tensor contracts: the declaring macros and the conversion of elements.
* The Sun library's prompts and tokenizer, which keep no state; example programs
  and data sets, except the two operations named above.
* Beam: layout, painting, sound synthesis (envelopes, velocities, WAV files), the
  metronome and the log of the piano, the builder.
* Authorisation beyond its being checked, and the secrecy of tokens.

## Plan

What is left, in the order in which it would add most:

1. A proof of `ScoreFollowsClock` of `PianoApp`.
2. The sessions of workers of workers, for which `MassWorkers` would take a tree of
   hosts; and cell checkpoints with a crash of a vertex.
3. The stores as modules of their own, a directory's rename and an S3 multipart
   session, which `VoidObjects` would be shown to rely on.
