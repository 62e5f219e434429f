--------------------------- MODULE ForwardPipeline ---------------------------
(***************************************************************************)
(* Serving with a Sun (_black_hole_flux/src/forward, programs/forward_only *)
(* on the vertices of nodes/cell): the driver compiles its graph, then     *)
(* again and again takes inputs from its source, drives them through the   *)
(* graph and hands the outputs of the sink to its consumer.  Three drivers *)
(* share the code:                                                         *)
(*                                                                         *)
(*   "window"  ServeFlowWithBackpressure: up to MAX_IN_FLIGHT inputs at a  *)
(*             time; the outputs are drained when all are through.         *)
(*   "policy"  ServeFlowWithPolicyAndBackpressure: the same, but the       *)
(*             policy gets an output as soon as the sink has made it.      *)
(*   "pass"    ServeRequest over ForwardPassWithState: one input at a time *)
(*             over a frontier of ready vertices.                          *)
(*                                                                         *)
(* The driver and the cells only meet in Void's mailboxes.  UUIDs are      *)
(* fresh, hence a mailbox is named by what it is allocated for.  An        *)
(* emission is modelled by its provenance: inputs and vertices passed.     *)
(* What observers are shown is left out.                                   *)
(***************************************************************************)
EXTENDS SunTopology

CONSTANTS
  Graphs,       \* the graphs to serve with, as sequences of descriptors
  Programs,     \* the drivers
  MaxInFlight,  \* MAX_IN_FLIGHT
  MaxWindows,   \* bound: windows served
  MaxFaults     \* bound: calls that fail

ASSUME ProgramsAssumption == Programs \subseteq {"window", "policy", "pass"}
\* A descriptor has a port, which names its vertex.
ASSUME GraphsAssumption ==
  \A g \in Graphs :
    /\ g \in Seq(Range(g))
    /\ \A i \in DOMAIN g : /\ g[i].ports \in Seq(Range(g[i].ports)) /\ g[i].ports # <<>>
                          /\ g[i].edges \in Seq(Range(g[i].edges))
ASSUME BoundsAssumption == {MaxInFlight, MaxWindows, MaxFaults} \subseteq Nat

VARIABLES
  program, graph,   \* what is compiled
  phase,            \* where the driver is
  deployed,         \* descriptors spawned
  topology,
  inputs,           \* runtime.inputs: the mailbox a port reads first
  window,           \* windows or requests begun
  generated,        \* inputs taken from the source, in all
  collected,        \* pipeline_inputs
  completed,        \* node_completed
  sent,             \* root_sent
  completions,      \* pipeline_completions
  frontier,         \* pending and ready, of a pass
  outputs,          \* completed_outputs, or the delivery a pass carries
  served,           \* outputs consumed
  todo, taken,      \* uploads the effect under way has yet to make, and for which vertex
  box,              \* Void: what is in each mailbox written so far
  cell,             \* the vertices' CellState and where their loop is
  faults

graphVars  == <<program, graph, deployed, topology>>
windowVars == <<window, collected, completed, sent, completions, frontier>>
vars == <<graphVars, windowVars, phase, inputs, generated, outputs, served, todo, taken, box, cell, faults>>

Mailbox(kind, owner, w, i) == [kind |-> kind, owner |-> owner, window |-> w, input |-> i]
NoMailbox == Mailbox("nil", 0, 0, 0)

None     == [inputs |-> {}, through |-> {}]
Input(k) == [inputs |-> {k}, through |-> {}]

Init ==
  /\ program \in Programs /\ graph \in Graphs
  /\ phase = "deploy" /\ deployed = 0 /\ topology = NoTopology
  /\ inputs = <<>> /\ window = 0 /\ generated = 0 /\ collected = <<>>
  /\ completed = <<>> /\ sent = <<>> /\ completions = 0
  /\ frontier = [pending |-> <<>>, ready |-> {}]
  /\ outputs = <<>> /\ served = <<>> /\ todo = {} /\ taken = 0
  /\ box = <<>> /\ cell = <<>> /\ faults = 0

Ok    == UNCHANGED faults
Fault == faults < MaxFaults /\ faults' = faults + 1

\* Void keeps what was put first; a mailbox is a fresh id.
Uploaded(mailbox, delivery) == box' = OrElse(box, [m \in {mailbox} |-> delivery])

\* A failed upload may have taken effect.
UploadFails(mailbox, delivery) == Fault /\ (Uploaded(mailbox, delivery) \/ UNCHANGED box)

----------------------------------------------------------------------------
(* Compiling                                                               *)

\* SpawnUnary, SpawnBinary, SpawnWarpBoundary: the animal is spawned on fresh
\* mailboxes, then its vertex is registered.  An animal whose vertex id is taken
\* waits in vain and is left out.
Spawn ==
  /\ phase = "deploy" /\ deployed < Len(graph)
  /\ LET d == graph[deployed + 1]
         first == [p \in Range(d.ports) |-> Mailbox("in", p, 1, 1)]
     IN  /\ topology' = Register(topology, d)
         /\ inputs' = OrElse(first, inputs)
         /\ cell' = OrElse(cell, [v \in {d.ports[1]} |->
              [at |-> "starting", recv |-> first, send |-> NoMailbox, emission |-> None]])
  /\ deployed' = deployed + 1
  /\ Ok /\ UNCHANGED <<program, graph, windowVars, phase, generated, outputs, served, todo, taken, box>>

\* FinalizeForwardGraph.
Finalize ==
  /\ phase = "deploy" /\ deployed = Len(graph)
  /\ phase' = IF Resolves(topology) THEN "begin" ELSE "rejected"
  /\ Ok /\ UNCHANGED <<graphVars, windowVars, inputs, generated, outputs, served, todo, taken, box, cell>>

\* A spawn, the source or the policy fails.
CallFails ==
  /\ phase \in {"deploy", "collect", "drain"} /\ Fault
  /\ phase' = "stopped"
  /\ UNCHANGED <<graphVars, windowVars, inputs, generated, outputs, served, todo, taken, box, cell>>

----------------------------------------------------------------------------
(* A window of inputs                                                      *)

\* A limit of zero is treated as one; a pass serves a single request.
Limit == IF program = "pass" \/ MaxInFlight = 0 THEN 1 ELSE MaxInFlight

\* BeginForwardPipeline.
Begin ==
  /\ phase = "begin" /\ window < MaxWindows
  /\ window' = window + 1
  /\ collected' = <<>> /\ outputs' = <<>>
  /\ phase' = "collect"
  /\ Ok /\ UNCHANGED <<graphVars, completed, sent, completions, frontier, inputs, generated, served,
                       todo, taken, box, cell>>

\* The source, and StoreForwardPipelineInput.
Collect ==
  /\ phase = "collect" /\ Len(collected) < Limit
  /\ generated' = generated + 1
  /\ collected' = Append(collected, Input(generated + 1))
  /\ Ok /\ UNCHANGED <<graphVars, phase, window, completed, sent, completions, frontier, inputs,
                       outputs, served, todo, taken, box, cell>>

\* The mailboxes of the i-th input: those the ports are at, then fresh ones, and
\* after the last those of the next window (next_inputs).
InputId(p, i)  == IF i = 1 THEN inputs[p] ELSE Mailbox("in", p, window, i)
AfterId(p, i)  == IF i < Len(collected) THEN InputId(p, i + 1) ELSE Mailbox("in", p, window + 1, 1)
OutputId(v, i) == Mailbox("out", v, window, i)

\* PrepareForwardPipeline, PrepareForwardPass.
Prepare ==
  /\ phase = "collect" /\ Len(collected) = Limit
  /\ completed' = [v \in Vertices(topology) |-> 0] /\ completions' = 0
  /\ sent' = [v \in Roots(topology) |-> 0]
  /\ frontier' = Frontier(topology)
  /\ phase' = IF PortIds(topology) \subseteq DOMAIN inputs THEN "seed" ELSE "failed"
  /\ Ok /\ UNCHANGED <<graphVars, window, collected, inputs, generated, outputs, served, todo, taken,
                       box, cell>>

\* pipeline_task_for_node: the input a vertex is at.
HasTask(v) == completed[v] < Len(collected)
Task(v)    == completed[v] + 1

\* send_artifact_delivery to port p, for its vertex's i-th input.
Send(p, i, emission) ==
  [to |-> InputId(p, i),
   delivery |-> [emission |-> emission, recv |-> AfterId(p, i),
                 send |-> OutputId(topology.port_vertices[p], i)]]

Unseeded == {v \in Roots(topology) : HasTask(v) /\ sent[v] < Task(v)}

\* SendReadyForwardRoots, SendForwardRoots: each root's next input, if not sent.
SeedRoots ==
  /\ phase = "seed"
  /\ todo' = UNION {{Send(p, Task(v), collected[Task(v)]) : p \in PortsOf(topology, v)} : v \in Unseeded}
  /\ phase' = "seeding"
  /\ Ok /\ UNCHANGED <<graphVars, windowVars, inputs, generated, outputs, served, taken, box, cell>>

RootsSeeded ==
  /\ phase = "seeding" /\ todo = {}
  /\ sent' = [v \in Roots(topology) |-> IF v \in Unseeded THEN sent[v] + 1 ELSE sent[v]]
  /\ phase' = "wait"
  /\ Ok /\ UNCHANGED <<graphVars, window, collected, completed, completions, frontier, inputs, generated,
                       outputs, served, todo, taken, box, cell>>

\* The uploads of an effect go one by one; the first that fails ends the journey.
SendsOne ==
  \E s \in todo :
    /\ phase \in {"seeding", "forwarding"} /\ todo' = todo \ {s}
    /\ \/ Uploaded(s.to, s.delivery) /\ Ok /\ UNCHANGED phase
       \/ UploadFails(s.to, s.delivery) /\ phase' = "stopped"
    /\ UNCHANGED <<graphVars, windowVars, inputs, generated, outputs, served, taken, cell>>

\* Mutant of Ready: predecessors must be an input ahead.
ReadyLate(v) ==
  IF program = "pass" THEN v \in frontier.ready
  ELSE /\ HasTask(v)
       /\ IF v \in Roots(topology) THEN sent[v] >= Task(v)
          ELSE \A e \in Incoming(topology, v) : completed[e[1]] > Task(v)

\* pipeline_ready_nodes, or the frontier.
Ready(v) ==
  IF program = "pass" THEN v \in frontier.ready
  ELSE /\ HasTask(v)
       /\ IF v \in Roots(topology) THEN sent[v] >= Task(v)
          ELSE \A e \in Incoming(topology, v) : completed[e[1]] >= Task(v)

\* ProcessReadyForwardPipelineNode, ProcessForwardNode: select_all over the outputs
\* of the ready vertices, an error if there are none, then one upload per port fed.
TakeOutput ==
  /\ phase = "wait"
  /\ LET ready == {v \in Vertices(topology) : Ready(v)} IN
     IF ready = {} THEN phase' = "failed" /\ UNCHANGED <<todo, taken>>
     ELSE \E v \in ready :
            /\ OutputId(v, Task(v)) \in DOMAIN box
            /\ taken' = v
            /\ todo' = {Send(PortOf(topology, e), Task(v), box[OutputId(v, Task(v))].emission) :
                          e \in Outgoing(topology, v)}
            /\ phase' = "forwarding"
  /\ Ok /\ UNCHANGED <<graphVars, windowVars, inputs, generated, outputs, served, box, cell>>

\* Where a driver goes on: the drain, the scheduler's loop, or the next window.
Pending(c, f) == IF program = "pass" THEN DOMAIN f.pending # {}
                 ELSE c < Cardinality(Vertices(topology)) * Len(collected)
Continue(pending, out) ==
  IF out # <<>> /\ (program = "policy" \/ ~pending) THEN "drain"
  ELSE IF ~pending THEN "begin"
  ELSE IF program = "pass" THEN "wait" ELSE "seed"

\* Mutant of NewOutputs: the latest output is served first.
NewOutputsFirst(v, emission) == IF v = Sink(topology) THEN <<emission>> \o outputs ELSE outputs

\* The sink's output is queued; a pass carries on whatever it took last.
NewOutputs(v, emission) ==
  IF program = "pass" THEN <<emission>>
  ELSE IF v = Sink(topology) THEN Append(outputs, emission) ELSE outputs

\* With the last completion the ports move on to next_inputs (for a pass,
\* CompleteForwardPass).
NextInputs(pending) ==
  IF pending THEN inputs ELSE [p \in PortIds(topology) |-> Mailbox("in", p, window + 1, 1)]

\* The absorb of ProcessReadyForwardPipelineNode and of ProcessForwardNode.
OutputForwarded ==
  /\ phase = "forwarding" /\ todo = {}
  /\ LET v == taken
         emission == box[OutputId(v, Task(v))].emission
         advanced == AdvanceFrontier(frontier, topology, v)
     IN  IF program = "pass" /\ ~CanAdvance(frontier, topology, v)
         THEN phase' = "failed" /\ UNCHANGED <<windowVars, inputs, outputs>>
         ELSE /\ completed' = IF program = "pass" THEN completed ELSE [completed EXCEPT ![v] = @ + 1]
              /\ completions' = completions + 1
              /\ frontier' = IF program = "pass" THEN advanced ELSE frontier
              /\ outputs' = NewOutputs(v, emission)
              /\ inputs' = NextInputs(Pending(completions', frontier'))
              /\ phase' = Continue(Pending(completions', frontier'), outputs')
              /\ UNCHANGED <<window, collected, sent>>
  /\ Ok /\ UNCHANGED <<graphVars, generated, served, todo, taken, box, cell>>

\* TakeForwardPipelineOutput, then the policy or DiscardForwardOutput.
Drain ==
  /\ phase = "drain"
  /\ served' = Append(served, Head(outputs)) /\ outputs' = Tail(outputs)
  /\ phase' = Continue(Pending(completions, frontier), outputs')
  /\ Ok /\ UNCHANGED <<graphVars, windowVars, inputs, generated, todo, taken, box, cell>>

Driver == \/ Spawn \/ Finalize \/ Begin \/ Collect \/ Prepare \/ SeedRoots \/ RootsSeeded
          \/ SendsOne \/ TakeOutput \/ OutputForwarded \/ Drain

----------------------------------------------------------------------------
(* The vertices: ForwardOperationCell                                      *)

driverVars == <<graphVars, windowVars, phase, inputs, generated, outputs, served, todo, taken>>

\* StartOperation; its failure, like any other call's, ends the journey.
Start(v) ==
  /\ cell[v].at = "starting"
  /\ cell' = [cell EXCEPT ![v].at = "waiting"]
  /\ Ok /\ UNCHANGED <<driverVars, box>>

\* WaitForArtifact, on each port; the wait repeats for ever, so it cannot fail.
\* The envelopes say where to wait next and where to answer.
Receive(v) ==
  LET ports == DOMAIN cell[v].recv
      envelope == [p \in ports |-> box[cell[v].recv[p]]]
  IN  /\ cell[v].at = "waiting" /\ \A p \in ports : cell[v].recv[p] \in DOMAIN box
      /\ \E p \in ports :
           cell' = [cell EXCEPT ![v] =
             [at |-> "working", recv |-> [q \in ports |-> envelope[q].recv], send |-> envelope[p].send,
              emission |-> [inputs  |-> UNION {envelope[q].emission.inputs : q \in ports},
                            through |-> {v} \cup UNION {envelope[q].emission.through : q \in ports}]]]
      /\ Ok /\ UNCHANGED <<driverVars, box>>

\* The operation, then TransmitArtifact.
Respond(v) ==
  /\ cell[v].at = "working"
  /\ LET delivery == [emission |-> cell[v].emission, recv |-> NoMailbox, send |-> NoMailbox] IN
     \/ Uploaded(cell[v].send, delivery) /\ Ok /\ cell' = [cell EXCEPT ![v].at = "waiting"]
     \/ UploadFails(cell[v].send, delivery) /\ cell' = [cell EXCEPT ![v].at = "dead"]
  /\ UNCHANGED driverVars

CellDies(v) ==
  /\ cell[v].at \in {"starting", "working"} /\ Fault
  /\ cell' = [cell EXCEPT ![v].at = "dead"]
  /\ UNCHANGED <<driverVars, box>>

Cell(v) == Start(v) \/ Receive(v) \/ Respond(v)

Next == Driver \/ CallFails \/ \E v \in DOMAIN cell : Cell(v) \/ CellDies(v)

AllPorts == UNION {UNION {Range(g[i].ports) : i \in DOMAIN g} : g \in Graphs}

\* The workers poll every journey for ever.
Fairness == /\ WF_vars(Driver)
            /\ \A v \in AllPorts : WF_vars(v \in DOMAIN cell /\ Cell(v))

Spec == Init /\ [][Next]_vars /\ Fairness

----------------------------------------------------------------------------
(* Properties                                                              *)

\* The compiler accepts a graph exactly when the schedulers can run it, also
\* one in which ports are claimed twice (resolve_neutral_topology).
FinalizedIsSound ==
  phase \notin {"deploy", "stopped"} => (phase = "rejected" <=> ~Sound(graph))

\* Outputs are served in the order of the inputs, each computed from its input
\* alone by every vertex, with as many in flight as the program allows.
Contract == INSTANCE ServeContract WITH
  limit  <- Limit,
  served <- [i \in DOMAIN served |->
               IF served[i].through = Vertices(topology) THEN served[i].inputs ELSE {}]
ImplementsContract == Contract!Spec

\* A window that is begun ends, unless a call failed; the scheduler makes no
\* error of its own.
WindowsEnd ==
  phase = "collect" ~> \/ phase = "begin" \/ phase = "stopped"
                       \/ \E v \in DOMAIN cell : cell[v].at = "dead"
=============================================================================
