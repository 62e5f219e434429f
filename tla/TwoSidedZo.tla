----------------------------- MODULE TwoSidedZo -----------------------------
(***************************************************************************)
(* The two-sided zeroth-order program of a Sun                             *)
(* (_black_hole_flux/src/programs/two_sided_zo): on a finalized graph it   *)
(* generates one pair of root inputs per gradient step, drives them        *)
(* through the vertices of CellLoop, hands the pairs of outputs to the     *)
(* policy and broadcasts its losses.                                       *)
(*                                                                         *)
(* There is no barrier between microsteps or passes: each vertex runs its  *)
(* own tasks in order (GradSteps times pass 1, then GradSteps times pass   *)
(* 2) and each task waits only for the same task of its predecessors.      *)
(*                                                                         *)
(* An action of the program is an emit, an effect that performs uploads    *)
(* one by one, and an absorb; nothing else changes its state, so `todo`    *)
(* holds the uploads of the effect under way.  UUIDs are fresh, hence a    *)
(* mailbox is named by what it is allocated for.                           *)
(***************************************************************************)
EXTENDS CellLoop, Sequences

CONSTANTS
  Targets,     \* outgoing: the ports each vertex feeds
  MaxEpochs    \* bound: training steps

ASSUME TargetsAssumption == Targets \in [Nodes -> SUBSET Ports]
ASSUME MaxEpochsAssumption == MaxEpochs \in Nat

Predecessors(n) == {m \in Nodes : \E p \in Targets[m] : Owner[p] = n}
Roots == {n \in Nodes : Predecessors(n) = {}}
Sinks == {n \in Nodes : Targets[n] = {}}
Sink  == CHOOSE n \in Sinks : TRUE

\* What FinalizeGraph lets through (operation contracts left out): each port has at
\* most one producer, a vertex is a root or fully connected, there is one sink and
\* no cycle.
Finalized ==
  /\ \A p \in Ports : Cardinality({m \in Nodes : p \in Targets[m]}) <= 1
  /\ \A n \in Nodes : n \in Roots \/ \A p \in PortsOf(n) : \E m \in Nodes : p \in Targets[m]
  /\ Cardinality(Sinks) = 1
  /\ \A S \in (SUBSET Nodes) \ {{}} : \E n \in S : Predecessors(n) \cap S = {}

ASSUME FinalizedAssumption == Finalized

VARIABLES
  phase,        \* where the program is
  todo,         \* uploads the effect under way has yet to make
  taken,        \* the vertex whose output is being forwarded
  epoch,        \* training steps completed
  completed,    \* node_p1_completed, node_p2_completed
  seeded,       \* root_p1_sent, root_p2_sent
  completions,  \* pipeline_completions
  outputs,      \* propagation_up_outputs
  pairs,        \* propagation_pairs
  shown         \* node_states, p1_completed, p2_sent, node_state_sequences

sunVars == <<phase, todo, taken, epoch, completed, seeded, completions, outputs, pairs, shown>>
vars == <<cellVars, sunVars>>

Zero == [n \in Nodes |-> 0]

SunInit ==
  /\ phase = "begin" /\ todo = {} /\ taken = CHOOSE n \in Nodes : TRUE
  /\ epoch = 0
  /\ completed = [pass \in Passes |-> Zero] /\ seeded = [pass \in Passes |-> Zero]
  /\ completions = 0 /\ outputs = <<>> /\ pairs = <<>>
  /\ shown = [n \in Nodes |-> [state |-> "Idle", p1_completed |-> FALSE, p2_sent |-> FALSE, sequence |-> 0]]

Init == CellInit /\ SunInit

----------------------------------------------------------------------------
(* Tasks and their mailboxes                                               *)

HasTask(n) == \E pass \in Passes : completed[pass][n] < GradSteps

\* task_for_node.
Task(n) ==
  LET pass == IF completed[1][n] < GradSteps THEN 1 ELSE 2
  IN  [pass |-> pass, step |-> completed[pass][n] + 1]

\* Mutant of Ready: predecessors must be a step ahead.
ReadyLate(n) ==
  LET t == Task(n) IN
  /\ HasTask(n)
  /\ IF n \in Roots THEN seeded[t.pass][n] >= t.step
     ELSE \A m \in Predecessors(n) : completed[t.pass][m] > t.step

\* ready_nodes, task_deps_satisfied.
Ready(n) ==
  LET t == Task(n) IN
  /\ HasTask(n)
  /\ IF n \in Roots THEN seeded[t.pass][n] >= t.step
     ELSE \A m \in Predecessors(n) : completed[t.pass][m] >= t.step

InputId(t, p) == Mailbox(<<"p1", "p2">>[t.pass], p, epoch, t.step)
OutputId(t, n) == Mailbox(<<"out1", "out2">>[t.pass], n, epoch, t.step)

\* The mailbox a port reads after this task: the pass's next step, the second
\* pass, the losses.
NextInputId(t, p) ==
  IF t.step < GradSteps THEN Mailbox(<<"p1", "p2">>[t.pass], p, epoch, t.step + 1)
  ELSE IF t.pass = 1 THEN Mailbox("p2", p, epoch, 1)
  ELSE Mailbox("po", p, epoch, 1)

\* step_target and send_propagation: one port's envelope.
Send(t, p, emission) ==
  [to |-> InputId(t, p), envelope |-> Propagation(emission, NextInputId(t, p), OutputId(t, Owner[p]))]

----------------------------------------------------------------------------
(* What observers see of a vertex                                          *)

Position(state) == CASE state \in {"Idle", "Optimization"} -> 0
                     [] state = "Propagation1" -> 1
                     [] state = "Propagation2" -> 2

\* record_state_sent: the sequence advances by the phases crossed, in their
\* cyclic order.
RecordStateSent(view, state) ==
  LET ahead == (Position(state) + 3 - Position(view.state)) % 3
  IN  IF view.state = state THEN view
      ELSE [view EXCEPT !.state = state, !.sequence = @ + (IF ahead = 0 THEN 3 ELSE ahead)]

\* record_propagation_sent: a first-pass send is not shown any more once the
\* second pass is, the second pass not before a first-pass output.
RecordPropagationSent(view, pass) ==
  LET sent == [view EXCEPT !.p2_sent = @ \/ pass = 2] IN
  IF IF pass = 1 THEN view.state # "Propagation2" ELSE view.p1_completed
  THEN RecordStateSent(sent, <<"Propagation1", "Propagation2">>[pass])
  ELSE sent

\* record_propagation_completed.
RecordPropagationCompleted(view, pass) ==
  IF pass = 2 THEN view
  ELSE LET done == [view EXCEPT !.p1_completed = TRUE]
       IN  IF view.p2_sent THEN RecordStateSent(done, "Propagation2") ELSE done

\* record_optimization_sent.
RecordOptimizationSent(view) ==
  [RecordStateSent(view, "Optimization") EXCEPT !.p1_completed = FALSE, !.p2_sent = FALSE]

----------------------------------------------------------------------------
(* The effects' uploads                                                    *)

\* One upload of the effect under way.
SendsOne ==
  \E s \in todo :
    /\ Upload(s.to, s.envelope)
    /\ todo' = todo \ {s}
    /\ UNCHANGED <<phase, taken, epoch, completed, seeded, completions, outputs, pairs, shown>>
    /\ UNCHANGED <<node, session, lost, faults>>

\* An upload fails: nothing around the effect retries it, and the uploads it
\* already made stay.
SendFails ==
  /\ faults < MaxFaults /\ faults' = faults + 1
  /\ \E s \in todo : Upload(s.to, s.envelope) \/ UNCHANGED box
  /\ todo' = {} /\ phase' = "stopped"
  /\ UNCHANGED <<taken, epoch, completed, seeded, completions, outputs, pairs, shown>>
  /\ UNCHANGED <<node, session, lost>>

----------------------------------------------------------------------------
(* One training step                                                       *)

Fails == /\ phase' = "failed"
         /\ UNCHANGED <<todo, taken, epoch, completed, seeded, completions, outputs, pairs, shown>>

\* BeginGradientAccumulation, the generator, PreparePropagationPipeline: one pair
\* of root inputs per gradient step, fresh mailboxes, all counters at zero.
BeginStep ==
  /\ phase = "begin" /\ epoch < MaxEpochs
  /\ completed' = [pass \in Passes |-> Zero] /\ seeded' = [pass \in Passes |-> Zero]
  /\ completions' = 0 /\ outputs' = <<>> /\ pairs' = <<>>
  /\ phase' = "seed"
  /\ UNCHANGED <<cellVars, todo, taken, epoch, shown>>

RootInput(t) == {<<"generated", t.pass, t.step>>}

Unseeded == {n \in Roots : HasTask(n) /\ seeded[Task(n).pass][n] < Task(n).step}

\* SendReadyRootTasks, emit: each root's next task, if not sent yet.
SeedRoots ==
  /\ phase = "seed"
  /\ todo' = {Send(Task(Owner[p]), p, RootInput(Task(Owner[p]))) : p \in {q \in Ports : Owner[q] \in Unseeded}}
  /\ phase' = "seeding"
  /\ UNCHANGED <<cellVars, taken, epoch, completed, seeded, completions, outputs, pairs, shown>>

\* SendReadyRootTasks, absorb.
RootsSeeded ==
  /\ phase = "seeding" /\ todo = {}
  /\ seeded' = [pass \in Passes |-> [n \in Nodes |->
       IF n \in Unseeded /\ Task(n).pass = pass THEN Task(n).step ELSE seeded[pass][n]]]
  /\ shown' = [n \in Nodes |->
       IF n \in Unseeded THEN RecordPropagationSent(shown[n], Task(n).pass) ELSE shown[n]]
  /\ phase' = "wait"
  /\ UNCHANGED <<cellVars, todo, taken, epoch, completed, completions, outputs, pairs>>

Output(n) == OutputId(Task(n), n)

\* ProcessReadyPipelineNode, emit and the first half of its effect: select_all
\* over the outputs of the ready vertices, an error if there is none, then one
\* envelope per port fed.
TakeOutput ==
  /\ phase = "wait"
  /\ LET ready == {n \in Nodes : Ready(n)} IN
     IF ready = {} THEN Fails
     ELSE \E n \in ready :
            /\ Output(n) \in DOMAIN box
            /\ taken' = n
            /\ todo' = {Send(Task(n), p, box[Output(n)].emission) : p \in Targets[n]}
            /\ phase' = "forwarding"
            /\ UNCHANGED <<epoch, completed, seeded, completions, outputs, pairs, shown>>
  /\ UNCHANGED cellVars

\* Mutant of NewPairs: the last first-pass output instead of the step's.
NewPairsLast(t, emission) ==
  IF t.pass = 2 THEN Append(pairs, <<outputs[Len(outputs)], emission>>) ELSE pairs

NewPairs(t, emission) ==
  IF t.pass = 2 THEN Append(pairs, <<outputs[t.step], emission>>) ELSE pairs

\* ProcessReadyPipelineNode, absorb: PendingPipelineWork decides how it goes on.
OutputForwarded ==
  /\ phase = "forwarding" /\ todo = {}
  /\ LET n == taken  t == Task(n)  emission == box[Output(n)].emission IN
     IF n = Sink /\ t.pass = 2 /\ t.step \notin DOMAIN outputs
     THEN Fails
     ELSE /\ completed' = [completed EXCEPT ![t.pass][n] = @ + 1]
          /\ completions' = completions + 1
          /\ outputs' = IF n = Sink /\ t.pass = 1 THEN Append(outputs, emission) ELSE outputs
          /\ pairs' = IF n = Sink THEN NewPairs(t, emission) ELSE pairs
          /\ shown' = [m \in Nodes |->
               IF m = n THEN RecordPropagationCompleted(shown[m], t.pass)
               ELSE IF \E p \in Targets[n] : Owner[p] = m THEN RecordPropagationSent(shown[m], t.pass)
               ELSE shown[m]]
          /\ phase' = IF completions + 1 < Cardinality(Nodes) * GradSteps * 2 THEN "seed" ELSE "collect"
          /\ UNCHANGED <<todo, taken, epoch, seeded>>
  /\ UNCHANGED cellVars

\* CollectedPropagationPairs, the policy, and BroadcastPotentiation's emit.
CollectPairs ==
  /\ phase = "collect"
  /\ IF Len(pairs) # GradSteps THEN Fails
     ELSE /\ todo' = {[to |-> Mailbox("po", p, epoch, 1),
                       envelope |-> Potentiation(epoch, Mailbox("p1", p, epoch + 1, 1))] : p \in Ports}
          /\ phase' = "broadcast"
          /\ UNCHANGED <<taken, epoch, completed, seeded, completions, outputs, pairs, shown>>
  /\ UNCHANGED cellVars

\* BroadcastPotentiation, absorb.
LossesBroadcast ==
  /\ phase = "broadcast" /\ todo = {}
  /\ epoch' = epoch + 1
  /\ shown' = [n \in Nodes |-> RecordOptimizationSent(shown[n])]
  /\ completed' = [pass \in Passes |-> Zero] /\ seeded' = [pass \in Passes |-> Zero]
  /\ completions' = 0 /\ outputs' = <<>> /\ pairs' = <<>>
  /\ phase' = "begin"
  /\ UNCHANGED <<cellVars, todo, taken>>

SunNext ==
  \/ BeginStep \/ SeedRoots \/ RootsSeeded \/ TakeOutput \/ OutputForwarded
  \/ CollectPairs \/ LossesBroadcast
  \/ SendsOne

Vertex(n) == CellNext(n) /\ UNCHANGED sunVars

Next == SunNext \/ SendFails \/ \E n \in Nodes : Vertex(n)

Spec == Init /\ [][Next]_vars

\* The Jungle workers poll every journey for ever.
FairSpec == Spec /\ WF_vars(SunNext) /\ \A n \in Nodes : WF_vars(Vertex(n))

----------------------------------------------------------------------------
(* Properties                                                              *)

\* The output of one pass of one gradient step, if every model computed its part
\* on its weights moved to the side of the pass and updated `updates` times.
Measured(pass, step, updates) ==
  {<<"generated", pass, step>>} \cup ((Nodes \ ModelFree) \X {<<"up", "down">>[pass]} \X {updates})

\* The losses of a training step compare like with like: the pairs the policy
\* gets are the up and the down output of the same gradient step, each computed
\* from its own root input by every model exactly once, on that side of the
\* weights of this very training step (ProcessReadyPipelineNode, CellLoop).
PairsCompareSides ==
  \A i \in DOMAIN pairs : pairs[i] = <<Measured(1, i, epoch), Measured(2, i, epoch)>>

\* A vertex applies the losses of a step to the weights they were measured on,
\* and to no others, also when a call is repeated (WaitForPotentiation, Optimize).
LossesFitWeights ==
  /\ \A n \in Nodes : node[n].at = "optimize" /\ session[n].state = "AwaitingOptimize"
                       => node[n].losses = session[n].updates
  /\ \A n \in Nodes : session[n].updates <= epoch + 1

\* Mass refuses the call the cell makes: its session is past it already.
Refused(n) ==
  \/ node[n].at = "perturb" /\ session[n].state # IF node[n].pass = 1 THEN "Idle" ELSE "AwaitingPerturbDown"
  \/ node[n].at = "optimize" /\ session[n].state # "AwaitingOptimize"

\* Every training step ends, also when inference replies are lost: no vertex waits
\* for a mailbox nobody writes, the program never for an output nobody computes.
\* The only ways to stop are a journey that ended on a failed upload or call, and
\* a cell whose call Mass refuses for ever: no message is read by the wrong loop
\* step, and no fusion or output pairing meets envelopes that disagree.
EveryStepEnds ==
  <>(epoch = MaxEpochs \/ phase = "stopped" \/ \E n \in Nodes : node[n].at = "stopped" \/ Refused(n))
=============================================================================
