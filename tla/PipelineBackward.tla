-------------------------- MODULE PipelineBackward --------------------------
(***************************************************************************)
(* The pipeline-parallel training program                                  *)
(* (_black_hole_flux/src/programs/pipeline_backward): a driver sends       *)
(* forward, backward and step commands to a chain of stages, one command   *)
(* per stage and replica at a time, and polls for their replies.  With two *)
(* replicas a stage is one journey that joins the commands of both lanes.  *)
(*                                                                         *)
(* The driver is one effect.  Its scans over stages and replicas are the   *)
(* steps of `at` and `lane`, and stages act between any two of them.  A    *)
(* stage computes with an operation hosted by Mass, which caches a graph   *)
(* per forward and uses the oldest one in each backward.  An artifact is   *)
(* modelled by what it is, which stage made it and whose batch it holds.   *)
(***************************************************************************)
EXTENDS Naturals, Sequences

CONSTANTS
  P,           \* stages of the chain
  M,           \* micro-batches of a replica
  R,           \* data-parallel replicas
  MaxSteps,    \* bound: training steps
  MaxFaults    \* bound: uploads, downloads and calls that fail

ASSUME SizesAssumption == {P, M, R} \subseteq Nat \ {0}
ASSUME BoundsAssumption == {MaxSteps, MaxFaults} \subseteq Nat

Stages       == 0..(P - 1)
MicroBatches == 0..(M - 1)
Replicas     == 0..(R - 1)
Batch        == Replicas \X MicroBatches
Slots        == Replicas \X MicroBatches \X Stages

Artifact == [kind : {"input", "output", "gradient"}, stage : Stages, of : Batch]

VARIABLES
  phase,      \* where the driver is
  at, lane,   \* its scan over the stages and their replicas
  sending,    \* the kind of work it is sending to the lanes of a stage
  step,       \* PipelineBackwardState::step
  forward,    \* per slot, the output of the stage, once the driver knows it
  backward,   \* per slot, the input gradient of the stage
  next_fwd, next_bwd,
  busy,       \* per stage and replica, the kind of work not yet answered
  inbox,      \* per stage and replica, the commands not yet read
  reply,      \* per stage and replica, the answer not yet read
  doing,      \* per stage and replica, the command being executed
  answer,     \* per stage and replica, the answer to upload
  fate,       \* per stage, whether its journey is over
  pending,    \* per stage and replica, the graphs its operation caches
  gradients,  \* per stage, the gradients accumulated
  version,    \* per stage, the updates of its weights
  lost,       \* per stage, the graphs a failed backward of this step took (ghost)
  shown,      \* node_operational_states, node_state_sequences
  faults

scanVars   == <<phase, at, lane, sending>>
workVars   == <<forward, backward, next_fwd, next_bwd, busy>>
modelVars  == <<pending, gradients, version, lost>>
stageVars  == <<doing, answer, fate, modelVars>>
vars == <<scanVars, step, workVars, shown, inbox, reply, stageVars, faults>>

----------------------------------------------------------------------------
(* Commands and replies                                                    *)

Command == [kind : {"forward", "backward"}, micro_batch : MicroBatches, artifact : Artifact]
           \cup [kind : {"step"}, step : Nat]
Reply   == [kind : {"Artifact"}, micro_batch : MicroBatches, artifact : Artifact]
           \cup [kind : {"Stepped", "Failed"}]

Nothing == [kind |-> "none"]
Stepped == [kind |-> "Stepped"]
Failed  == [kind |-> "Failed"]

Input(r, b)      == [kind |-> "input", stage |-> 0, of |-> <<r, b>>]
Output(s, of)    == [kind |-> "output", stage |-> s, of |-> of]
Gradient(s, of)  == [kind |-> "gradient", stage |-> s, of |-> of]

NoneKnown   == [x \in Slots |-> Nothing]
EachLane(x) == [s \in Stages |-> [r \in Replicas |-> x]]

Init ==
  /\ phase = "collect" /\ at = 0 /\ lane = 0 /\ sending = "none" /\ step = 0
  /\ forward = NoneKnown /\ backward = NoneKnown
  /\ next_fwd = EachLane(0) /\ next_bwd = EachLane(0)
  /\ busy = EachLane("none") /\ inbox = EachLane(<<>>) /\ reply = EachLane(Nothing)
  /\ doing = EachLane(Nothing) /\ answer = EachLane(Nothing)
  /\ fate = [s \in Stages |-> "starting"]
  /\ pending = EachLane(<<>>) /\ gradients = [s \in Stages |-> {}]
  /\ lost = [s \in Stages |-> {}] /\ version = [s \in Stages |-> 0]
  /\ shown = [s \in Stages |-> [state |-> "Queued", sequence |-> 0]]
  /\ faults = 0

Fault == faults < MaxFaults /\ faults' = faults + 1
Ok    == UNCHANGED faults

----------------------------------------------------------------------------
(* The driver                                                              *)

\* The scan goes on after lane r of stage s, or ends in phase `then`.
NextLane(s, r, then) ==
  IF r + 1 < R THEN at' = s /\ lane' = r + 1 /\ UNCHANGED phase
  ELSE /\ lane' = 0
       /\ IF s + 1 < P THEN at' = s + 1 /\ UNCHANGED phase ELSE at' = 0 /\ phase' = then

Abandon == phase' = "failed" /\ UNCHANGED <<at, lane>>

\* BeginStep and the source: M micro-batches for each replica.
BeginStep ==
  /\ phase = "collect" /\ step < MaxSteps
  /\ phase' = "dispatch"
  /\ forward' = NoneKnown /\ backward' = NoneKnown
  /\ next_fwd' = EachLane(0) /\ next_bwd' = EachLane(0) /\ busy' = EachLane("none")
  /\ Ok /\ UNCHANGED <<at, lane, sending, step, shown, inbox, reply, stageVars>>

WarmUp(s) == IF P - s < M THEN P - s ELSE M

AnyBusy(s) == \E r \in Replicas : busy[s][r] # "none"

BackwardReady(s) ==
  LET b == next_bwd[s][0]
  IN  /\ b < M
      /\ \A r \in Replicas :
           /\ next_bwd[s][r] = b /\ next_fwd[s][r] >= WarmUp(s)
           /\ forward[<<r, b, s>>] # Nothing
           /\ s + 1 = P \/ backward[<<r, b, s + 1>>] # Nothing

\* Mutants: forward work for the warm-up only; off by one at the last micro-batch.
ForwardReadyWarmUp(s) ==
  LET f == next_fwd[s][0]
  IN  /\ f < WarmUp(s)
      /\ \A r \in Replicas : next_fwd[s][r] = f /\ (s = 0 \/ forward[<<r, f, s - 1>>] # Nothing)

ForwardReady(s) ==
  LET f == next_fwd[s][0]
  IN  /\ f < M
      /\ \A r \in Replicas : next_fwd[s][r] = f /\ (s = 0 \/ forward[<<r, f, s - 1>>] # Nothing)

\* The work decided for a stage is sent to all of its lanes.
Decided(s) ==
  IF s = at /\ sending # "none" THEN sending
  ELSE IF AnyBusy(s) THEN "none"
  ELSE IF BackwardReady(s) THEN "backward"
  ELSE IF ForwardReady(s) THEN "forward" ELSE "none"

\* The scan passes over stages without work; s is the next with some.
NextToSend(s) == /\ phase = "dispatch" /\ s >= at
                 /\ Decided(s) # "none" /\ \A t \in at..(s - 1) : Decided(t) = "none"

DispatchEnds ==
  /\ phase = "dispatch" /\ \A s \in at..(P - 1) : Decided(s) = "none"
  /\ phase' = "poll" /\ at' = 0 /\ lane' = 0
  /\ Ok /\ UNCHANGED <<sending, step, workVars, shown, inbox, reply, stageVars>>

WorkCommand(s, r, kind) ==
  LET b == IF kind = "forward" THEN next_fwd[s][r] ELSE next_bwd[s][r]
  IN  [kind |-> kind, micro_batch |-> b,
       artifact |-> CASE kind = "forward" /\ s = 0      -> Input(r, b)
                      [] kind = "forward" /\ s > 0      -> forward[<<r, b, s - 1>>]
                      [] kind = "backward" /\ s + 1 = P -> forward[<<r, b, s>>]
                      [] OTHER                          -> backward[<<r, b, s + 1>>]]

\* send_command: the command is in the mailbox, or the upload failed.
Sent(s, r, command)   == inbox' = [inbox EXCEPT ![s][r] = Append(@, command)]
Unsent(s, r, command) == Fault /\ (Sent(s, r, command) \/ UNCHANGED inbox)

RecordStarted(s) ==
  shown' = [shown EXCEPT ![s] =
              [state |-> "Running",
               sequence |-> IF @.state = "Running" THEN @.sequence ELSE @.sequence + 1]]

SendWork(s) ==
  LET kind == Decided(s)
  IN  /\ NextToSend(s)
      /\ Sent(s, lane, WorkCommand(s, lane, kind)) /\ Ok
      /\ RecordStarted(s)
      /\ busy' = [busy EXCEPT ![s][lane] = kind]
      /\ next_fwd' = IF kind = "forward" THEN [next_fwd EXCEPT ![s][lane] = @ + 1] ELSE next_fwd
      /\ next_bwd' = IF kind = "backward" THEN [next_bwd EXCEPT ![s][lane] = @ + 1] ELSE next_bwd
      /\ sending' = IF lane + 1 < R THEN kind ELSE "none"
      /\ NextLane(s, lane, "poll")
      /\ UNCHANGED <<step, forward, backward, reply, stageVars>>

SendWorkFails(s) ==
  /\ NextToSend(s)
  /\ Unsent(s, lane, WorkCommand(s, lane, Decided(s))) /\ Abandon
  /\ UNCHANGED <<sending, step, workVars, shown, reply, stageVars>>

\* Polling passes over idle lanes; lane r of stage s is the next that is busy.
From(s, r) == s > at \/ (s = at /\ r >= lane)
NextToPoll(s, r) ==
  /\ phase = "poll" /\ From(s, r) /\ busy[s][r] # "none"
  /\ \A t \in Stages, q \in Replicas :
       From(t, q) /\ busy[t][q] # "none" => t > s \/ (t = s /\ q >= r)

\* wait_response: not there yet.
PollNothing(s, r) ==
  /\ NextToPoll(s, r) /\ reply[s][r] = Nothing
  /\ NextLane(s, r, "loop")
  /\ Ok /\ UNCHANGED <<sending, step, workVars, shown, inbox, reply, stageVars>>

\* The micro-batch an outstanding command was for.
Outstanding(s, r) == (IF busy[s][r] = "forward" THEN next_fwd[s][r] ELSE next_bwd[s][r]) - 1

RightAnswer(s, r) ==
  reply[s][r].kind = "Artifact" /\ reply[s][r].micro_batch = Outstanding(s, r)

RecordCompleted(s, r) ==
  IF /\ busy[s][r] = "backward"
     /\ \A q \in Replicas : next_bwd[s][q] >= M /\ (q # r => busy[s][q] = "none")
  THEN shown' = [shown EXCEPT ![s].state = "Succeeded"]
  ELSE UNCHANGED shown

PollAnswer(s, r) ==
  LET slot     == <<r, Outstanding(s, r), s>>
      artifact == reply[s][r].artifact
  IN  /\ NextToPoll(s, r) /\ RightAnswer(s, r)
      /\ forward' = IF busy[s][r] = "forward" THEN [forward EXCEPT ![slot] = artifact] ELSE forward
      /\ backward' = IF busy[s][r] = "backward" THEN [backward EXCEPT ![slot] = artifact] ELSE backward
      /\ busy' = [busy EXCEPT ![s][r] = "none"]
      /\ reply' = [reply EXCEPT ![s][r] = Nothing]
      /\ RecordCompleted(s, r)
      /\ NextLane(s, r, "loop")
      /\ Ok /\ UNCHANGED <<sending, step, next_fwd, next_bwd, inbox, stageVars>>

\* A failed answer, a wrong one, or a download that failed ends the program.
PollFails(s, r) ==
  /\ NextToPoll(s, r)
  /\ \/ reply[s][r] # Nothing /\ ~RightAnswer(s, r) /\ Ok
     \/ Fault
  /\ Abandon
  /\ UNCHANGED <<sending, step, workVars, shown, inbox, reply, stageVars>>

\* The end of the scan, and the condition of the driver's loop.
Unfinished == \E s \in Stages, r \in Replicas : next_bwd[s][r] < M \/ busy[s][r] # "none"

Loop ==
  /\ \/ phase = "loop"
     \/ phase = "poll" /\ ~\E s \in Stages, r \in Replicas : NextToPoll(s, r)
  /\ phase' = IF Unfinished THEN "dispatch" ELSE "step"
  /\ at' = 0 /\ lane' = 0
  /\ Ok /\ UNCHANGED <<sending, step, workVars, shown, inbox, reply, stageVars>>

\* The step phase: the commands are sent in order, then answered in order.
StepCommand == [kind |-> "step", step |-> step + 1]

SendStep ==
  /\ phase = "step"
  /\ \/ Sent(at, lane, StepCommand) /\ Ok /\ NextLane(at, lane, "await")
     \/ Unsent(at, lane, StepCommand) /\ Abandon
  /\ UNCHANGED <<sending, step, workVars, shown, reply, stageVars>>

\* Mutant: the first acknowledgement is taken for all.
AwaitStepOnce ==
  /\ phase = "await" /\ reply[at][lane] = Stepped /\ Ok
  /\ phase' = "absorb" /\ reply' = [reply EXCEPT ![at][lane] = Nothing]
  /\ UNCHANGED <<at, lane, sending, step, workVars, shown, inbox, stageVars>>

AwaitStep ==
  /\ phase = "await"
  /\ \/ reply[at][lane] = Stepped /\ Ok /\ NextLane(at, lane, "absorb")
     \/ reply[at][lane] \notin {Nothing, Stepped} /\ Ok /\ Abandon
     \/ Fault /\ Abandon
  /\ reply' = [reply EXCEPT ![at][lane] = Nothing]
  /\ UNCHANGED <<sending, step, workVars, shown, inbox, stageVars>>

Absorb ==
  /\ phase = "absorb" /\ phase' = "collect" /\ step' = step + 1
  /\ Ok /\ UNCHANGED <<at, lane, sending, workVars, shown, inbox, reply, stageVars>>

Driver == \/ BeginStep \/ DispatchEnds \/ Loop \/ SendStep \/ AwaitStep \/ Absorb
          \/ \E s \in Stages : SendWork(s) \/ SendWorkFails(s)
          \/ \E s \in Stages, r \in Replicas :
               PollNothing(s, r) \/ PollAnswer(s, r) \/ PollFails(s, r)

----------------------------------------------------------------------------
(* The stages                                                              *)

\* Mailboxes and model ids, then start_operation, on every lane.
StartStage(s) ==
  /\ fate[s] = "starting"
  /\ \/ fate' = [fate EXCEPT ![s] = "running"] /\ Ok
     \/ fate' = [fate EXCEPT ![s] = "over"] /\ Fault
  /\ UNCHANGED <<scanVars, step, workVars, shown, inbox, reply, doing, answer, modelVars>>

\* matching_pipeline_commands.
Matching(commands) ==
  \A q, r \in Replicas :
    /\ commands[q].kind = commands[r].kind
    /\ commands[q].kind = "step" => commands[q].step = commands[r].step
    /\ commands[q].kind # "step" => commands[q].micro_batch = commands[r].micro_batch

\* WaitForPipelineCommand(s): a command in the mailbox of every lane.  The wait
\* retries for ever, so it cannot fail.
ReadCommands(s) ==
  LET commands == [r \in Replicas |-> Head(inbox[s][r])]
  IN  /\ fate[s] = "running" /\ \A r \in Replicas : doing[s][r] = Nothing /\ inbox[s][r] # <<>>
      /\ inbox' = [inbox EXCEPT ![s] = [r \in Replicas |-> Tail(@[r])]]
      /\ IF Matching(commands) THEN doing' = [doing EXCEPT ![s] = commands] /\ UNCHANGED fate
                               ELSE fate' = [fate EXCEPT ![s] = "mismatched"] /\ UNCHANGED doing
      /\ Ok /\ UNCHANGED <<scanVars, step, workVars, shown, reply, answer, modelVars>>

ToExecute(s, r, kind) ==
  /\ fate[s] = "running" /\ doing[s][r] # Nothing /\ doing[s][r].kind = kind
  /\ answer[s][r] = Nothing

Answers(s, r, a)  == answer' = [answer EXCEPT ![s][r] = a]
MadeBy(s, r, art) == [kind |-> "Artifact", micro_batch |-> doing[s][r].micro_batch, artifact |-> art]

\* The operation caches the graph of a forward; a result that is lost is a failure.
OpForward(s, r) ==
  LET a == doing[s][r].artifact
  IN  /\ ToExecute(s, r, "forward")
      /\ pending' = [pending EXCEPT ![s][r] = Append(@, a.of)]
      /\ \/ Answers(s, r, MadeBy(s, r, Output(s, a.of))) /\ Ok
         \/ Answers(s, r, Failed) /\ Fault
      /\ UNCHANGED <<scanVars, step, workVars, shown, inbox, reply, doing, fate, gradients, version, lost>>

\* The graph a backward uses: the oldest of its replica.
NewestGraph(graphs) == graphs[Len(graphs)] \* mutant
UsedGraph(graphs) == Head(graphs)

OpBackward(s, r) ==
  LET a == doing[s][r].artifact
      graph == UsedGraph(pending[s][r])
  IN  /\ ToExecute(s, r, "backward")
      /\ pending[s][r] # <<>>
      /\ pending' = [pending EXCEPT ![s][r] = Tail(@)]
      /\ gradients' = [gradients EXCEPT ![s] = @ \cup {[graph |-> graph, from |-> a]}]
      /\ \/ Answers(s, r, MadeBy(s, r, Gradient(s, a.of))) /\ Ok
         \/ Answers(s, r, Failed) /\ Fault
      /\ UNCHANGED <<scanVars, step, workVars, shown, inbox, reply, doing, fate, version, lost>>

\* The graph is taken before the gradients are computed, which may fail.
OpLosesGraph(s, r) ==
  /\ ToExecute(s, r, "backward") /\ pending[s][r] # <<>>
  /\ pending' = [pending EXCEPT ![s][r] = Tail(@)]
  /\ lost' = [lost EXCEPT ![s] = @ \cup {UsedGraph(pending[s][r])}]
  /\ Answers(s, r, Failed) /\ Fault
  /\ UNCHANGED <<scanVars, step, workVars, shown, inbox, reply, doing, fate, gradients, version>>

\* One optimizer step for all lanes, on the model of the first.  A checkpoint
\* that cannot be saved fails a step that is done.
OpStep(s) ==
  /\ \A r \in Replicas : ToExecute(s, r, "step")
  /\ \A r \in Replicas : pending[s][r] = <<>>
  /\ version' = [version EXCEPT ![s] = @ + 1]
  /\ gradients' = [gradients EXCEPT ![s] = {}]
  /\ lost' = [lost EXCEPT ![s] = {}]
  /\ \/ answer' = [answer EXCEPT ![s] = [r \in Replicas |-> Stepped]] /\ Ok
     \/ answer' = [answer EXCEPT ![s] = [r \in Replicas |-> Failed]] /\ Fault
  /\ UNCHANGED <<scanVars, step, workVars, shown, inbox, reply, doing, fate, pending>>

\* The operation refuses, or the command fails before it reaches the operation.
OpRefuses(s, r) ==
  /\ \/ ToExecute(s, r, "forward") /\ Fault
     \/ ToExecute(s, r, "backward") /\ (IF pending[s][r] = <<>> THEN Ok ELSE Fault)
  /\ Answers(s, r, Failed)
  /\ UNCHANGED <<scanVars, step, workVars, shown, inbox, reply, doing, fate, modelVars>>

StepRefused(s) ==
  /\ \A r \in Replicas : ToExecute(s, r, "step")
  /\ IF \E r \in Replicas : pending[s][r] # <<>> THEN Ok ELSE Fault
  /\ answer' = [answer EXCEPT ![s] = [r \in Replicas |-> Failed]]
  /\ UNCHANGED <<scanVars, step, workVars, shown, inbox, reply, doing, fate, modelVars>>

\* The answer is uploaded.  An upload that fails ends the journey, the work of
\* the other lane included.
UploadReply(s, r) ==
  /\ fate[s] = "running" /\ answer[s][r] # Nothing
  /\ \/ /\ reply' = [reply EXCEPT ![s][r] = answer[s][r]]
        /\ answer' = [answer EXCEPT ![s][r] = Nothing]
        /\ doing' = [doing EXCEPT ![s][r] = Nothing]
        /\ Ok /\ UNCHANGED fate
     \/ /\ \/ reply' = [reply EXCEPT ![s][r] = answer[s][r]]
           \/ UNCHANGED reply
        /\ fate' = [fate EXCEPT ![s] = "over"]
        /\ Fault /\ UNCHANGED <<answer, doing>>
  /\ UNCHANGED <<scanVars, step, workVars, shown, inbox, modelVars>>

Stage(s) == \/ StartStage(s) \/ ReadCommands(s) \/ OpStep(s) \/ StepRefused(s)
            \/ \E r \in Replicas : OpForward(s, r) \/ OpBackward(s, r) \/ OpLosesGraph(s, r)
                                   \/ OpRefuses(s, r) \/ UploadReply(s, r)

Next == Driver \/ \E s \in Stages : Stage(s)

\* The driver polls in a loop, and the workers poll every journey for ever.
Fairness == WF_vars(Driver) /\ \A s \in Stages : WF_vars(Stage(s))

Spec == Init /\ [][Next]_vars /\ Fairness

----------------------------------------------------------------------------
(* Properties                                                              *)

\* A gradient is accumulated from the graph of the micro-batch it belongs to:
\* the order of a stage's backwards is that of its forwards, on every lane.
GradientsFitGraphs ==
  \A s \in Stages : \A g \in gradients[s] :
    g.from = IF s + 1 = P THEN Output(s, g.graph) ELSE Gradient(s + 1, g.graph)

\* A step of weights follows a whole batch of gradients, and the chain computes
\* what PipelineContract says, whatever fails.
Reversed(s)  == IF version[s] > step THEN Batch ELSE {g.graph : g \in gradients[s]}
Cached(s)    == UNION {{pending[s][r][i] : i \in DOMAIN pending[s][r]} : r \in Replicas}
Forwarded(s) == IF version[s] > step THEN Batch ELSE Reversed(s) \cup Cached(s) \cup lost[s]

Contract == INSTANCE PipelineContract
              WITH forwarded <- [s \in Stages |-> Forwarded(s)],
                   reversed  <- [s \in Stages |-> Reversed(s)]
ImplementsContract == Contract!Spec

\* The schedule never hangs: a step ends or the program fails, unless a stage's
\* journey is over and leaves a command without a reply.
EveryRunEnds ==
  phase = "dispatch" ~> \/ phase \in {"collect", "failed"}
                    \/ \E s \in Stages : fate[s] = "over"
=============================================================================
