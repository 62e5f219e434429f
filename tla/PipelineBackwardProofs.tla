----------------------- MODULE PipelineBackwardProofs -----------------------
(***************************************************************************)
(* GradientsFitGraphs and ImplementsContract, for any number of stages,    *)
(* micro-batches, replicas, steps and failures.                            *)
(***************************************************************************)
EXTENDS PipelineBackward, TLAPS

Phases == {"collect", "dispatch", "poll", "loop", "step", "await", "absorb", "failed"}
Work   == {"forward", "backward"}

Lanes(x) == x = [s \in Stages |-> [r \in Replicas |-> x[s][r]]]

Shapes ==
  /\ phase \in Phases /\ at \in Stages /\ lane \in Replicas /\ step \in Nat
  /\ sending \in Work \cup {"none"}
  /\ forward = [x \in Slots |-> forward[x]] /\ backward = [x \in Slots |-> backward[x]]
  /\ next_fwd \in [Stages -> [Replicas -> Nat]] /\ next_bwd \in [Stages -> [Replicas -> Nat]]
  /\ busy \in [Stages -> [Replicas -> Work \cup {"none"}]]
  /\ inbox \in [Stages -> [Replicas -> Seq(Command)]]
  /\ Lanes(reply) /\ Lanes(doing) /\ Lanes(answer)
  /\ fate = [s \in Stages |-> fate[s]] /\ gradients = [s \in Stages |-> gradients[s]]
  /\ pending \in [Stages -> [Replicas -> Seq(Batch)]]

\* What the driver knows is what the stages made.
Known ==
  \A s \in Stages, x \in Batch :
    /\ forward[<<x[1], x[2], s>>] # Nothing =>
         forward[<<x[1], x[2], s>>] = Output(s, x) /\ x[2] < next_fwd[s][x[1]]
    /\ backward[<<x[1], x[2], s>>] # Nothing => backward[<<x[1], x[2], s>>] = Gradient(s, x)

\* The work a lane can be sent.
CanSend(s, r, kind) ==
  LET f == next_fwd[s][r]
      b == next_bwd[s][r]
  IN  /\ busy[s][r] = "none"
      /\ kind = "forward" => f < M /\ (s > 0 => forward[<<r, f, s - 1>>] # Nothing)
      /\ kind = "backward" => /\ b < f
                              /\ IF s + 1 = P THEN forward[<<r, b, s>>] # Nothing
                                              ELSE backward[<<r, b, s + 1>>] # Nothing

\* Where the driver is.
Between == {"collect", "step", "await", "absorb"}
Position ==
  /\ phase \in {"collect", "absorb"} => lane = 0
  /\ phase # "dispatch" => sending = "none"
  /\ phase = "dispatch" => (lane = 0 <=> sending = "none")
  /\ phase = "dispatch" /\ sending # "none" =>
       \A r \in Replicas : r >= lane => CanSend(at, r, sending)
  /\ phase \in Between => \A s \in Stages, r \in Replicas :
       /\ busy[s][r] = "none" /\ next_fwd[s][r] = next_bwd[s][r]
       /\ phase # "collect" => next_bwd[s][r] = M

Live(s) == fate[s] \in {"starting", "running"}

\* What a lane has not answered.
Before(s, r) == s < at \/ (s = at /\ r < lane)
Expected(s, r) ==
  IF busy[s][r] # "none" THEN busy[s][r]
  ELSE IF (phase = "step" /\ Before(s, r)) \/ (phase = "await" /\ ~Before(s, r)) THEN "step"
  ELSE "none"

\* A command a stage can execute: the oldest graph is that of its backward.
Fit(c, s, r) ==
  /\ c.kind \in Work => c.artifact.of = <<r, c.micro_batch>>
  /\ c.kind = "backward" =>
       /\ c.artifact = IF s + 1 = P THEN Output(s, <<r, c.micro_batch>>)
                                    ELSE Gradient(s + 1, <<r, c.micro_batch>>)
       /\ pending[s][r] # <<>> /\ Head(pending[s][r]) = <<r, c.micro_batch>>

\* An answer to a command.
Artifacts(kind, s, r) ==
  {[kind |-> "Artifact", micro_batch |-> b,
    artifact |-> IF kind = "forward" THEN Output(s, <<r, b>>) ELSE Gradient(s, <<r, b>>)] :
   b \in MicroBatches}
Answering(a, kind, s, r) ==
  a = Failed \/ (kind = "step" /\ a = Stepped) \/ (kind \in Work /\ a \in Artifacts(kind, s, r))

\* A stage has one command of a lane at a time.
OneCommand(s, r) ==
  /\ Len(inbox[s][r]) <= 1
  /\ inbox[s][r] # <<>> => doing[s][r] = Nothing /\ Fit(inbox[s][r][1], s, r)
  /\ doing[s][r] = Nothing => answer[s][r] = Nothing
  /\ doing[s][r] # Nothing =>
       /\ doing[s][r] \in Command
       /\ IF answer[s][r] = Nothing THEN Fit(doing[s][r], s, r)
          ELSE Answering(answer[s][r], doing[s][r].kind, s, r)

\* It is the one the driver waits for.
Asked(c, s, r) ==
  c.kind = Expected(s, r) /\ (c.kind \in Work => c.micro_batch = Outstanding(s, r))
Linked(s, r) ==
  /\ reply[s][r] # Nothing => /\ Expected(s, r) # "none"
                              /\ Answering(reply[s][r], Expected(s, r), s, r)
  /\ Live(s) => IF Expected(s, r) = "none" \/ reply[s][r] # Nothing
                THEN inbox[s][r] = <<>> /\ doing[s][r] = Nothing
                ELSE \/ inbox[s][r] # <<>> /\ Asked(inbox[s][r][1], s, r)
                     \/ doing[s][r] # Nothing /\ Asked(doing[s][r], s, r)

\* The graphs are those of the micro-batches forwarded and not reversed.
Unused(s, r, kind) ==
  IF busy[s][r] = kind /\ (inbox[s][r] # <<>> \/ (doing[s][r] # Nothing /\ answer[s][r] = Nothing))
  THEN 1 ELSE 0
Holds(graphs, r, from, to) ==
  /\ Len(graphs) = to - from
  /\ \A i \in 1 .. Len(graphs) : graphs[i] = <<r, from + i - 1>>
Graphs(s, r) ==
  Live(s) /\ reply[s][r] # Failed /\ answer[s][r] # Failed =>
    Holds(pending[s][r], r, next_bwd[s][r] - Unused(s, r, "backward"),
                            next_fwd[s][r] - Unused(s, r, "forward"))

Counts(s, r) ==
  /\ next_bwd[s][r] <= next_fwd[s][r] /\ next_fwd[s][r] <= M
  /\ busy[s][r] = "forward" => next_fwd[s][r] >= 1
  /\ busy[s][r] = "backward" => next_bwd[s][r] >= 1

LaneInv(s, r) ==
  /\ Live(s) => OneCommand(s, r)
  /\ phase # "failed" => Linked(s, r) /\ Graphs(s, r) /\ Counts(s, r)

IInv ==
  /\ Shapes /\ (phase # "failed" => Known /\ Position)
  /\ \A s \in Stages, r \in Replicas : LaneInv(s, r)
  /\ GradientsFitGraphs

USE SizesAssumption
USE DEF Stages, Replicas, MicroBatches, Phases, Work

-----------------------------------------------------------------------------
(* Markers, commands, positions                                            *)

LEMMA Markers ==
  /\ Nothing.kind = "none" /\ Stepped.kind = "Stepped" /\ Failed.kind = "Failed"
  /\ Nothing # Stepped /\ Nothing # Failed /\ Stepped # Failed
<1>1. Nothing.kind = "none" /\ Stepped.kind = "Stepped" /\ Failed.kind = "Failed"
  BY DEF Nothing, Stepped, Failed
<1> QED BY <1>1

LEMMA CommandKinds ==
  ASSUME NEW c \in Command
  PROVE  /\ c.kind \in {"forward", "backward", "step"} /\ c # Nothing
         /\ c.kind \in Work => c.micro_batch \in MicroBatches
<1>1. c.kind \in {"forward", "backward", "step"} BY DEF Command
<1>2. c.kind \in Work => c.micro_batch \in MicroBatches BY DEF Command
<1> QED BY <1>1, <1>2, Markers

LEMMA ArtifactsMade ==
  ASSUME NEW s \in Stages, NEW r \in Replicas, NEW b \in MicroBatches
  PROVE  /\ <<r, b>> \in Batch /\ <<r, b, s>> \in Slots
         /\ Input(r, b) \in Artifact /\ Input(r, b).of = <<r, b>>
         /\ Output(s, <<r, b>>) \in Artifact /\ Output(s, <<r, b>>).of = <<r, b>>
         /\ Gradient(s, <<r, b>>) \in Artifact /\ Gradient(s, <<r, b>>).of = <<r, b>>
         /\ Output(s, <<r, b>>) # Nothing /\ Gradient(s, <<r, b>>) # Nothing
<1>1. <<r, b>> \in Batch /\ <<r, b, s>> \in Slots BY DEF Batch, Slots
<1>2. /\ Input(r, b) \in Artifact /\ Output(s, <<r, b>>) \in Artifact
      /\ Gradient(s, <<r, b>>) \in Artifact
  BY <1>1 DEF Artifact, Input, Output, Gradient
<1>3. /\ Input(r, b).of = <<r, b>> /\ Output(s, <<r, b>>).of = <<r, b>>
      /\ Gradient(s, <<r, b>>).of = <<r, b>>
      /\ Output(s, <<r, b>>).kind = "output" /\ Gradient(s, <<r, b>>).kind = "gradient"
  BY DEF Input, Output, Gradient
<1> QED BY <1>1, <1>2, <1>3, Markers

LEMMA ScanGoesOn ==
  ASSUME NEW s \in Stages, NEW r \in Replicas, NEW then, NextLane(s, r, then)
  PROVE  /\ at' \in Stages /\ lane' \in Replicas /\ phase' \in {phase, then}
         /\ r + 1 < R => at' = s /\ lane' = r + 1 /\ phase' = phase
         /\ r + 1 >= R => lane' = 0 /\ ((at' = s + 1 /\ phase' = phase) \/ (s + 1 = P /\ at' = 0 /\ phase' = then))
BY DEF NextLane

LEMMA ZeroIsIn == 0 \in Stages /\ 0 \in Replicas
OBVIOUS

-----------------------------------------------------------------------------
(* The initial state, and lanes a step is not about                        *)

LEMMA InitKeeps == Init => IInv
<1> SUFFICES ASSUME Init PROVE IInv OBVIOUS
<1> USE DEF Init, EachLane, NoneKnown
<1>1. Shapes BY Markers DEF Shapes, Lanes
<1>2. Known
  <2> SUFFICES ASSUME NEW s \in Stages, NEW x \in Batch
               PROVE forward[<<x[1], x[2], s>>] = Nothing /\ backward[<<x[1], x[2], s>>] = Nothing
    BY DEF Known
  <2>1. <<x[1], x[2], s>> \in Slots BY DEF Batch, Slots
  <2> QED BY <2>1
<1>3. Position BY DEF Position, Between
<1>4. ASSUME NEW s \in Stages, NEW r \in Replicas PROVE LaneInv(s, r)
  <2>1. OneCommand(s, r) BY DEF OneCommand
  <2>2. Expected(s, r) = "none" BY DEF Expected
  <2>3. Linked(s, r) BY <2>2 DEF Linked
  <2>4. Graphs(s, r) BY DEF Graphs, Unused, Holds
  <2>5. Counts(s, r) BY DEF Counts
  <2> QED BY <2>1, <2>3, <2>4, <2>5 DEF LaneInv
<1>5. GradientsFitGraphs BY DEF GradientsFitGraphs
<1> QED BY <1>1, <1>2, <1>3, <1>4, <1>5 DEF IInv

LEMMA ScanPosition == ASSUME IInv, phase # "failed" PROVE Position
BY DEF IInv

LEMMA CountTypes ==
  ASSUME IInv, NEW s \in Stages, NEW r \in Replicas
  PROVE  /\ next_fwd[s][r] \in Nat /\ next_bwd[s][r] \in Nat
         /\ busy[s][r] \in Work \cup {"none"}
         /\ inbox[s][r] \in Seq(Command) /\ pending[s][r] \in Seq(Batch)
<1>1. Shapes BY DEF IInv
<1>2. next_fwd \in [Stages -> [Replicas -> Nat]] /\ next_bwd \in [Stages -> [Replicas -> Nat]]
  BY <1>1 DEF Shapes
<1>3. busy \in [Stages -> [Replicas -> Work \cup {"none"}]] BY <1>1 DEF Shapes
<1>4. inbox \in [Stages -> [Replicas -> Seq(Command)]] /\ pending \in [Stages -> [Replicas -> Seq(Batch)]]
  BY <1>1 DEF Shapes
<1>5. next_fwd[s][r] \in Nat /\ next_bwd[s][r] \in Nat BY <1>2
<1>6. busy[s][r] \in Work \cup {"none"} BY <1>3
<1>7. inbox[s][r] \in Seq(Command) /\ pending[s][r] \in Seq(Batch) BY <1>4
<1> QED BY <1>5, <1>6, <1>7

\* A lane nobody touches.
Untouched(s, r) ==
  /\ inbox'[s][r] = inbox[s][r] /\ doing'[s][r] = doing[s][r] /\ answer'[s][r] = answer[s][r]
  /\ pending'[s][r] = pending[s][r] /\ fate'[s] = fate[s]
  /\ phase' # "failed" =>
       /\ phase # "failed" /\ reply'[s][r] = reply[s][r]
       /\ next_fwd'[s][r] = next_fwd[s][r] /\ next_bwd'[s][r] = next_bwd[s][r]
       /\ busy'[s][r] = busy[s][r] /\ Expected(s, r)' = Expected(s, r)

LEMMA LaneStays ==
  ASSUME NEW s, NEW r, LaneInv(s, r), Untouched(s, r)
  PROVE  LaneInv(s, r)'
<1>1. (Live(s) => OneCommand(s, r))' BY DEF LaneInv, Untouched, Live, OneCommand, Fit, Answering, Artifacts
<1>2. ASSUME phase' # "failed" PROVE Linked(s, r)'
  <2>1. Linked(s, r) BY <1>2 DEF LaneInv, Untouched
  <2> QED BY ZenonT(60), <1>2, <2>1 DEF Untouched, Linked, Live, Answering, Artifacts, Asked, Outstanding
<1>3. ASSUME phase' # "failed" PROVE Graphs(s, r)'
  <2>1. Graphs(s, r) BY <1>3 DEF LaneInv, Untouched
  <2> QED BY <1>3, <2>1 DEF Untouched, Graphs, Live, Unused, Holds
<1>4. ASSUME phase' # "failed" PROVE Counts(s, r)'
  BY <1>4 DEF LaneInv, Untouched, Counts
<1> QED BY <1>1, <1>2, <1>3, <1>4 DEF LaneInv

-----------------------------------------------------------------------------
(* Steps of the driver alone                                               *)

LEMMA Unmoved ==
  ASSUME IInv, UNCHANGED <<workVars, inbox, reply, stageVars>>,
         \A s \in Stages, r \in Replicas :
           phase' # "failed" => phase # "failed" /\ Expected(s, r)' = Expected(s, r),
         phase' \in Phases, at' \in Stages, lane' \in Replicas, step' \in Nat,
         sending' \in Work \cup {"none"}, phase' # "failed" => Position'
  PROVE  IInv'
<1> USE DEF workVars, stageVars, modelVars
<1>1. Shapes' BY ZenonT(60) DEF IInv, Shapes, Lanes
<1>2. ASSUME phase' # "failed" PROVE Known'
  <2>1. Known BY <1>2, ZeroIsIn DEF IInv
  <2> QED BY <2>1 DEF Known
<1>3. ASSUME NEW s \in Stages, NEW r \in Replicas PROVE LaneInv(s, r)'
  BY LaneStays DEF IInv, Untouched
<1>4. GradientsFitGraphs' BY DEF IInv, GradientsFitGraphs
<1> QED BY <1>1, <1>2, <1>3, <1>4 DEF IInv

\* What is decided for a stage.
LEMMA DecidedCases ==
  ASSUME NEW s
  PROVE  /\ s = at /\ sending # "none" => Decided(s) = sending
         /\ s # at \/ sending = "none" =>
              \/ Decided(s) = "none"
              \/ Decided(s) = "backward" /\ ~AnyBusy(s) /\ BackwardReady(s)
              \/ Decided(s) = "forward" /\ ~AnyBusy(s) /\ ForwardReady(s)
BY DEF Decided

LEMMA DispatchEndsKeeps == ASSUME IInv, DispatchEnds PROVE IInv'
<1> USE DEF DispatchEnds
<1>1. sending = "none"
  <2>1. Decided(at) = "none" BY DEF IInv, Shapes
  <2> QED BY <2>1, DecidedCases
<1>2. \A s \in Stages, r \in Replicas : Expected(s, r)' = Expected(s, r) BY DEF Expected, workVars
<1>3. Position' BY <1>1 DEF Position, Between
<1>4. UNCHANGED <<workVars, inbox, reply, stageVars>> OBVIOUS
<1>5. /\ phase' \in Phases /\ at' \in Stages /\ lane' \in Replicas /\ step' \in Nat
      /\ sending' \in Work \cup {"none"}
  BY ZeroIsIn DEF IInv, Shapes
<1> QED BY <1>2, <1>3, <1>4, <1>5, Unmoved

LEMMA PollNothingKeeps ==
  ASSUME IInv, NEW s \in Stages, NEW r \in Replicas, PollNothing(s, r)
  PROVE  IInv'
<1>1. phase = "poll" /\ NextLane(s, r, "loop") /\ UNCHANGED <<sending, step, workVars, inbox, reply, stageVars>>
  BY DEF PollNothing, NextToPoll
<1>2. phase' \in {"poll", "loop"} /\ at' \in Stages /\ lane' \in Replicas BY <1>1, ScanGoesOn
<1>3. \A t \in Stages, q \in Replicas : Expected(t, q)' = Expected(t, q)
  BY <1>1, <1>2 DEF Expected, workVars
<1>4. Position' BY <1>1, <1>2 DEF IInv, Position, Between
<1> QED BY <1>1, <1>2, <1>3, <1>4, Unmoved DEF IInv, Shapes

LEMMA PollFailsKeeps ==
  ASSUME IInv, NEW s \in Stages, NEW r \in Replicas, PollFails(s, r)
  PROVE  IInv'
<1>1. phase' = "failed" /\ UNCHANGED <<at, lane, sending, step, workVars, inbox, reply, stageVars>>
  BY DEF PollFails, Abandon
<1> QED BY <1>1, Unmoved DEF IInv, Shapes

LEMMA LoopKeeps == ASSUME IInv, Loop PROVE IInv'
<1>1. /\ phase \in {"loop", "poll"} /\ phase' = IF Unfinished THEN "dispatch" ELSE "step"
      /\ at' = 0 /\ lane' = 0 /\ UNCHANGED <<sending, step, workVars, inbox, reply, stageVars>>
  BY DEF Loop
<1>2. ASSUME NEW t \in Stages, NEW q \in Replicas PROVE Expected(t, q)' = Expected(t, q)
  BY <1>1 DEF Expected, workVars, Before
<1>3. Position'
  <2>1. sending = "none" BY <1>1 DEF IInv, Position
  <2>2. ASSUME phase' = "step", NEW s \in Stages, NEW r \in Replicas
        PROVE  busy[s][r] = "none" /\ next_fwd[s][r] = M /\ next_bwd[s][r] = M
    <3>1. ~(next_bwd[s][r] < M) /\ busy[s][r] = "none" BY <1>1, <2>2 DEF Unfinished
    <3>2. Counts(s, r) BY <1>1 DEF IInv, LaneInv
    <3>3. next_bwd[s][r] \in Nat /\ next_fwd[s][r] \in Nat BY CountTypes
    <3> QED BY <3>1, <3>2, <3>3 DEF Counts
  <2> QED BY <1>1, <2>1, <2>2 DEF Position, Between, workVars
<1>4. phase' \in Phases /\ at' \in Stages /\ lane' \in Replicas BY <1>1, ZeroIsIn
<1> QED BY <1>1, <1>2, <1>3, <1>4, Unmoved DEF IInv, Shapes

LEMMA AbsorbKeeps == ASSUME IInv, Absorb PROVE IInv'
<1>1. /\ phase = "absorb" /\ phase' = "collect" /\ step' = step + 1
      /\ UNCHANGED <<at, lane, sending, workVars, inbox, reply, stageVars>>
  BY DEF Absorb
<1>2. ASSUME NEW t \in Stages, NEW q \in Replicas PROVE Expected(t, q)' = Expected(t, q)
  BY <1>1 DEF Expected, workVars
<1>3. Position' BY <1>1 DEF IInv, Position, Between, workVars
<1>4. /\ phase' \in Phases /\ at' \in Stages /\ lane' \in Replicas /\ step' \in Nat
      /\ sending' \in Work \cup {"none"}
  BY <1>1 DEF IInv, Shapes
<1> QED BY <1>1, <1>2, <1>3, <1>4, Unmoved

\* A new batch: the lanes have answered all of the last one.
LEMMA BeginStepKeeps == ASSUME IInv, BeginStep PROVE IInv'
<1>1. /\ phase = "collect" /\ phase' = "dispatch" /\ forward' = NoneKnown /\ backward' = NoneKnown
      /\ next_fwd' = EachLane(0) /\ next_bwd' = EachLane(0) /\ busy' = EachLane("none")
      /\ UNCHANGED <<at, lane, sending, step, inbox, reply, stageVars>>
  BY DEF BeginStep
<1>2. Shapes' BY ZenonT(60), <1>1 DEF IInv, Shapes, Lanes, NoneKnown, EachLane, stageVars, modelVars
<1>3. Known'
  <2> SUFFICES ASSUME NEW s \in Stages, NEW x \in Batch
               PROVE forward'[<<x[1], x[2], s>>] = Nothing /\ backward'[<<x[1], x[2], s>>] = Nothing
    BY DEF Known
  <2>1. <<x[1], x[2], s>> \in Slots BY DEF Batch, Slots
  <2> QED BY <1>1, <2>1 DEF NoneKnown
<1>4. Position' BY <1>1 DEF IInv, Position, Between
<1>5. ASSUME NEW s \in Stages, NEW r \in Replicas PROVE LaneInv(s, r)'
  <2>1. /\ busy[s][r] = "none" /\ busy'[s][r] = "none" /\ next_fwd'[s][r] = 0 /\ next_bwd'[s][r] = 0
        /\ next_fwd[s][r] = next_bwd[s][r] /\ next_bwd[s][r] \in Nat
    <3>1. Position BY <1>1, ScanPosition
    <3>2. busy[s][r] = "none" /\ next_fwd[s][r] = next_bwd[s][r] BY <1>1, <3>1 DEF Position, Between
    <3>3. busy'[s][r] = "none" /\ next_fwd'[s][r] = 0 /\ next_bwd'[s][r] = 0 BY <1>1 DEF EachLane
    <3> QED BY <3>2, <3>3, CountTypes
  <2>2. Expected(s, r) = "none" /\ Expected(s, r)' = "none" BY <1>1, <2>1 DEF Expected
  <2>3. /\ (Live(s) => OneCommand(s, r)) /\ Linked(s, r) /\ Graphs(s, r) BY <1>1 DEF IInv, LaneInv
  <2> USE DEF stageVars, modelVars
  <2>4. Live(s)' => OneCommand(s, r)'
    BY <1>1, <2>3 DEF Live, OneCommand, Fit, Answering, Artifacts
  <2>5. Linked(s, r)' BY <1>1, <2>2, <2>3 DEF Linked, Live
  <2>6. Graphs(s, r)'
    <3> SUFFICES ASSUME Live(s) PROVE Holds(pending[s][r], r, 0, 0)
      BY <1>1, <2>1 DEF Graphs, Unused, Live
    <3>1. inbox[s][r] = <<>> /\ doing[s][r] = Nothing /\ reply[s][r] = Nothing /\ answer[s][r] = Nothing
      BY <2>2, <2>3 DEF Linked, OneCommand
    <3>2. Holds(pending[s][r], r, next_bwd[s][r], next_fwd[s][r])
      BY <2>1, <2>3, <3>1, Markers DEF Graphs, Unused
    <3>3. Len(pending[s][r]) = 0 BY <2>1, <3>2 DEF Holds
    <3> QED BY <3>3 DEF Holds
  <2>7. Counts(s, r)' BY <2>1 DEF Counts
  <2> QED BY <2>4, <2>5, <2>6, <2>7 DEF LaneInv
<1>6. GradientsFitGraphs' BY <1>1 DEF IInv, GradientsFitGraphs, stageVars, modelVars
<1> QED BY <1>2, <1>3, <1>4, <1>5, <1>6 DEF IInv

-----------------------------------------------------------------------------
(* Commands the driver sends                                               *)

LEMMA SentTo ==
  ASSUME IInv, NEW s \in Stages, NEW r \in Replicas, NEW c \in Command, Sent(s, r, c)
  PROVE  /\ inbox' \in [Stages -> [Replicas -> Seq(Command)]]
         /\ inbox'[s][r] = Append(inbox[s][r], c)
         /\ \A t \in Stages, q \in Replicas : t # s \/ q # r => inbox'[t][q] = inbox[t][q]
<1>1. inbox \in [Stages -> [Replicas -> Seq(Command)]] BY DEF IInv, Shapes
<1>2. Append(inbox[s][r], c) \in Seq(Command) BY <1>1
<1> QED BY <1>1, <1>2 DEF Sent

\* A sequence of one.
LEMMA OneElement ==
  ASSUME NEW S, NEW q \in Seq(S), Len(q) <= 1, q # <<>>
  PROVE  Head(q) = q[1] /\ Tail(q) = <<>>
OBVIOUS

LEMMA OneLane ==
  ASSUME NEW T, NEW f \in [Stages -> [Replicas -> T]], NEW s \in Stages, NEW r \in Replicas, NEW v \in T
  PROVE  /\ [f EXCEPT ![s][r] = v] \in [Stages -> [Replicas -> T]] /\ [f EXCEPT ![s][r] = v][s][r] = v
         /\ \A t \in Stages, q \in Replicas : t # s \/ q # r => [f EXCEPT ![s][r] = v][t][q] = f[t][q]
OBVIOUS

LEMMA IdleLane ==
  ASSUME IInv, phase # "failed", NEW s \in Stages, NEW r \in Replicas, Expected(s, r) = "none"
  PROVE  /\ busy[s][r] = "none" /\ reply[s][r] = Nothing
         /\ Live(s) => /\ inbox[s][r] = <<>> /\ doing[s][r] = Nothing /\ answer[s][r] = Nothing
                       /\ Holds(pending[s][r], r, next_bwd[s][r], next_fwd[s][r])
<1>1. (Live(s) => OneCommand(s, r)) /\ Linked(s, r) /\ Graphs(s, r) BY DEF IInv, LaneInv
<1>2. busy[s][r] = "none" BY DEF Expected
<1>3. reply[s][r] = Nothing BY <1>1 DEF Linked
<1>4. ASSUME Live(s) PROVE inbox[s][r] = <<>> /\ doing[s][r] = Nothing /\ answer[s][r] = Nothing
  BY <1>1, <1>4 DEF Linked, OneCommand
<1>5. ASSUME Live(s) PROVE Holds(pending[s][r], r, next_bwd[s][r], next_fwd[s][r])
  <2>1. Unused(s, r, "forward") = 0 /\ Unused(s, r, "backward") = 0 BY <1>2 DEF Unused
  <2>2. Holds(pending[s][r], r, next_bwd[s][r] - 0, next_fwd[s][r] - 0)
    BY <1>1, <1>3, <1>4, <1>5, <2>1, Markers DEF Graphs
  <2> QED BY <2>2, CountTypes
<1> QED BY <1>2, <1>3, <1>4, <1>5

LEMMA AskedLane ==
  ASSUME IInv, phase # "failed", NEW s \in Stages, NEW r \in Replicas, Expected(s, r) = "none",
         NEW c \in Command, inbox'[s][r] = Append(inbox[s][r], c), UNCHANGED <<reply, stageVars>>,
         Live(s) => Fit(c, s, r)
  PROVE  /\ (Live(s) => OneCommand(s, r))'
         /\ Expected(s, r)' = c.kind /\ (c.kind \in Work => c.micro_batch = Outstanding(s, r)')
              => Linked(s, r)'
<1>1. reply[s][r] = Nothing /\ (Live(s) => inbox[s][r] = <<>> /\ doing[s][r] = Nothing /\ answer[s][r] = Nothing)
  BY IdleLane
<1>2. UNCHANGED <<reply, doing, answer, fate, pending>> BY DEF stageVars, modelVars
<1>3. Live(s)' = Live(s) BY <1>2 DEF Live
<1>4. Live(s) => inbox'[s][r] # <<>> /\ Len(inbox'[s][r]) = 1 /\ inbox'[s][r][1] = c BY SMTT(40), <1>1
<1>5. Live(s) => Fit(c, s, r)' BY <1>2 DEF Fit
<1>6. c.kind # "none" BY CommandKinds
<1>7. Live(s) => OneCommand(s, r)' BY <1>1, <1>2, <1>4, <1>5 DEF OneCommand
<1>8. ASSUME Expected(s, r)' = c.kind, c.kind \in Work => c.micro_batch = Outstanding(s, r)'
      PROVE Linked(s, r)'
  BY <1>1, <1>2, <1>3, <1>4, <1>6, <1>8 DEF Linked, Asked
<1> QED BY <1>3, <1>7, <1>8

LEMMA WorkToSend ==
  ASSUME IInv, NEW s \in Stages, NextToSend(s)
  PROVE  /\ Decided(s) \in Work /\ (s # at => lane = 0)
         /\ \A r \in Replicas : r >= lane => CanSend(s, r, Decided(s))
<1>1. /\ phase = "dispatch" /\ Decided(s) # "none" /\ (s # at => Decided(at) = "none") /\ Known /\ Position
      /\ at \in Stages
  <2>1. /\ phase = "dispatch" /\ Decided(s) # "none" /\ s >= at /\ \A t \in at .. (s - 1) : Decided(t) = "none"
    BY DEF NextToSend
  <2>2. Known /\ Position BY <2>1 DEF IInv
  <2>3. at \in Stages BY DEF IInv, Shapes
  <2> QED BY <2>1, <2>2, <2>3
<1>2. CASE s = at /\ sending # "none"
  <2>1. Decided(s) = sending /\ sending \in Work BY <1>2, DecidedCases DEF IInv, Shapes
  <2> QED BY <1>1, <1>2, <2>1 DEF Position
<1>3. CASE s # at \/ sending = "none"
  <2>1. sending = "none" BY <1>1, <1>3, DecidedCases
  <2>2. lane = 0 BY <1>1, <2>1 DEF Position
  <2>3. ~AnyBusy(s) BY <1>1, <1>3, DecidedCases
  <2>4. CASE Decided(s) = "backward" /\ BackwardReady(s)
    <3> SUFFICES ASSUME NEW r \in Replicas PROVE CanSend(s, r, "backward") BY <2>2, <2>4
    <3> DEFINE b == next_bwd[s][0]
    <3>1. b \in Nat BY CountTypes, ZeroIsIn
    <3>2. /\ b < M /\ next_bwd[s][r] = b /\ forward[<<r, b, s>>] # Nothing
          /\ s + 1 = P \/ backward[<<r, b, s + 1>>] # Nothing
      BY <2>4 DEF BackwardReady
    <3> HIDE DEF b
    <3>3. <<r, b>> \in Batch BY <3>1, <3>2 DEF Batch
    <3>4. b < next_fwd[s][r] BY <1>1, <3>2, <3>3 DEF Known
    <3> QED BY <2>3, <3>2, <3>4 DEF CanSend, AnyBusy
  <2>5. CASE Decided(s) = "forward" /\ ForwardReady(s)
    <3> SUFFICES ASSUME NEW r \in Replicas PROVE CanSend(s, r, "forward") BY <2>2, <2>5
    <3>1. busy[s][r] = "none" BY <2>3 DEF AnyBusy
    <3>2. next_fwd[s][r] < M /\ (s = 0 \/ forward[<<r, next_fwd[s][r], s - 1>>] # Nothing)
      BY <2>5 DEF ForwardReady
    <3> QED BY <3>1, <3>2 DEF CanSend
  <2> QED BY <1>1, <1>3, <2>2, <2>4, <2>5, DecidedCases
<1> QED BY <1>2, <1>3

LEMMA WorkIsFit ==
  ASSUME IInv, phase = "dispatch", NEW s \in Stages, NEW r \in Replicas, NEW kind \in Work, CanSend(s, r, kind),
         NEW c, c = WorkCommand(s, r, kind)
  PROVE  /\ Expected(s, r) = "none" /\ c \in Command /\ c.kind = kind
         /\ c.micro_batch = IF kind = "forward" THEN next_fwd[s][r] ELSE next_bwd[s][r]
         /\ Live(s) => Fit(c, s, r)
<1> DEFINE b == IF kind = "forward" THEN next_fwd[s][r] ELSE next_bwd[s][r]
<1>1. Expected(s, r) = "none" BY DEF CanSend, Expected
<1>2. next_fwd[s][r] \in Nat /\ next_bwd[s][r] \in Nat BY CountTypes
<1>3. Counts(s, r) /\ Known BY DEF IInv, LaneInv
<1>4. b \in MicroBatches BY <1>2, <1>3 DEF CanSend, Counts
<1>5. c.kind = kind /\ c.micro_batch = b BY DEF WorkCommand
<1>6. <<r, b>> \in Batch BY <1>4, ArtifactsMade
<1>7. CASE kind = "forward"
  <2>1. c.artifact = IF s = 0 THEN Input(r, b) ELSE Output(s - 1, <<r, b>>)
    <3>1. CASE s = 0 BY <1>7, <3>1 DEF WorkCommand
    <3>2. CASE s > 0
      <4>1. c.artifact = forward[<<r, b, s - 1>>] /\ forward[<<r, b, s - 1>>] # Nothing /\ s - 1 \in Stages
        BY <1>7, <3>2 DEF WorkCommand, CanSend
      <4> HIDE DEF b
      <4> QED BY <1>3, <1>6, <3>2, <4>1 DEF Known
    <3> QED BY <3>1, <3>2
  <2> HIDE DEF b
  <2>2. c.artifact \in Artifact /\ c.artifact.of = <<r, b>>
    <3>1. s = 0 \/ s - 1 \in Stages OBVIOUS
    <3> QED BY ZenonT(60), <1>4, <2>1, <3>1, ArtifactsMade
  <2>3. c \in Command
    <3>1. c = [kind |-> kind, micro_batch |-> c.micro_batch, artifact |-> c.artifact] BY DEF WorkCommand
    <3> QED BY <1>4, <1>5, <2>2, <3>1 DEF Command
  <2>4. Fit(c, s, r) BY <1>5, <1>7, <2>2 DEF Fit
  <2> QED BY <1>1, <1>5, <2>3, <2>4 DEF b
<1>8. CASE kind = "backward"
  <2>1. c.artifact = IF s + 1 = P THEN Output(s, <<r, b>>) ELSE Gradient(s + 1, <<r, b>>)
    <3>1. CASE s + 1 = P
      <4>1. c.artifact = forward[<<r, b, s>>] /\ forward[<<r, b, s>>] # Nothing
        BY <1>8, <3>1 DEF WorkCommand, CanSend
      <4> HIDE DEF b
      <4> QED BY <1>3, <1>6, <3>1, <4>1 DEF Known
    <3>2. CASE s + 1 # P
      <4>1. c.artifact = backward[<<r, b, s + 1>>] /\ backward[<<r, b, s + 1>>] # Nothing /\ s + 1 \in Stages
        BY <1>8, <3>2 DEF WorkCommand, CanSend
      <4> HIDE DEF b
      <4> QED BY <1>3, <1>6, <3>2, <4>1 DEF Known
    <3> QED BY <3>1, <3>2
  <2>2. b = next_bwd[s][r] /\ next_bwd[s][r] < next_fwd[s][r] BY <1>8 DEF CanSend
  <2> HIDE DEF b
  <2>3. c.artifact \in Artifact /\ c.artifact.of = <<r, b>>
    <3>1. CASE s + 1 = P
      <4>1. c.artifact = Output(s, <<r, b>>) BY <2>1, <3>1
      <4> QED BY ZenonT(60), <1>4, <4>1, ArtifactsMade
    <3>2. CASE s + 1 # P
      <4>1. s + 1 \in Stages BY <3>2
      <4>2. c.artifact = Gradient(s + 1, <<r, b>>) BY <2>1, <3>2
      <4> QED BY ZenonT(60), <1>4, <4>1, <4>2, ArtifactsMade
    <3> QED BY <3>1, <3>2
  <2>4. c \in Command
    <3>1. c = [kind |-> kind, micro_batch |-> c.micro_batch, artifact |-> c.artifact] BY DEF WorkCommand
    <3> QED BY <1>4, <1>5, <2>3, <3>1 DEF Command
  <2>5. ASSUME Live(s) PROVE pending[s][r] # <<>> /\ Head(pending[s][r]) = <<r, b>>
    <3>1. Holds(pending[s][r], r, next_bwd[s][r], next_fwd[s][r]) BY <1>1, <2>5, IdleLane
    <3>2. Len(pending[s][r]) > 0 /\ pending[s][r][1] = <<r, b>> BY SMTT(40), <1>2, <2>2, <3>1 DEF Holds
    <3>3. pending[s][r] \in Seq(Batch) BY CountTypes
    <3> QED BY <3>2, <3>3
  <2>6. Live(s) => Fit(c, s, r) BY <1>5, <2>1, <2>3, <2>5 DEF Fit
  <2> QED BY <1>1, <1>5, <2>4, <2>6 DEF b
<1> QED BY <1>7, <1>8

LEMMA SendWorkKeeps == ASSUME IInv, NEW s \in Stages, SendWork(s) PROVE IInv'
<1> PICK r : r = lane OBVIOUS
<1> PICK kind : kind = Decided(s) OBVIOUS
<1> PICK c : c = WorkCommand(s, r, kind) OBVIOUS
<1>1. /\ phase = "dispatch" /\ Sent(s, r, c) /\ NextLane(s, r, "poll")
      /\ busy' = [busy EXCEPT ![s][r] = kind]
      /\ next_fwd' = (IF kind = "forward" THEN [next_fwd EXCEPT ![s][r] = @ + 1] ELSE next_fwd)
      /\ next_bwd' = (IF kind = "backward" THEN [next_bwd EXCEPT ![s][r] = @ + 1] ELSE next_bwd)
      /\ sending' = (IF r + 1 < R THEN kind ELSE "none")
      /\ UNCHANGED <<step, forward, backward, reply, stageVars>>
  BY DEF SendWork, NextToSend
<1>2. kind \in Work /\ \A q \in Replicas : q >= lane => CanSend(s, q, kind)
  BY WorkToSend DEF SendWork
<1>3. r \in Replicas /\ r = lane BY DEF IInv, Shapes
<1>4. CanSend(s, r, kind) BY <1>2, <1>3
<1>5. /\ Expected(s, r) = "none" /\ c \in Command /\ c.kind = kind
      /\ c.micro_batch = (IF kind = "forward" THEN next_fwd[s][r] ELSE next_bwd[s][r])
      /\ Live(s) => Fit(c, s, lane)
  BY <1>1, <1>2, <1>3, <1>4, WorkIsFit
<1>6. /\ inbox' \in [Stages -> [Replicas -> Seq(Command)]]
      /\ inbox'[s][r] = Append(inbox[s][r], c)
      /\ \A t \in Stages, q \in Replicas : t # s \/ q # r => inbox'[t][q] = inbox[t][q]
  BY <1>1, <1>3, <1>5, SentTo
<1>7. /\ at' \in Stages /\ lane' \in Replicas /\ phase' \in {"dispatch", "poll"}
      /\ r + 1 < R => at' = s /\ lane' = r + 1 /\ phase' = "dispatch"
      /\ r + 1 >= R => lane' = 0
  BY <1>1, <1>3, ScanGoesOn
<1>8. /\ busy \in [Stages -> [Replicas -> Work \cup {"none"}]]
      /\ next_fwd \in [Stages -> [Replicas -> Nat]] /\ next_bwd \in [Stages -> [Replicas -> Nat]]
  <2>1. Shapes BY DEF IInv
  <2> QED BY <2>1 DEF Shapes
<1>9. /\ busy' \in [Stages -> [Replicas -> Work \cup {"none"}]] /\ busy'[s][r] = kind
      /\ \A t \in Stages, q \in Replicas : t # s \/ q # r => busy'[t][q] = busy[t][q]
  BY <1>1, <1>2, <1>3, <1>8, OneLane
<1>10. /\ next_fwd' \in [Stages -> [Replicas -> Nat]] /\ next_bwd' \in [Stages -> [Replicas -> Nat]]
       /\ kind = "forward" => next_fwd'[s][r] = next_fwd[s][r] + 1 /\ next_bwd' = next_bwd
       /\ kind = "backward" => next_bwd'[s][r] = next_bwd[s][r] + 1 /\ next_fwd' = next_fwd
       /\ \A t \in Stages, q \in Replicas : t # s \/ q # r =>
            next_fwd'[t][q] = next_fwd[t][q] /\ next_bwd'[t][q] = next_bwd[t][q]
  <2>1. CASE kind = "forward"
    <3>1. next_fwd' = [next_fwd EXCEPT ![s][r] = next_fwd[s][r] + 1] /\ next_bwd' = next_bwd BY <1>1, <2>1
    <3>2. next_fwd[s][r] + 1 \in Nat
      <4>1. next_fwd[s][r] \in Nat BY <1>3, CountTypes
      <4> QED BY <4>1
    <3>3. /\ next_fwd' \in [Stages -> [Replicas -> Nat]] /\ next_fwd'[s][r] = next_fwd[s][r] + 1
          /\ \A t \in Stages, q \in Replicas : t # s \/ q # r => next_fwd'[t][q] = next_fwd[t][q]
      <4>1. PICK k \in Nat : k = next_fwd[s][r] + 1 BY Zenon, <3>2
      <4>2. next_fwd' = [next_fwd EXCEPT ![s][r] = k] BY <3>1, <4>1
      <4> HIDE DEF Stages, Replicas
      <4> QED BY <1>3, <1>8, <4>1, <4>2, OneLane
    <3> QED BY <1>8, <2>1, <3>1, <3>3
  <2>2. CASE kind = "backward"
    <3>1. next_bwd' = [next_bwd EXCEPT ![s][r] = next_bwd[s][r] + 1] /\ next_fwd' = next_fwd BY <1>1, <2>2
    <3>2. next_bwd[s][r] + 1 \in Nat
      <4>1. next_bwd[s][r] \in Nat BY <1>3, CountTypes
      <4> QED BY <4>1
    <3>3. /\ next_bwd' \in [Stages -> [Replicas -> Nat]] /\ next_bwd'[s][r] = next_bwd[s][r] + 1
          /\ \A t \in Stages, q \in Replicas : t # s \/ q # r => next_bwd'[t][q] = next_bwd[t][q]
      <4>1. PICK k \in Nat : k = next_bwd[s][r] + 1 BY <3>2
      <4>2. next_bwd' = [next_bwd EXCEPT ![s][r] = k] BY <3>1, <4>1
      <4> HIDE DEF Stages, Replicas
      <4> QED BY <1>3, <1>8, <4>1, <4>2, OneLane
    <3> QED BY <1>8, <2>2, <3>1, <3>3
  <2> QED BY <1>2, <2>1, <2>2
<1> USE DEF stageVars, modelVars
<1>11. Shapes'
  <2>1. Shapes BY DEF IInv
  <2>2. sending' \in Work \cup {"none"} BY <1>1, <1>2
  <2>3. phase' \in Phases /\ step' \in Nat BY <1>1, <1>7, <2>1 DEF Shapes
  <2>4. forward' = [x \in Slots |-> forward'[x]] /\ backward' = [x \in Slots |-> backward'[x]]
    BY <1>1, <2>1 DEF Shapes
  <2>5. /\ Lanes(reply)' /\ Lanes(doing)' /\ Lanes(answer)'
        /\ (fate = [t \in Stages |-> fate[t]])' /\ (gradients = [t \in Stages |-> gradients[t]])'
        /\ pending' \in [Stages -> [Replicas -> Seq(Batch)]]
    BY <1>1, <2>1 DEF Shapes, Lanes
  <2> QED BY <1>6, <1>7, <1>9, <1>10, <2>2, <2>3, <2>4, <2>5 DEF Shapes
<1>12. Known'
  <2>1. Known BY <1>1 DEF IInv
  <2>2. ASSUME NEW t \in Stages, NEW q \in Replicas
        PROVE  next_fwd[t][q] \in Nat /\ next_fwd'[t][q] \in Nat /\ next_fwd[t][q] <= next_fwd'[t][q]
    <3>1. next_fwd[t][q] \in Nat BY CountTypes
    <3>2. next_fwd'[t][q] = next_fwd[t][q] \/ next_fwd'[t][q] = next_fwd[t][q] + 1 BY <1>2, <1>10
    <3> QED BY <3>1, <3>2
  <2>3. ASSUME NEW t \in Stages, NEW x \in Batch, x[2] < next_fwd[t][x[1]] PROVE x[2] < next_fwd'[t][x[1]]
    <3>1. PICK q \in Replicas, b \in MicroBatches : x = <<q, b>> BY DEF Batch
    <3>2. b \in Nat OBVIOUS
    <3> QED BY <2>2, <2>3, <3>1, <3>2
  <2> QED BY <1>1, <2>1, <2>3 DEF Known
<1>13. Position'
  <2>1. ASSUME r + 1 < R, NEW q \in Replicas, q >= r + 1 PROVE CanSend(s, q, kind)'
    <3>1. CanSend(s, q, kind) /\ q # r BY <1>2, <1>3, <2>1
    <3> QED BY <1>1, <1>9, <1>10, <2>1, <3>1 DEF CanSend
  <2> QED BY <1>1, <1>2, <1>3, <1>7, <2>1 DEF Position, Between
<1>14. ASSUME NEW t \in Stages, NEW q \in Replicas, t # s \/ q # r PROVE LaneInv(t, q)'
  <2>1. Expected(t, q)' = Expected(t, q) BY <1>1, <1>7, <1>9, <1>14 DEF Expected
  <2>2. UNCHANGED <<doing, answer, pending, fate, reply>> /\ phase # "failed" BY <1>1
  <2>3. inbox'[t][q] = inbox[t][q] /\ busy'[t][q] = busy[t][q] BY <1>6, <1>9, <1>14
  <2>4. next_fwd'[t][q] = next_fwd[t][q] /\ next_bwd'[t][q] = next_bwd[t][q] BY <1>10, <1>14
  <2>5. LaneInv(t, q) BY DEF IInv
  <2>6. Untouched(t, q) BY <2>1, <2>2, <2>3, <2>4 DEF Untouched
  <2> QED BY <2>5, <2>6, LaneStays
<1>15. LaneInv(s, r)'
  <2>1. Expected(s, r)' = kind BY <1>2, <1>9 DEF Expected
  <2>2. next_fwd[s][r] \in Nat /\ next_bwd[s][r] \in Nat BY <1>3, CountTypes
  <2>3. c.micro_batch = Outstanding(s, r)'
    <3>1. CASE kind = "forward"
      <4>1. Outstanding(s, r)' = (next_fwd[s][r] + 1) - 1 BY <1>9, <1>10, <3>1 DEF Outstanding
      <4> QED BY <1>5, <2>2, <3>1, <4>1
    <3>2. CASE kind = "backward"
      <4>1. Outstanding(s, r)' = (next_bwd[s][r] + 1) - 1 BY <1>9, <1>10, <3>2 DEF Outstanding
      <4> QED BY <1>5, <2>2, <3>2, <4>1
    <3> QED BY <1>2, <3>1, <3>2
  <2>4. (Live(s) => OneCommand(s, r))' /\ Linked(s, r)'
    BY SMTT(40), <1>1, <1>3, <1>5, <1>6, <2>1, <2>3, AskedLane
  <2>5. Graphs(s, r)'
    <3> SUFFICES ASSUME Live(s) PROVE Graphs(s, r)' BY <1>1 DEF Graphs, Live
    <3>1. Holds(pending[s][r], r, next_bwd[s][r], next_fwd[s][r]) BY <1>1, <1>3, <1>5, IdleLane
    <3>2. inbox[s][r] = <<>> BY <1>1, <1>3, <1>5, IdleLane
    <3>3. inbox'[s][r] # <<>> BY <1>6, <3>2
    <3>4. CASE kind = "forward"
      <4>1. Unused(s, r, "forward")' = 1 /\ Unused(s, r, "backward")' = 0 BY <1>9, <3>3, <3>4 DEF Unused
      <4>2. /\ next_fwd'[s][r] - Unused(s, r, "forward")' = next_fwd[s][r]
            /\ next_bwd'[s][r] - Unused(s, r, "backward")' = next_bwd[s][r]
        BY SMTT(40), <1>10, <2>2, <3>4, <4>1
      <4> QED BY <1>1, <3>1, <4>2 DEF Graphs, Holds
    <3>5. CASE kind = "backward"
      <4>1. Unused(s, r, "forward")' = 0 /\ Unused(s, r, "backward")' = 1 BY <1>9, <3>3, <3>5 DEF Unused
      <4>2. next_bwd'[s][r] = next_bwd[s][r] + 1 /\ next_fwd'[s][r] = next_fwd[s][r] BY <1>10, <3>5
      <4>3. /\ next_fwd'[s][r] - Unused(s, r, "forward")' = next_fwd[s][r]
            /\ next_bwd'[s][r] - Unused(s, r, "backward")' = next_bwd[s][r]
        BY <2>2, <4>1, <4>2
      <4> QED BY <1>1, <3>1, <4>3 DEF Graphs, Holds
    <3> QED BY <1>2, <3>4, <3>5
  <2>6. Counts(s, r)'
    <3>1. Counts(s, r) BY <1>1, <1>3 DEF IInv, LaneInv
    <3>2. CASE kind = "forward"
      <4>1. next_fwd[s][r] < M BY <1>4, <3>2 DEF CanSend
      <4>2. next_fwd'[s][r] = next_fwd[s][r] + 1 /\ next_bwd'[s][r] = next_bwd[s][r] BY <1>10, <3>2
      <4> QED BY SMTT(40), <1>9, <2>2, <3>1, <3>2, <4>1, <4>2 DEF Counts
    <3>3. CASE kind = "backward"
      <4>1. next_bwd[s][r] < next_fwd[s][r] BY <1>4, <3>3 DEF CanSend
      <4>2. next_bwd'[s][r] = next_bwd[s][r] + 1 /\ next_fwd'[s][r] = next_fwd[s][r] BY <1>10, <3>3
      <4> QED BY <1>9, <2>2, <3>1, <3>3, <4>1, <4>2 DEF Counts
    <3> QED BY <1>2, <3>2, <3>3
  <2> QED BY <2>4, <2>5, <2>6 DEF LaneInv
<1>16. GradientsFitGraphs' BY <1>1 DEF IInv, GradientsFitGraphs
<1>17. \A t \in Stages, q \in Replicas : LaneInv(t, q)' BY <1>14, <1>15
<1> QED BY <1>11, <1>12, <1>13, <1>16, <1>17 DEF IInv

\* The driver gave up: what it has sent to a lane without work may be there.
LEMMA GivenUp ==
  ASSUME IInv, phase # "failed", phase' = "failed", NEW s \in Stages, NEW r \in Replicas, Expected(s, r) = "none",
         NEW c \in Command, Live(s) => Fit(c, s, r), Sent(s, r, c) \/ UNCHANGED inbox,
         UNCHANGED <<at, lane, sending, step, workVars, reply, stageVars>>
  PROVE  IInv'
<1>1. /\ inbox' \in [Stages -> [Replicas -> Seq(Command)]]
      /\ inbox'[s][r] \in {inbox[s][r], Append(inbox[s][r], c)}
      /\ \A t \in Stages, q \in Replicas : t # s \/ q # r => inbox'[t][q] = inbox[t][q]
  <2>1. CASE Sent(s, r, c) BY ZenonT(60), <2>1, SentTo
  <2>2. CASE UNCHANGED inbox
    <3>1. inbox \in [Stages -> [Replicas -> Seq(Command)]] BY DEF IInv, Shapes
    <3> QED BY <2>2, <3>1
  <2> QED BY <2>1, <2>2
<1>2. Shapes'
  <2>1. Shapes BY DEF IInv
  <2> QED BY ZenonT(60), <1>1, <2>1 DEF Shapes, Lanes, workVars, stageVars, modelVars
<1>3. ASSUME NEW t \in Stages, NEW q \in Replicas, inbox'[t][q] = inbox[t][q] PROVE LaneInv(t, q)'
  BY <1>3, LaneStays DEF IInv, Untouched, workVars, stageVars, modelVars
<1>4. ASSUME inbox'[s][r] = Append(inbox[s][r], c) PROVE LaneInv(s, r)'
  BY <1>4, AskedLane DEF LaneInv
<1>5. GradientsFitGraphs' BY DEF IInv, GradientsFitGraphs, stageVars, modelVars
<1>6. \A t \in Stages, q \in Replicas : LaneInv(t, q)' BY <1>1, <1>3, <1>4
<1> QED BY <1>2, <1>5, <1>6 DEF IInv

LEMMA SendWorkFailsKeeps == ASSUME IInv, NEW s \in Stages, SendWorkFails(s) PROVE IInv'
<1> DEFINE c == WorkCommand(s, lane, Decided(s))
<1>1. /\ phase = "dispatch" /\ phase' = "failed" /\ (Sent(s, lane, c) \/ UNCHANGED inbox)
      /\ UNCHANGED <<at, lane, sending, step, workVars, reply, stageVars>>
  BY DEF SendWorkFails, NextToSend, Unsent, Abandon
<1>2. lane \in Replicas BY DEF IInv, Shapes
<1>3. Decided(s) \in Work /\ CanSend(s, lane, Decided(s)) BY <1>2, WorkToSend DEF SendWorkFails
<1>4. Expected(s, lane) = "none" /\ c \in Command /\ (Live(s) => Fit(c, s, lane))
  BY <1>1, <1>2, <1>3, WorkIsFit
<1> QED BY <1>1, <1>2, <1>4, GivenUp

-----------------------------------------------------------------------------
(* Answers the driver reads                                                *)

\* A lane whose answer was read has nothing to do.
LEMMA ReadLane ==
  ASSUME IInv, phase # "failed", NEW s \in Stages, NEW r \in Replicas, reply[s][r] \notin {Nothing, Failed},
         busy'[s][r] = "none", Expected(s, r)' = "none", reply'[s][r] = Nothing,
         UNCHANGED <<next_fwd, next_bwd, inbox, stageVars>>
  PROVE  LaneInv(s, r)'
<1> USE DEF stageVars, modelVars
<1>1. (Live(s) => OneCommand(s, r)) /\ Linked(s, r) /\ Graphs(s, r) /\ Counts(s, r) BY DEF IInv, LaneInv
<1>2. Live(s)' = Live(s) BY DEF Live
<1>3. Live(s) => inbox[s][r] = <<>> /\ doing[s][r] = Nothing /\ answer[s][r] = Nothing
  BY <1>1 DEF Linked, OneCommand
<1>4. (Live(s) => OneCommand(s, r))' BY <1>1, <1>2, <1>3, Markers DEF OneCommand
<1>5. Linked(s, r)' BY <1>2, <1>3 DEF Linked
<1>6. Graphs(s, r)'
  <2> SUFFICES ASSUME Live(s) PROVE Graphs(s, r)' BY <1>2 DEF Graphs
  <2>1. Unused(s, r, "forward") = 0 /\ Unused(s, r, "backward") = 0 BY <1>3 DEF Unused
  <2>2. Unused(s, r, "forward")' = 0 /\ Unused(s, r, "backward")' = 0 BY <1>3 DEF Unused
  <2>3. Holds(pending[s][r], r, next_bwd[s][r] - 0, next_fwd[s][r] - 0)
    BY <1>1, <1>3, <2>1, Markers DEF Graphs
  <2> QED BY <2>2, <2>3 DEF Graphs, Holds
<1>7. Counts(s, r)' BY <1>1 DEF Counts
<1> QED BY <1>4, <1>5, <1>6, <1>7 DEF LaneInv

LEMMA AnswerIs ==
  ASSUME IInv, NEW s \in Stages, NEW r \in Replicas, phase = "poll", busy[s][r] # "none", RightAnswer(s, r)
  PROVE  /\ reply[s][r] \notin {Nothing, Failed} /\ Outstanding(s, r) \in MicroBatches
         /\ busy[s][r] = "forward" =>
              /\ reply[s][r].artifact = Output(s, <<r, Outstanding(s, r)>>)
              /\ Outstanding(s, r) < next_fwd[s][r]
         /\ busy[s][r] = "backward" => reply[s][r].artifact = Gradient(s, <<r, Outstanding(s, r)>>)
<1>1. reply[s][r].kind = "Artifact" /\ reply[s][r].micro_batch = Outstanding(s, r) BY DEF RightAnswer
<1>2. reply[s][r] \notin {Nothing, Failed} BY <1>1, Markers
<1>3. Expected(s, r) = busy[s][r] /\ busy[s][r] \in Work BY CountTypes DEF Expected
<1>4. Linked(s, r) BY DEF IInv, LaneInv
<1>5. reply[s][r] \in Artifacts(busy[s][r], s, r) BY <1>2, <1>3, <1>4 DEF Linked, Answering
<1>6. PICK b \in MicroBatches :
        reply[s][r] = [kind |-> "Artifact", micro_batch |-> b,
                       artifact |-> IF busy[s][r] = "forward" THEN Output(s, <<r, b>>) ELSE Gradient(s, <<r, b>>)]
  BY <1>5 DEF Artifacts
<1>7. b = Outstanding(s, r) BY <1>1, <1>6
<1>8. busy[s][r] = "forward" => Outstanding(s, r) < next_fwd[s][r] BY CountTypes DEF Outstanding
<1> QED BY <1>2, <1>3, <1>6, <1>7, <1>8

LEMMA PollAnswerKeeps ==
  ASSUME IInv, NEW s \in Stages, NEW r \in Replicas, PollAnswer(s, r)
  PROVE  IInv'
<1> PICK b : b = Outstanding(s, r) OBVIOUS
<1> PICK a : a = reply[s][r].artifact OBVIOUS
<1>1. /\ phase = "poll" /\ busy[s][r] # "none" /\ RightAnswer(s, r) /\ NextLane(s, r, "loop")
      /\ forward' = (IF busy[s][r] = "forward" THEN [forward EXCEPT ![<<r, b, s>>] = a] ELSE forward)
      /\ backward' = (IF busy[s][r] = "backward" THEN [backward EXCEPT ![<<r, b, s>>] = a] ELSE backward)
      /\ busy' = [busy EXCEPT ![s][r] = "none"] /\ reply' = [reply EXCEPT ![s][r] = Nothing]
      /\ UNCHANGED <<sending, step, next_fwd, next_bwd, inbox, stageVars>>
  BY DEF PollAnswer, NextToPoll
<1>2. /\ reply[s][r] \notin {Nothing, Failed} /\ b \in MicroBatches
      /\ busy[s][r] = "forward" => a = Output(s, <<r, b>>) /\ b < next_fwd[s][r]
      /\ busy[s][r] = "backward" => a = Gradient(s, <<r, b>>)
  BY <1>1, AnswerIs
<1>3. /\ at' \in Stages /\ lane' \in Replicas /\ phase' \in {"poll", "loop"} BY <1>1, ScanGoesOn
<1>4. /\ busy' \in [Stages -> [Replicas -> Work \cup {"none"}]] /\ busy'[s][r] = "none"
      /\ \A t \in Stages, q \in Replicas : t # s \/ q # r => busy'[t][q] = busy[t][q]
  <2>1. busy \in [Stages -> [Replicas -> Work \cup {"none"}]] BY DEF IInv, Shapes
  <2> QED BY <1>1, <2>1, OneLane
<1>5. /\ Lanes(reply)' /\ reply'[s][r] = Nothing
      /\ \A t \in Stages, q \in Replicas : t # s \/ q # r => reply'[t][q] = reply[t][q]
  <2>1. Lanes(reply) BY DEF IInv, Shapes
  <2> QED BY <1>1, <2>1 DEF Lanes
<1>6. /\ (forward = [x \in Slots |-> forward[x]])' /\ (backward = [x \in Slots |-> backward[x]])'
      /\ \A x \in Slots : /\ forward'[x] = forward[x] \/ (busy[s][r] = "forward" /\ x = <<r, b, s>> /\ forward'[x] = a)
                          /\ backward'[x] = backward[x] \/ (busy[s][r] = "backward" /\ x = <<r, b, s>> /\ backward'[x] = a)
  <2>1. forward = [x \in Slots |-> forward[x]] /\ backward = [x \in Slots |-> backward[x]] BY DEF IInv, Shapes
  <2>2. <<r, b, s>> \in Slots BY <1>2, ArtifactsMade
  <2> QED BY <1>1, <2>1, <2>2
<1> USE DEF stageVars, modelVars
<1>7. Shapes'
  <2>1. Shapes BY DEF IInv
  <2>2. phase' \in Phases /\ step' \in Nat /\ sending' \in Work \cup {"none"} BY <1>1, <1>3, <2>1 DEF Shapes
  <2>3. /\ Lanes(doing)' /\ Lanes(answer)'
        /\ (fate = [t \in Stages |-> fate[t]])' /\ (gradients = [t \in Stages |-> gradients[t]])'
        /\ pending' \in [Stages -> [Replicas -> Seq(Batch)]] /\ inbox' \in [Stages -> [Replicas -> Seq(Command)]]
        /\ next_fwd' \in [Stages -> [Replicas -> Nat]] /\ next_bwd' \in [Stages -> [Replicas -> Nat]]
    BY <1>1, <2>1 DEF Shapes, Lanes
  <2> QED BY <1>3, <1>4, <1>5, <1>6, <2>2, <2>3 DEF Shapes
<1>8. Known'
  <2> SUFFICES ASSUME NEW t \in Stages, NEW x \in Batch
               PROVE  /\ forward'[<<x[1], x[2], t>>] # Nothing =>
                           forward'[<<x[1], x[2], t>>] = Output(t, x) /\ x[2] < next_fwd[t][x[1]]
                      /\ backward'[<<x[1], x[2], t>>] # Nothing => backward'[<<x[1], x[2], t>>] = Gradient(t, x)
    BY <1>1 DEF Known
  <2>1. PICK q \in Replicas, d \in MicroBatches : x = <<q, d>> BY DEF Batch
  <2>2. Known BY <1>1 DEF IInv
  <2>3. /\ forward[<<q, d, t>>] # Nothing => forward[<<q, d, t>>] = Output(t, x) /\ d < next_fwd[t][q]
        /\ backward[<<q, d, t>>] # Nothing => backward[<<q, d, t>>] = Gradient(t, x)
    BY <2>1, <2>2 DEF Known
  <2>4. <<q, d, t>> \in Slots BY ArtifactsMade
  <2>5. <<q, d, t>> = <<r, b, s>> => q = r /\ d = b /\ t = s OBVIOUS
  <2>6. forward'[<<q, d, t>>] # Nothing => forward'[<<q, d, t>>] = Output(t, x) /\ d < next_fwd[t][q]
    BY <1>2, <1>6, <2>1, <2>3, <2>4, <2>5
  <2>7. backward'[<<q, d, t>>] # Nothing => backward'[<<q, d, t>>] = Gradient(t, x)
    BY <1>2, <1>6, <2>1, <2>3, <2>4, <2>5
  <2> QED BY <2>1, <2>6, <2>7
<1>9. Position'
  <2>1. Position BY <1>1 DEF IInv
  <2> QED BY <1>1, <1>3, <2>1 DEF Position, Between
<1>10. ASSUME NEW t \in Stages, NEW q \in Replicas, t # s \/ q # r PROVE LaneInv(t, q)'
  <2>1. Expected(t, q)' = Expected(t, q) BY <1>1, <1>3, <1>4, <1>10 DEF Expected
  <2> QED BY <1>1, <1>3, <1>4, <1>5, <1>10, <2>1, LaneStays DEF IInv, Untouched
<1>11. LaneInv(s, r)'
  <2>1. Expected(s, r)' = "none" BY <1>3, <1>4 DEF Expected
  <2> QED BY <1>1, <1>2, <1>4, <1>5, <2>1, ReadLane
<1>12. GradientsFitGraphs' BY <1>1 DEF IInv, GradientsFitGraphs
<1>13. \A t \in Stages, q \in Replicas : LaneInv(t, q)' BY <1>10, <1>11
<1> QED BY <1>7, <1>8, <1>9, <1>12, <1>13 DEF IInv

-----------------------------------------------------------------------------
(* The steps of the weights                                                *)

LEMMA StepIsFit ==
  ASSUME Shapes
  PROVE  StepCommand \in Command /\ StepCommand.kind = "step"
<1>1. step + 1 \in Nat BY DEF Shapes
<1> QED BY <1>1 DEF StepCommand, Command

\* Between batches the driver waits for a step or for nothing.
LEMMA AtRest ==
  ASSUME IInv, phase \in Between, NEW s \in Stages, NEW r \in Replicas
  PROVE  busy[s][r] = "none"
BY DEF IInv, Position, Between

LEMMA SendStepKeeps == ASSUME IInv, SendStep PROVE IInv'
<1> PICK s : s = at OBVIOUS
<1> PICK r : r = lane OBVIOUS
<1> PICK c : c = StepCommand OBVIOUS
<1>1. /\ phase = "step" /\ UNCHANGED <<sending, step, workVars, reply, stageVars>>
      /\ \/ Sent(s, r, c) /\ NextLane(s, r, "await")
         \/ Abandon /\ (Sent(s, r, c) \/ UNCHANGED inbox)
  BY DEF SendStep, Unsent
<1>2. s \in Stages /\ r \in Replicas BY DEF IInv, Shapes
<1>3. c \in Command /\ c.kind = "step" BY StepIsFit DEF IInv
<1>4. Fit(c, s, r) BY <1>3 DEF Fit
<1>5. \A t \in Stages, q \in Replicas : busy[t][q] = "none" BY <1>1, AtRest DEF Between
<1>6. Expected(s, r) = "none" BY <1>1, <1>2, <1>5 DEF Expected, Before
<1>7. CASE Abandon /\ (Sent(s, r, c) \/ UNCHANGED inbox)
  <2>1. phase' = "failed" /\ UNCHANGED <<at, lane>> BY <1>7 DEF Abandon
  <2> QED BY <1>1, <1>2, <1>3, <1>4, <1>6, <1>7, <2>1, GivenUp
<1>8. CASE Sent(s, r, c) /\ NextLane(s, r, "await")
  <2>1. /\ inbox' \in [Stages -> [Replicas -> Seq(Command)]]
        /\ inbox'[s][r] = Append(inbox[s][r], c)
        /\ \A t \in Stages, q \in Replicas : t # s \/ q # r => inbox'[t][q] = inbox[t][q]
    BY <1>2, <1>3, <1>8, SentTo
  <2>2. /\ at' \in Stages /\ lane' \in Replicas /\ phase' \in {"step", "await"}
        /\ r + 1 < R => at' = s /\ lane' = r + 1 /\ phase' = "step"
        /\ r + 1 >= R => lane' = 0 /\ ((at' = s + 1 /\ phase' = "step") \/ (s + 1 = P /\ at' = 0 /\ phase' = "await"))
    BY <1>1, <1>2, <1>8, ScanGoesOn
  <2>3. UNCHANGED <<forward, backward, next_fwd, next_bwd, busy>> BY <1>1 DEF workVars
  <2>4. Expected(s, r)' = "step" BY <1>2, <1>5, <2>2, <2>3 DEF Expected, Before
  <2>5. ASSUME NEW t \in Stages, NEW q \in Replicas, t # s \/ q # r PROVE Expected(t, q)' = Expected(t, q)
    <3>1. busy[t][q] = "none" /\ busy'[t][q] = "none" BY <1>5, <2>3
    <3>2. CASE phase' = "step" BY <1>1, <1>2, <2>2, <2>5, <3>1, <3>2 DEF Expected, Before
    <3>3. CASE phase' = "await" BY <1>1, <1>2, <2>2, <2>5, <3>1, <3>3 DEF Expected, Before
    <3> QED BY <2>2, <3>2, <3>3
  <2> USE DEF stageVars, modelVars
  <2>6. Shapes'
    <3>1. Shapes BY DEF IInv
    <3> QED BY ZenonT(60), <1>1, <2>1, <2>2, <2>3, <3>1 DEF Shapes, Lanes
  <2>7. Known'
    <3>1. Known BY <1>1 DEF IInv
    <3> QED BY <2>3, <3>1 DEF Known
  <2>8. Position'
    <3>1. Position BY <1>1 DEF IInv
    <3> QED BY <1>1, <2>2, <2>3, <3>1 DEF Position, Between
  <2>9. ASSUME NEW t \in Stages, NEW q \in Replicas, t # s \/ q # r PROVE LaneInv(t, q)'
    BY <1>1, <2>1, <2>2, <2>3, <2>5, <2>9, LaneStays DEF IInv, Untouched
  <2>10. LaneInv(s, r)'
    <3>1. (Live(s) => OneCommand(s, r))' /\ Linked(s, r)'
      BY ZenonT(60), <1>1, <1>2, <1>3, <1>4, <1>6, <2>1, <2>4, AskedLane
    <3>2. Graphs(s, r) /\ Counts(s, r) BY <1>1, <1>2 DEF IInv, LaneInv
    <3>3. Graphs(s, r)' BY <1>1, <1>2, <1>5, <2>3, <3>2 DEF Graphs, Unused, Holds, Live
    <3>4. Counts(s, r)' BY <2>3, <3>2 DEF Counts
    <3> QED BY <3>1, <3>3, <3>4 DEF LaneInv
  <2>11. GradientsFitGraphs' BY <1>1 DEF IInv, GradientsFitGraphs
  <2>12. \A t \in Stages, q \in Replicas : LaneInv(t, q)' BY <2>9, <2>10
  <2> QED BY <2>6, <2>7, <2>8, <2>11, <2>12 DEF IInv
<1> QED BY <1>1, <1>7, <1>8

LEMMA AwaitStepKeeps == ASSUME IInv, AwaitStep PROVE IInv'
<1> PICK s : s = at OBVIOUS
<1> PICK r : r = lane OBVIOUS
<1>1. /\ phase = "await" /\ UNCHANGED <<sending, step, workVars, inbox, stageVars>>
      /\ reply' = [reply EXCEPT ![s][r] = Nothing]
      /\ (reply[s][r] = Stepped /\ NextLane(s, r, "absorb")) \/ Abandon
  BY DEF AwaitStep
<1>2. s \in Stages /\ r \in Replicas BY DEF IInv, Shapes
<1>3. /\ Lanes(reply)' /\ reply'[s][r] = Nothing
      /\ \A t \in Stages, q \in Replicas : t # s \/ q # r => reply'[t][q] = reply[t][q]
  <2>1. Lanes(reply) BY DEF IInv, Shapes
  <2> QED BY <1>1, <1>2, <2>1 DEF Lanes
<1> USE DEF stageVars, modelVars, workVars
<1>4. GradientsFitGraphs' BY <1>1 DEF IInv, GradientsFitGraphs
<1>5. CASE Abandon
  <2>1. phase' = "failed" /\ UNCHANGED <<at, lane>> BY <1>5 DEF Abandon
  <2>2. Shapes'
    <3>1. Shapes BY DEF IInv
    <3> QED BY SMTT(40), <1>1, <1>3, <2>1, <3>1 DEF Shapes, Lanes
  <2>3. ASSUME NEW t \in Stages, NEW q \in Replicas PROVE LaneInv(t, q)'
    BY <1>1, <2>1, LaneStays DEF IInv, Untouched
  <2> QED BY <1>4, <2>1, <2>2, <2>3 DEF IInv
<1>6. CASE reply[s][r] = Stepped /\ NextLane(s, r, "absorb")
  <2>1. /\ at' \in Stages /\ lane' \in Replicas /\ phase' \in {"await", "absorb"}
        /\ r + 1 < R => at' = s /\ lane' = r + 1 /\ phase' = "await"
        /\ r + 1 >= R => lane' = 0 /\ ((at' = s + 1 /\ phase' = "await") \/ (s + 1 = P /\ at' = 0 /\ phase' = "absorb"))
    BY <1>1, <1>2, <1>6, ScanGoesOn
  <2>2. \A t \in Stages, q \in Replicas : busy[t][q] = "none" BY <1>1, AtRest DEF Between
  <2>3. Expected(s, r)' = "none" BY <1>1, <1>2, <2>1, <2>2 DEF Expected, Before
  <2>4. ASSUME NEW t \in Stages, NEW q \in Replicas, t # s \/ q # r PROVE Expected(t, q)' = Expected(t, q)
    <3>1. busy[t][q] = "none" /\ busy'[t][q] = "none" BY <1>1, <2>2
    <3>2. CASE phase' = "await" BY <1>1, <1>2, <2>1, <2>4, <3>1, <3>2 DEF Expected, Before
    <3>3. CASE phase' = "absorb" BY <1>1, <1>2, <2>1, <2>4, <3>1, <3>3 DEF Expected, Before
    <3> QED BY <2>1, <3>2, <3>3
  <2>5. Shapes'
    <3>1. Shapes BY DEF IInv
    <3>2. phase' \in Phases /\ at' \in Stages /\ lane' \in Replicas BY <2>1
    <3>3. /\ step' \in Nat /\ sending' \in Work \cup {"none"}
          /\ (forward = [x \in Slots |-> forward[x]])' /\ (backward = [x \in Slots |-> backward[x]])'
          /\ next_fwd' \in [Stages -> [Replicas -> Nat]] /\ next_bwd' \in [Stages -> [Replicas -> Nat]]
          /\ busy' \in [Stages -> [Replicas -> Work \cup {"none"}]]
      BY <1>1, <3>1 DEF Shapes
    <3>4. /\ Lanes(doing)' /\ Lanes(answer)'
          /\ (fate = [t \in Stages |-> fate[t]])' /\ (gradients = [t \in Stages |-> gradients[t]])'
          /\ pending' \in [Stages -> [Replicas -> Seq(Batch)]] /\ inbox' \in [Stages -> [Replicas -> Seq(Command)]]
      BY <1>1, <3>1 DEF Shapes, Lanes
    <3> QED BY <1>3, <3>2, <3>3, <3>4 DEF Shapes
  <2>6. Known'
    <3>1. Known BY <1>1 DEF IInv
    <3> QED BY <1>1, <3>1 DEF Known
  <2>7. Position'
    <3>1. Position BY <1>1 DEF IInv
    <3>2. CASE phase' = "await" BY <1>1, <3>1, <3>2 DEF Position, Between
    <3>3. CASE phase' = "absorb" BY <1>1, <1>2, <2>1, <3>1, <3>3 DEF Position, Between
    <3> QED BY <2>1, <3>2, <3>3
  <2>8. ASSUME NEW t \in Stages, NEW q \in Replicas, t # s \/ q # r PROVE LaneInv(t, q)'
    BY <1>1, <1>3, <2>1, <2>4, <2>8, LaneStays DEF IInv, Untouched
  <2>9. LaneInv(s, r)'
    <3>1. reply[s][r] \notin {Nothing, Failed} BY <1>6, Markers
    <3> QED BY <1>1, <1>2, <1>3, <2>2, <2>3, <3>1, ReadLane
  <2>10. \A t \in Stages, q \in Replicas : LaneInv(t, q)' BY <2>8, <2>9
  <2> QED BY <1>4, <2>5, <2>6, <2>7, <2>10 DEF IInv
<1> QED BY <1>1, <1>5, <1>6

-----------------------------------------------------------------------------
(* Steps of a stage                                                        *)

StageShapes ==
  /\ inbox \in [Stages -> [Replicas -> Seq(Command)]]
  /\ Lanes(reply) /\ Lanes(doing) /\ Lanes(answer)
  /\ fate = [s \in Stages |-> fate[s]] /\ gradients = [s \in Stages |-> gradients[s]]
  /\ pending \in [Stages -> [Replicas -> Seq(Batch)]]

LEMMA StagesShaped == ASSUME IInv PROVE StageShapes
<1>1. Shapes BY DEF IInv
<1> QED BY <1>1 DEF Shapes, StageShapes

LEMMA StageMoves ==
  ASSUME IInv, UNCHANGED <<scanVars, step, workVars>>, StageShapes', NEW s \in Stages,
         \A r \in Replicas : LaneInv(s, r)',
         \A t \in Stages, r \in Replicas : t # s =>
           /\ inbox'[t][r] = inbox[t][r] /\ reply'[t][r] = reply[t][r] /\ doing'[t][r] = doing[t][r]
           /\ answer'[t][r] = answer[t][r] /\ pending'[t][r] = pending[t][r] /\ fate'[t] = fate[t],
         GradientsFitGraphs'
  PROVE  IInv'
<1> USE DEF scanVars, workVars
<1>1. Shapes'
  <2>1. Shapes BY DEF IInv
  <2> QED BY <2>1 DEF Shapes, StageShapes
<1>2. ASSUME phase # "failed" PROVE Known'
  <2>1. Known BY <1>2 DEF IInv
  <2> QED BY <2>1 DEF Known
<1>3. ASSUME phase # "failed" PROVE Position'
  <2>1. Position BY <1>3 DEF IInv
  <2> QED BY <2>1 DEF Position, CanSend
<1>4. ASSUME NEW t \in Stages, NEW r \in Replicas, t # s PROVE LaneInv(t, r)'
  <2>1. Expected(t, r)' = Expected(t, r) BY DEF Expected, Before
  <2> QED BY <1>4, <2>1, LaneStays DEF IInv, Untouched
<1>5. \A t \in Stages, r \in Replicas : LaneInv(t, r)' BY <1>4
<1> QED BY <1>1, <1>2, <1>3, <1>5 DEF IInv

\* The other lanes of the stage.
LEMMA LaneWaits ==
  ASSUME IInv, UNCHANGED <<scanVars, step, workVars, fate>>, NEW s \in Stages, NEW r \in Replicas,
         inbox'[s][r] = inbox[s][r], reply'[s][r] = reply[s][r], doing'[s][r] = doing[s][r],
         answer'[s][r] = answer[s][r], pending'[s][r] = pending[s][r]
  PROVE  LaneInv(s, r)'
<1> USE DEF scanVars, workVars
<1>1. Expected(s, r)' = Expected(s, r) BY DEF Expected, Before
<1> QED BY <1>1, LaneStays DEF IInv, Untouched

\* A stage whose journey is over does no harm.
LEMMA StageIsOver ==
  ASSUME IInv, UNCHANGED <<scanVars, step, workVars>>, NEW s \in Stages, NEW r \in Replicas,
         fate'[s] \notin {"starting", "running"},
         reply'[s][r] = reply[s][r]
           \/ (phase # "failed" => Expected(s, r) # "none" /\ Answering(reply'[s][r], Expected(s, r), s, r))
  PROVE  LaneInv(s, r)'
<1> USE DEF scanVars, workVars
<1>1. Expected(s, r)' = Expected(s, r) BY DEF Expected, Before
<1>2. ~Live(s)' BY DEF Live
<1>3. ASSUME phase # "failed" PROVE Linked(s, r)' /\ Counts(s, r)'
  <2>1. Linked(s, r) /\ Counts(s, r) BY <1>3 DEF IInv, LaneInv
  <2> QED BY <1>1, <1>2, <1>3, <2>1 DEF Linked, Counts, Answering, Artifacts
<1> QED BY <1>2, <1>3 DEF LaneInv, Graphs

LEMMA StartStageKeeps == ASSUME IInv, NEW s \in Stages, StartStage(s) PROVE IInv'
<1>1. /\ fate[s] = "starting" /\ fate' \in {[fate EXCEPT ![s] = "running"], [fate EXCEPT ![s] = "over"]}
      /\ UNCHANGED <<scanVars, step, workVars, inbox, reply, doing, answer, modelVars>>
  BY DEF StartStage
<1>2. StageShapes BY StagesShaped
<1>3. /\ fate'[s] \in {"running", "over"} /\ fate' = [t \in Stages |-> fate'[t]]
      /\ \A t \in Stages : t # s => fate'[t] = fate[t]
  BY <1>1, <1>2 DEF StageShapes
<1> USE DEF modelVars
<1>4. StageShapes' BY <1>1, <1>2, <1>3 DEF StageShapes, Lanes
<1>5. ASSUME NEW r \in Replicas PROVE LaneInv(s, r)'
  <2>1. CASE fate'[s] = "over" BY <1>1, <2>1, StageIsOver
  <2>2. CASE fate'[s] = "running"
    <3>1. Live(s)' /\ Live(s) BY <1>1, <2>2 DEF Live
    <3>2. Expected(s, r)' = Expected(s, r) BY <1>1 DEF Expected, Before, scanVars, workVars
    <3>3. LaneInv(s, r) BY DEF IInv
    <3>4. OneCommand(s, r)' BY <1>1, <3>1, <3>3 DEF LaneInv, OneCommand, Fit, Answering, Artifacts
    <3>5. ASSUME phase # "failed" PROVE Linked(s, r)' /\ Graphs(s, r)' /\ Counts(s, r)'
      <4>1. Linked(s, r)'
        BY <1>1, <3>1, <3>2, <3>3, <3>5 DEF LaneInv, Linked, Answering, Artifacts, Asked, Outstanding, workVars
      <4>2. Graphs(s, r)' BY <1>1, <3>1, <3>3, <3>5 DEF LaneInv, Graphs, Unused, Holds, workVars
      <4>3. Counts(s, r)' BY <1>1, <3>3, <3>5 DEF LaneInv, Counts, workVars
      <4> QED BY <4>1, <4>2, <4>3
    <3> QED BY <1>1, <3>4, <3>5 DEF LaneInv, scanVars
  <2> QED BY <1>3, <2>1, <2>2
<1>6. GradientsFitGraphs' BY <1>1 DEF IInv, GradientsFitGraphs
<1> QED BY <1>1, <1>3, <1>4, <1>5, <1>6, StageMoves

LEMMA ReadCommandsKeeps == ASSUME IInv, NEW s \in Stages, ReadCommands(s) PROVE IInv'
<1>1. /\ fate[s] = "running" /\ \A r \in Replicas : doing[s][r] = Nothing /\ inbox[s][r] # <<>>
      /\ inbox' = [inbox EXCEPT ![s] = [r \in Replicas |-> Tail(inbox[s][r])]]
      /\ \/ doing' = [doing EXCEPT ![s] = [r \in Replicas |-> Head(inbox[s][r])]] /\ UNCHANGED fate
         \/ fate' = [fate EXCEPT ![s] = "mismatched"] /\ UNCHANGED doing
      /\ UNCHANGED <<scanVars, step, workVars, reply, answer, modelVars>>
  BY DEF ReadCommands
<1>2. StageShapes BY StagesShaped
<1>3. /\ inbox' \in [Stages -> [Replicas -> Seq(Command)]]
      /\ \A r \in Replicas : inbox'[s][r] = Tail(inbox[s][r])
      /\ \A t \in Stages, r \in Replicas : t # s => inbox'[t][r] = inbox[t][r]
  <2>1. \A r \in Replicas : inbox[s][r] \in Seq(Command) BY CountTypes
  <2>2. [r \in Replicas |-> Tail(inbox[s][r])] \in [Replicas -> Seq(Command)] BY <1>1, <2>1
  <2>3. inbox \in [Stages -> [Replicas -> Seq(Command)]] BY <1>2 DEF StageShapes
  <2> QED BY <1>1, <2>2, <2>3
<1>4. /\ Lanes(doing)' /\ (fate = [t \in Stages |-> fate[t]])'
      /\ \A t \in Stages, r \in Replicas : t # s => doing'[t][r] = doing[t][r] /\ fate'[t] = fate[t]
  <2>1. CASE fate' = [fate EXCEPT ![s] = "mismatched"] /\ UNCHANGED doing
    BY <1>2, <2>1 DEF StageShapes, Lanes
  <2>2. CASE doing' = [doing EXCEPT ![s] = [r \in Replicas |-> Head(inbox[s][r])]] /\ UNCHANGED fate
    <3>1. doing = [t \in Stages |-> [r \in Replicas |-> doing[t][r]]] BY <1>2 DEF StageShapes, Lanes
    <3>2. doing' = [t \in Stages |-> IF t = s THEN [r \in Replicas |-> Head(inbox[s][r])] ELSE doing[t]]
      BY <2>2, <3>1
    <3>3. \A t \in Stages : doing'[t] = [r \in Replicas |-> doing'[t][r]] BY <3>1, <3>2
    <3>4. Lanes(doing)' BY <3>2, <3>3 DEF Lanes
    <3> QED BY <1>2, <2>2, <3>2, <3>4 DEF StageShapes
  <2> QED BY <1>1, <2>1, <2>2
<1> USE DEF modelVars
<1>5. StageShapes' BY <1>1, <1>2, <1>3, <1>4 DEF StageShapes, Lanes
<1>6. ASSUME NEW r \in Replicas PROVE LaneInv(s, r)'
  <2>1. CASE fate' = [fate EXCEPT ![s] = "mismatched"]
    <3>1. fate'[s] = "mismatched" BY <1>2, <2>1 DEF StageShapes
    <3> QED BY <1>1, <3>1, StageIsOver
  <2>2. CASE doing' = [doing EXCEPT ![s] = [q \in Replicas |-> Head(inbox[s][q])]] /\ UNCHANGED fate
    <3>1. Live(s) /\ Live(s)' BY <1>1, <2>2 DEF Live
    <3>2. OneCommand(s, r) BY <3>1 DEF IInv, LaneInv
    <3>3. inbox[s][r] \in Seq(Command) /\ inbox[s][r] # <<>> /\ doing[s][r] = Nothing /\ Len(inbox[s][r]) <= 1
      BY <1>1, <3>2, CountTypes DEF OneCommand
    <3>4. PICK c : c = inbox[s][r][1] OBVIOUS
    <3>5. c \in Command /\ Head(inbox[s][r]) = c /\ Tail(inbox[s][r]) = <<>> /\ c # Nothing
      <4>1. c \in Command /\ Head(inbox[s][r]) = c BY <3>3, <3>4
      <4>2. Tail(inbox[s][r]) = <<>> BY <3>3
      <4> QED BY <4>1, <4>2, CommandKinds
    <3>6. doing'[s][r] = c /\ inbox'[s][r] = <<>> BY <1>2, <1>3, <2>2, <3>5 DEF StageShapes, Lanes
    <3>7. answer[s][r] = Nothing /\ answer'[s][r] = Nothing /\ Fit(c, s, r) BY <1>1, <3>2, <3>3, <3>4 DEF OneCommand
    <3>8. Fit(c, s, r)' BY <1>1, <3>7 DEF Fit
    <3>9. OneCommand(s, r)' BY <3>5, <3>6, <3>7, <3>8 DEF OneCommand
    <3>10. ASSUME phase # "failed" PROVE Linked(s, r)' /\ Graphs(s, r)' /\ Counts(s, r)'
      <4>1. Linked(s, r) /\ Graphs(s, r) /\ Counts(s, r) BY <3>10 DEF IInv, LaneInv
      <4>2. Expected(s, r)' = Expected(s, r) BY <1>1 DEF Expected, Before, scanVars, workVars
      <4>3. reply[s][r] = Nothing /\ Expected(s, r) # "none" /\ Asked(c, s, r)
        BY <3>1, <3>3, <3>4, <4>1 DEF Linked
      <4>4. Asked(c, s, r)' BY <1>1, <4>2, <4>3 DEF Asked, Outstanding, workVars
      <4>5. Linked(s, r)' BY <1>1, <3>5, <3>6, <4>2, <4>3, <4>4 DEF Linked
      <4>6. /\ Unused(s, r, "forward")' = Unused(s, r, "forward")
            /\ Unused(s, r, "backward")' = Unused(s, r, "backward")
        BY <1>1, <3>3, <3>5, <3>6, <3>7 DEF Unused, workVars
      <4>7. Graphs(s, r)' BY <1>1, <3>1, <3>7, <4>1, <4>6 DEF Graphs, Holds, workVars
      <4>8. Counts(s, r)' BY <1>1, <4>1 DEF Counts, workVars
      <4> QED BY <4>5, <4>7, <4>8
    <3> QED BY <1>1, <3>9, <3>10 DEF LaneInv, scanVars
  <2> QED BY <1>1, <2>1, <2>2
<1>7. GradientsFitGraphs' BY <1>1 DEF IInv, GradientsFitGraphs
<1> QED BY SMTT(40), <1>1, <1>3, <1>4, <1>5, <1>6, <1>7, StageMoves

-----------------------------------------------------------------------------
(* What a stage computes                                                   *)

\* One graph more, and the oldest graph less.
LEMMA HoldsMore ==
  ASSUME NEW g \in Seq(Batch), NEW r, NEW from \in Nat, NEW to \in Nat, Holds(g, r, from, to)
  PROVE  Holds(Append(g, <<r, to>>), r, from, to + 1)
<1> DEFINE h == Append(g, <<r, to>>)
<1>1. Len(g) \in Nat /\ Len(g) = to - from /\ \A i \in 1 .. Len(g) : g[i] = <<r, from + i - 1>> BY DEF Holds
<1>2. Len(h) = Len(g) + 1 /\ (\A i \in 1 .. Len(g) : h[i] = g[i]) /\ h[Len(g) + 1] = <<r, to>> OBVIOUS
<1> HIDE DEF h
<1>3. Len(h) = (to + 1) - from BY <1>1, <1>2
<1>4. ASSUME NEW i \in 1 .. Len(h) PROVE h[i] = <<r, from + i - 1>>
  <2>1. CASE i \in 1 .. Len(g) BY <1>1, <1>2, <2>1
  <2>2. CASE i = Len(g) + 1
    <3>1. from + i - 1 = to BY <1>1, <2>2
    <3> QED BY <1>2, <2>2, <3>1
  <2>3. i \in 1 .. (Len(g) + 1) BY <1>2
  <2> QED BY <1>1, <2>1, <2>2, <2>3
<1> QED BY <1>3, <1>4 DEF Holds, h

LEMMA HoldsLess ==
  ASSUME NEW g \in Seq(Batch), NEW r, NEW from \in Nat, NEW to \in Nat, Holds(g, r, from, to), g # <<>>
  PROVE  Head(g) = <<r, from>> /\ Holds(Tail(g), r, from + 1, to)
<1> DEFINE h == Tail(g)
<1>1. Len(g) \in Nat /\ Len(g) = to - from /\ \A i \in 1 .. Len(g) : g[i] = <<r, from + i - 1>> BY DEF Holds
<1>2. Len(g) > 0 OBVIOUS
<1>3. g[1] = <<r, from>>
  <2>1. from + 1 - 1 = from OBVIOUS
  <2> QED BY <1>1, <1>2, <2>1
<1>4. Head(g) = <<r, from>> BY <1>2, <1>3
<1>5. Len(h) = Len(g) - 1 /\ \A i \in 1 .. (Len(g) - 1) : h[i] = g[i + 1] BY <1>2
<1> HIDE DEF h
<1>6. Len(h) = to - (from + 1) BY <1>1, <1>5
<1>7. ASSUME NEW i \in 1 .. Len(h) PROVE h[i] = <<r, (from + 1) + i - 1>>
  <2>1. i \in 1 .. (Len(g) - 1) /\ i + 1 \in 1 .. Len(g) BY <1>1, <1>5
  <2>2. from + (i + 1) - 1 = (from + 1) + i - 1 BY <2>1
  <2> QED BY <1>1, <1>5, <2>1, <2>2
<1> QED BY <1>4, <1>6, <1>7 DEF Holds, h

\* A lane that is executing: the driver waits for this command, and its graph is
\* still to be made or used.
LEMMA ExecutingLane ==
  ASSUME IInv, NEW s \in Stages, NEW r \in Replicas, NEW kind \in Work \cup {"step"}, ToExecute(s, r, kind)
  PROVE  /\ Live(s) /\ inbox[s][r] = <<>> /\ doing[s][r] \in Command /\ doing[s][r] # Nothing
         /\ doing[s][r].kind = kind /\ answer[s][r] = Nothing /\ Fit(doing[s][r], s, r)
         /\ kind \in Work => doing[s][r].micro_batch \in MicroBatches
         /\ phase # "failed" =>
              /\ reply[s][r] = Nothing /\ Expected(s, r) = kind
              /\ kind \in Work => busy[s][r] = kind /\ doing[s][r].micro_batch = Outstanding(s, r)
              /\ Holds(pending[s][r], r, next_bwd[s][r] - (IF kind = "backward" THEN 1 ELSE 0),
                                         next_fwd[s][r] - (IF kind = "forward" THEN 1 ELSE 0))
<1>1. /\ Live(s) /\ doing[s][r] # Nothing /\ doing[s][r].kind = kind /\ answer[s][r] = Nothing
  BY DEF ToExecute, Live
<1>2. inbox[s][r] = <<>> /\ doing[s][r] \in Command /\ Fit(doing[s][r], s, r)
  BY <1>1 DEF IInv, LaneInv, OneCommand
<1>3. kind \in Work => doing[s][r].micro_batch \in MicroBatches BY <1>1, <1>2, CommandKinds
<1>4. ASSUME phase # "failed"
      PROVE  /\ reply[s][r] = Nothing /\ Expected(s, r) = kind
             /\ kind \in Work => busy[s][r] = kind /\ doing[s][r].micro_batch = Outstanding(s, r)
             /\ kind = "step" => busy[s][r] = "none"
  <2>1. Linked(s, r) BY <1>4 DEF IInv, LaneInv
  <2>2. reply[s][r] = Nothing /\ Asked(doing[s][r], s, r) BY <1>1, <1>2, <2>1 DEF Linked
  <2>3. Expected(s, r) = kind BY <1>1, <2>2 DEF Asked
  <2>4. busy[s][r] \in Work \cup {"none"} BY CountTypes
  <2>5. kind \in Work => busy[s][r] = kind BY <2>3 DEF Expected
  <2>6. kind = "step" => busy[s][r] = "none" BY <2>3, <2>4 DEF Expected
  <2> QED BY <1>1, <2>2, <2>3, <2>5, <2>6 DEF Asked
<1>5. ASSUME phase # "failed"
      PROVE  Holds(pending[s][r], r, next_bwd[s][r] - (IF kind = "backward" THEN 1 ELSE 0),
                                     next_fwd[s][r] - (IF kind = "forward" THEN 1 ELSE 0))
  <2>1. Graphs(s, r) BY <1>5 DEF IInv, LaneInv
  <2>2. /\ Unused(s, r, "forward") = (IF kind = "forward" THEN 1 ELSE 0)
        /\ Unused(s, r, "backward") = (IF kind = "backward" THEN 1 ELSE 0)
    BY <1>1, <1>4, <1>5 DEF Unused
  <2> QED BY <1>1, <1>4, <1>5, <2>1, <2>2, Markers DEF Graphs
<1> QED BY <1>1, <1>2, <1>3, <1>4, <1>5

\* When it has an answer, the graphs are those of all it was sent, unless it failed.
LEMMA AnsweredLane ==
  ASSUME IInv, NEW s \in Stages, NEW r \in Replicas, NEW kind \in Work \cup {"step"}, ToExecute(s, r, kind),
         UNCHANGED <<scanVars, step, workVars, inbox, reply, doing, fate>>,
         answer'[s][r] # Nothing, Answering(answer'[s][r], kind, s, r),
         phase # "failed" /\ answer'[s][r] # Failed => Holds(pending'[s][r], r, next_bwd[s][r], next_fwd[s][r])
  PROVE  LaneInv(s, r)'
<1> USE DEF scanVars, workVars
<1>1. /\ Live(s) /\ inbox[s][r] = <<>> /\ doing[s][r] \in Command /\ doing[s][r] # Nothing
      /\ doing[s][r].kind = kind
      /\ phase # "failed" => reply[s][r] = Nothing
  BY ExecutingLane
<1>2. Live(s)' BY <1>1 DEF Live
<1>3. OneCommand(s, r)'
  <2>1. Len(inbox'[s][r]) = 0 BY <1>1
  <2>2. Answering(answer[s][r], doing[s][r].kind, s, r)' BY <1>1 DEF Answering, Artifacts
  <2> QED BY <1>1, <2>1, <2>2 DEF OneCommand
<1>4. ASSUME phase # "failed" PROVE Linked(s, r)' /\ Graphs(s, r)' /\ Counts(s, r)'
  <2>1. Linked(s, r) /\ Counts(s, r) BY <1>4 DEF IInv, LaneInv
  <2>2. Expected(s, r)' = Expected(s, r) BY DEF Expected, Before
  <2>3. Linked(s, r)' BY <1>1, <1>2, <1>4, <2>1, <2>2 DEF Linked, Asked, Outstanding
  <2>4. Unused(s, r, "forward")' = 0 /\ Unused(s, r, "backward")' = 0 BY <1>1 DEF Unused
  <2>5. next_bwd[s][r] - 0 = next_bwd[s][r] /\ next_fwd[s][r] - 0 = next_fwd[s][r] BY CountTypes
  <2>6. Graphs(s, r)' BY <1>4, <2>4, <2>5 DEF Graphs, Holds
  <2> QED BY <2>1, <2>3, <2>6 DEF Counts
<1> QED BY <1>3, <1>4 DEF LaneInv

\* One lane, or all of them, have an answer.
LEMMA AnswerOf ==
  ASSUME StageShapes, NEW s \in Stages, NEW r \in Replicas, NEW v, Answers(s, r, v)
  PROVE  /\ Lanes(answer)' /\ answer'[s][r] = v
         /\ \A t \in Stages, q \in Replicas : t # s \/ q # r => answer'[t][q] = answer[t][q]
<1>1. Lanes(answer) BY DEF StageShapes
<1> QED BY <1>1 DEF Lanes, Answers

LEMMA AnswersOf ==
  ASSUME StageShapes, NEW s \in Stages, NEW v, answer' = [answer EXCEPT ![s] = [r \in Replicas |-> v]]
  PROVE  /\ Lanes(answer)' /\ \A r \in Replicas : answer'[s][r] = v
         /\ \A t \in Stages, q \in Replicas : t # s => answer'[t][q] = answer[t][q]
<1>1. answer = [t \in Stages |-> [r \in Replicas |-> answer[t][r]]] BY DEF StageShapes, Lanes
<1>2. answer' = [t \in Stages |-> IF t = s THEN [r \in Replicas |-> v] ELSE answer[t]] BY <1>1
<1>3. \A t \in Stages : answer'[t] = [r \in Replicas |-> answer'[t][r]] BY <1>1, <1>2
<1>4. Lanes(answer)' BY <1>2, <1>3 DEF Lanes
<1> QED BY <1>2, <1>4

LEMMA MarkersAnswer ==
  ASSUME NEW s, NEW r, NEW kind
  PROVE  Answering(Failed, kind, s, r) /\ (kind = "step" => Answering(Stepped, kind, s, r))
BY DEF Answering

LEMMA MadeByAnswers ==
  ASSUME NEW s \in Stages, NEW r \in Replicas, NEW kind \in Work, NEW b \in MicroBatches,
         doing[s][r].micro_batch = b,
         NEW art, art = IF kind = "forward" THEN Output(s, <<r, b>>) ELSE Gradient(s, <<r, b>>)
  PROVE  Answering(MadeBy(s, r, art), kind, s, r) /\ MadeBy(s, r, art) # Nothing
<1>1. MadeBy(s, r, art) \in Artifacts(kind, s, r) BY DEF MadeBy, Artifacts
<1>2. MadeBy(s, r, art).kind = "Artifact" BY DEF MadeBy
<1> QED BY <1>1, <1>2, Markers DEF Answering

LEMMA OpForwardKeeps ==
  ASSUME IInv, NEW s \in Stages, NEW r \in Replicas, OpForward(s, r)
  PROVE  IInv'
<1> PICK b : b = doing[s][r].micro_batch OBVIOUS
<1>1. /\ ToExecute(s, r, "forward") /\ UNCHANGED <<scanVars, step, workVars, inbox, reply, doing, fate, gradients>>
      /\ pending' = [pending EXCEPT ![s][r] = Append(pending[s][r], doing[s][r].artifact.of)]
      /\ \/ Answers(s, r, MadeBy(s, r, Output(s, doing[s][r].artifact.of)))
         \/ Answers(s, r, Failed)
  BY DEF OpForward
<1>2. /\ doing[s][r].kind = "forward" /\ Fit(doing[s][r], s, r) /\ b \in MicroBatches
      /\ phase # "failed" =>
           /\ b = next_fwd[s][r] - 1 /\ Holds(pending[s][r], r, next_bwd[s][r] - 0, next_fwd[s][r] - 1)
  <2>1. phase # "failed" => busy[s][r] = "forward" /\ b = Outstanding(s, r)
    BY <1>1, ExecutingLane
  <2>2. phase # "failed" => b = next_fwd[s][r] - 1 BY <2>1 DEF Outstanding
  <2>3. phase # "failed" => Holds(pending[s][r], r, next_bwd[s][r] - 0, next_fwd[s][r] - 1)
    BY <1>1, ExecutingLane
  <2> QED BY <1>1, <2>2, <2>3, ExecutingLane
<1>3. doing[s][r].artifact.of = <<r, b>> BY <1>2 DEF Fit
<1>4. StageShapes BY StagesShaped
<1>5. <<r, b>> \in Batch BY <1>2, ArtifactsMade
<1>6. /\ pending' \in [Stages -> [Replicas -> Seq(Batch)]]
      /\ pending'[s][r] = Append(pending[s][r], <<r, b>>)
      /\ \A t \in Stages, q \in Replicas : t # s \/ q # r => pending'[t][q] = pending[t][q]
  <2>1. pending \in [Stages -> [Replicas -> Seq(Batch)]] BY <1>4 DEF StageShapes
  <2>2. Append(pending[s][r], <<r, b>>) \in Seq(Batch) BY SMTT(40), <1>5, <2>1
  <2>3. pending' = [pending EXCEPT ![s][r] = Append(pending[s][r], <<r, b>>)] BY <1>1, <1>3
  <2> QED BY SMTT(40), <2>1, <2>2, <2>3, OneLane
<1> PICK v : v \in {MadeBy(s, r, Output(s, <<r, b>>)), Failed} /\ Answers(s, r, v)
  BY <1>1, <1>3
<1>7. /\ Lanes(answer)' /\ answer'[s][r] = v
      /\ \A t \in Stages, q \in Replicas : t # s \/ q # r => answer'[t][q] = answer[t][q]
  BY <1>4, AnswerOf
<1>8. v # Nothing /\ Answering(v, "forward", s, r) BY <1>2, MadeByAnswers, MarkersAnswer, Markers
<1>9. StageShapes'
  <2>1. UNCHANGED <<inbox, reply, doing, fate, gradients>> BY <1>1
  <2> QED BY ZenonT(60), <1>4, <1>6, <1>7, <2>1 DEF StageShapes, Lanes
<1>10. ASSUME phase # "failed" PROVE Holds(pending'[s][r], r, next_bwd[s][r], next_fwd[s][r])
  <2>1. next_bwd[s][r] \in Nat /\ next_fwd[s][r] \in Nat /\ pending[s][r] \in Seq(Batch) BY CountTypes
  <2>2. b \in Nat /\ b = next_fwd[s][r] - 1 BY <1>2, <1>10
  <2>3. Holds(pending[s][r], r, next_bwd[s][r], b)
    <3>1. next_bwd[s][r] - 0 = next_bwd[s][r] BY <2>1
    <3> QED BY <1>2, <1>10, <3>1
  <2>4. Holds(Append(pending[s][r], <<r, b>>), r, next_bwd[s][r], b + 1) BY <2>1, <2>2, <2>3, HoldsMore
  <2>5. b + 1 = next_fwd[s][r] BY SMTT(40), <2>1, <2>2
  <2> QED BY <1>6, <2>4, <2>5
<1>11. LaneInv(s, r)' BY <1>1, <1>7, <1>8, <1>10, AnsweredLane
<1>12. ASSUME NEW q \in Replicas PROVE LaneInv(s, q)'
  <2>1. CASE q # r
    <3>1. UNCHANGED <<scanVars, step, workVars, fate>> BY <1>1
    <3>2. inbox'[s][q] = inbox[s][q] /\ reply'[s][q] = reply[s][q] /\ doing'[s][q] = doing[s][q] BY <1>1
    <3>3. answer'[s][q] = answer[s][q] /\ pending'[s][q] = pending[s][q] BY <1>6, <1>7, <2>1
    <3> QED BY <3>1, <3>2, <3>3, LaneWaits
  <2> QED BY <1>11, <2>1
<1>13. GradientsFitGraphs' BY <1>1 DEF IInv, GradientsFitGraphs
<1>14. UNCHANGED <<scanVars, step, workVars>> BY <1>1
<1>15. \A t \in Stages, q \in Replicas : t # s =>
        /\ inbox'[t][q] = inbox[t][q] /\ reply'[t][q] = reply[t][q] /\ doing'[t][q] = doing[t][q]
        /\ answer'[t][q] = answer[t][q] /\ pending'[t][q] = pending[t][q] /\ fate'[t] = fate[t]
  BY SMTT(40), <1>1, <1>6, <1>7
<1> QED BY <1>9, <1>12, <1>13, <1>14, <1>15, StageMoves

LEMMA OpBackwardKeeps ==
  ASSUME IInv, NEW s \in Stages, NEW r \in Replicas, OpBackward(s, r)
  PROVE  IInv'
<1> PICK b : b = doing[s][r].micro_batch OBVIOUS
<1> PICK a : a = doing[s][r].artifact OBVIOUS
<1>1. /\ ToExecute(s, r, "backward") /\ UNCHANGED <<scanVars, step, workVars, inbox, reply, doing, fate>>
      /\ pending[s][r] # <<>> /\ pending' = [pending EXCEPT ![s][r] = Tail(pending[s][r])]
      /\ gradients' = [gradients EXCEPT ![s] = gradients[s] \cup {[graph |-> Head(pending[s][r]), from |-> a]}]
      /\ \/ Answers(s, r, MadeBy(s, r, Gradient(s, a.of)))
         \/ Answers(s, r, Failed)
  BY DEF OpBackward, UsedGraph
<1>2. /\ doing[s][r].kind = "backward" /\ Fit(doing[s][r], s, r) /\ b \in MicroBatches
      /\ phase # "failed" =>
           /\ b = next_bwd[s][r] - 1 /\ Holds(pending[s][r], r, next_bwd[s][r] - 1, next_fwd[s][r] - 0)
  <2>1. phase # "failed" => busy[s][r] = "backward" /\ b = Outstanding(s, r)
    BY <1>1, ExecutingLane
  <2>2. phase # "failed" => b = next_bwd[s][r] - 1 BY <2>1 DEF Outstanding
  <2>3. phase # "failed" => Holds(pending[s][r], r, next_bwd[s][r] - 1, next_fwd[s][r] - 0)
    BY <1>1, ExecutingLane
  <2> QED BY <1>1, <2>2, <2>3, ExecutingLane
<1>3. /\ a.of = <<r, b>> /\ Head(pending[s][r]) = <<r, b>>
      /\ a = IF s + 1 = P THEN Output(s, <<r, b>>) ELSE Gradient(s + 1, <<r, b>>)
  BY <1>2 DEF Fit
<1>4. StageShapes BY StagesShaped
<1>5. /\ pending' \in [Stages -> [Replicas -> Seq(Batch)]]
      /\ pending'[s][r] = Tail(pending[s][r])
      /\ \A t \in Stages, q \in Replicas : t # s \/ q # r => pending'[t][q] = pending[t][q]
  <2>1. pending \in [Stages -> [Replicas -> Seq(Batch)]] BY <1>4 DEF StageShapes
  <2>2. Tail(pending[s][r]) \in Seq(Batch) BY SMTT(40), <1>1, <2>1
  <2> QED BY <1>1, <2>1, <2>2, OneLane
<1> PICK v : v \in {MadeBy(s, r, Gradient(s, <<r, b>>)), Failed} /\ Answers(s, r, v)
  BY <1>1, <1>3
<1>6. /\ Lanes(answer)' /\ answer'[s][r] = v
      /\ \A t \in Stages, q \in Replicas : t # s \/ q # r => answer'[t][q] = answer[t][q]
  BY <1>4, AnswerOf
<1>7. v # Nothing /\ Answering(v, "backward", s, r) BY <1>2, MadeByAnswers, MarkersAnswer, Markers
<1>8. /\ gradients' = [t \in Stages |-> gradients'[t]]
      /\ gradients'[s] = gradients[s] \cup {[graph |-> <<r, b>>, from |-> a]}
      /\ \A t \in Stages : t # s => gradients'[t] = gradients[t]
  BY <1>1, <1>3, <1>4 DEF StageShapes
<1>9. StageShapes'
  <2>1. UNCHANGED <<inbox, reply, doing, fate>> BY <1>1
  <2> QED BY SMTT(40), <1>4, <1>5, <1>6, <1>8, <2>1 DEF StageShapes, Lanes
<1>10. ASSUME phase # "failed" PROVE Holds(pending'[s][r], r, next_bwd[s][r], next_fwd[s][r])
  <2>1. next_bwd[s][r] \in Nat /\ next_fwd[s][r] \in Nat /\ pending[s][r] \in Seq(Batch) BY CountTypes
  <2>2. b \in Nat /\ b = next_bwd[s][r] - 1 BY <1>2, <1>10
  <2>3. Holds(pending[s][r], r, b, next_fwd[s][r])
    <3>1. next_fwd[s][r] - 0 = next_fwd[s][r] BY <2>1
    <3> QED BY <1>2, <1>10, <3>1
  <2>4. Holds(Tail(pending[s][r]), r, b + 1, next_fwd[s][r]) BY <1>1, <2>1, <2>2, <2>3, HoldsLess
  <2>5. b + 1 = next_bwd[s][r] BY SMTT(40), <2>1, <2>2
  <2> QED BY <1>5, <2>4, <2>5
<1>11. LaneInv(s, r)' BY <1>1, <1>6, <1>7, <1>10, AnsweredLane
<1>12. ASSUME NEW q \in Replicas PROVE LaneInv(s, q)'
  <2>1. CASE q # r
    <3>1. UNCHANGED <<scanVars, step, workVars, fate>> BY <1>1
    <3>2. inbox'[s][q] = inbox[s][q] /\ reply'[s][q] = reply[s][q] /\ doing'[s][q] = doing[s][q] BY <1>1
    <3>3. answer'[s][q] = answer[s][q] /\ pending'[s][q] = pending[s][q] BY <1>5, <1>6, <2>1
    <3> QED BY <3>1, <3>2, <3>3, LaneWaits
  <2> QED BY <1>11, <2>1
<1>13. GradientsFitGraphs'
  <2> SUFFICES ASSUME NEW t \in Stages, NEW g \in gradients'[t]
               PROVE g.from = IF t + 1 = P THEN Output(t, g.graph) ELSE Gradient(t + 1, g.graph)
    BY DEF GradientsFitGraphs
  <2>1. CASE g \in gradients[t] BY <2>1 DEF IInv, GradientsFitGraphs
  <2>2. CASE t = s /\ g = [graph |-> <<r, b>>, from |-> a] BY <1>3, <2>2
  <2> QED BY <1>8, <2>1, <2>2
<1>14. UNCHANGED <<scanVars, step, workVars>> BY <1>1
<1>15. \A t \in Stages, q \in Replicas : t # s =>
        /\ inbox'[t][q] = inbox[t][q] /\ reply'[t][q] = reply[t][q] /\ doing'[t][q] = doing[t][q]
        /\ answer'[t][q] = answer[t][q] /\ pending'[t][q] = pending[t][q] /\ fate'[t] = fate[t]
  BY SMTT(40), <1>1, <1>5, <1>6
<1> QED BY <1>9, <1>12, <1>13, <1>14, <1>15, StageMoves

\* One lane fails, and may take the graph of its backward with it.
LEMMA OpLosesGraphKeeps ==
  ASSUME IInv, NEW s \in Stages, NEW r \in Replicas, OpLosesGraph(s, r)
  PROVE  IInv'
<1>1. /\ ToExecute(s, r, "backward") /\ Answers(s, r, Failed)
      /\ UNCHANGED <<scanVars, step, workVars, inbox, reply, doing, fate, gradients>>
      /\ pending[s][r] # <<>> /\ pending' = [pending EXCEPT ![s][r] = Tail(pending[s][r])]
  BY DEF OpLosesGraph
<1>2. StageShapes BY StagesShaped
<1>3. /\ pending' \in [Stages -> [Replicas -> Seq(Batch)]]
      /\ \A t \in Stages, q \in Replicas : t # s \/ q # r => pending'[t][q] = pending[t][q]
  <2>1. pending \in [Stages -> [Replicas -> Seq(Batch)]] BY <1>2 DEF StageShapes
  <2>2. Tail(pending[s][r]) \in Seq(Batch) BY SMTT(40), <1>1, <2>1
  <2> QED BY <1>1, <2>1, <2>2, OneLane
<1>4. /\ Lanes(answer)' /\ answer'[s][r] = Failed
      /\ \A t \in Stages, q \in Replicas : t # s \/ q # r => answer'[t][q] = answer[t][q]
  BY <1>1, <1>2, AnswerOf
<1>5. StageShapes'
  <2>1. UNCHANGED <<inbox, reply, doing, fate, gradients>> BY <1>1
  <2> QED BY ZenonT(60), <1>2, <1>3, <1>4, <2>1 DEF StageShapes, Lanes
<1>6. LaneInv(s, r)' BY <1>1, <1>4, AnsweredLane, MarkersAnswer, Markers
<1>7. ASSUME NEW q \in Replicas PROVE LaneInv(s, q)'
  <2>1. CASE q # r BY <1>1, <1>3, <1>4, <2>1, LaneWaits
  <2> QED BY <1>6, <2>1
<1>8. GradientsFitGraphs' BY <1>1 DEF IInv, GradientsFitGraphs
<1>9. \A t \in Stages, q \in Replicas : t # s =>
        /\ inbox'[t][q] = inbox[t][q] /\ reply'[t][q] = reply[t][q] /\ doing'[t][q] = doing[t][q]
        /\ answer'[t][q] = answer[t][q] /\ pending'[t][q] = pending[t][q] /\ fate'[t] = fate[t]
  BY SMTT(40), <1>1, <1>3, <1>4
<1> QED BY <1>1, <1>5, <1>7, <1>8, <1>9, StageMoves

LEMMA OpRefusesKeeps ==
  ASSUME IInv, NEW s \in Stages, NEW r \in Replicas, OpRefuses(s, r)
  PROVE  IInv'
<1>1. /\ UNCHANGED <<scanVars, step, workVars, inbox, reply, doing, fate, modelVars>>
      /\ Answers(s, r, Failed)
  BY DEF OpRefuses
<1> PICK kind \in Work \cup {"step"} : ToExecute(s, r, kind) BY DEF OpRefuses
<1>2. StageShapes BY StagesShaped
<1>3. /\ Lanes(answer)' /\ answer'[s][r] = Failed
      /\ \A t \in Stages, q \in Replicas : t # s \/ q # r => answer'[t][q] = answer[t][q]
  BY <1>1, <1>2, AnswerOf
<1> USE DEF modelVars
<1>4. StageShapes' BY <1>1, <1>2, <1>3 DEF StageShapes, Lanes
<1>5. LaneInv(s, r)' BY <1>1, <1>3, AnsweredLane, MarkersAnswer, Markers
<1>6. ASSUME NEW q \in Replicas PROVE LaneInv(s, q)'
  <2>1. CASE q # r BY <1>1, <1>3, <2>1, LaneWaits
  <2> QED BY <1>5, <2>1
<1>7. GradientsFitGraphs' BY <1>1 DEF IInv, GradientsFitGraphs
<1>8. \A t \in Stages, q \in Replicas : t # s =>
        /\ inbox'[t][q] = inbox[t][q] /\ reply'[t][q] = reply[t][q] /\ doing'[t][q] = doing[t][q]
        /\ answer'[t][q] = answer[t][q] /\ pending'[t][q] = pending[t][q] /\ fate'[t] = fate[t]
  BY <1>1, <1>3
<1> QED BY <1>1, <1>4, <1>6, <1>7, <1>8, StageMoves

\* The step of a stage, or its refusal, answers all lanes and touches no graph.
LEMMA StepAnswered ==
  ASSUME IInv, NEW s \in Stages, \A r \in Replicas : ToExecute(s, r, "step"),
         UNCHANGED <<scanVars, step, workVars, inbox, reply, doing, fate, pending>>,
         NEW v \in {Stepped, Failed}, answer' = [answer EXCEPT ![s] = [r \in Replicas |-> v]],
         gradients' = gradients \/ gradients' = [gradients EXCEPT ![s] = {}]
  PROVE  IInv'
<1>1. StageShapes BY StagesShaped
<1>2. /\ Lanes(answer)' /\ \A r \in Replicas : answer'[s][r] = v
      /\ \A t \in Stages, q \in Replicas : t # s => answer'[t][q] = answer[t][q]
  BY <1>1, AnswersOf
<1>3. gradients' = [t \in Stages |-> gradients'[t]] /\ \A t \in Stages : gradients'[t] \in {gradients[t], {}}
  BY <1>1 DEF StageShapes
<1>4. StageShapes' BY <1>1, <1>2, <1>3 DEF StageShapes, Lanes
<1>5. ASSUME NEW r \in Replicas PROVE LaneInv(s, r)'
  <2>1. v # Nothing /\ Answering(v, "step", s, r) BY MarkersAnswer, Markers
  <2>2. ASSUME phase # "failed" PROVE Holds(pending[s][r], r, next_bwd[s][r], next_fwd[s][r])
    <3>1. Holds(pending[s][r], r, next_bwd[s][r] - 0, next_fwd[s][r] - 0) BY <2>2, ExecutingLane
    <3>2. next_bwd[s][r] - 0 = next_bwd[s][r] /\ next_fwd[s][r] - 0 = next_fwd[s][r] BY CountTypes
    <3> QED BY <3>1, <3>2
  <2> QED BY <1>2, <2>1, <2>2, AnsweredLane
<1>6. GradientsFitGraphs' BY <1>3 DEF IInv, GradientsFitGraphs
<1>7. \A t \in Stages, q \in Replicas : t # s =>
        /\ inbox'[t][q] = inbox[t][q] /\ reply'[t][q] = reply[t][q] /\ doing'[t][q] = doing[t][q]
        /\ answer'[t][q] = answer[t][q] /\ pending'[t][q] = pending[t][q] /\ fate'[t] = fate[t]
  BY <1>2
<1> QED BY <1>4, <1>5, <1>6, <1>7, StageMoves

LEMMA OpStepKeeps == ASSUME IInv, NEW s \in Stages, OpStep(s) PROVE IInv'
<1>1. /\ \A r \in Replicas : ToExecute(s, r, "step")
      /\ UNCHANGED <<scanVars, step, workVars, inbox, reply, doing, fate, pending>>
      /\ gradients' = [gradients EXCEPT ![s] = {}]
  BY DEF OpStep
<1>2. PICK v \in {Stepped, Failed} : answer' = [answer EXCEPT ![s] = [r \in Replicas |-> v]] BY DEF OpStep
<1> QED BY <1>1, <1>2, StepAnswered

LEMMA StepRefusedKeeps == ASSUME IInv, NEW s \in Stages, StepRefused(s) PROVE IInv'
<1>1. /\ \A r \in Replicas : ToExecute(s, r, "step")
      /\ UNCHANGED <<scanVars, step, workVars, inbox, reply, doing, fate, pending>>
      /\ gradients' = gradients /\ answer' = [answer EXCEPT ![s] = [r \in Replicas |-> Failed]]
  BY DEF StepRefused, modelVars
<1> QED BY <1>1, StepAnswered

LEMMA UploadReplyKeeps ==
  ASSUME IInv, NEW s \in Stages, NEW r \in Replicas, UploadReply(s, r)
  PROVE  IInv'
<1> PICK v : v = answer[s][r] OBVIOUS
<1>1. /\ fate[s] = "running" /\ v # Nothing
      /\ UNCHANGED <<scanVars, step, workVars, inbox, modelVars>>
      /\ reply' = [reply EXCEPT ![s][r] = v] \/ UNCHANGED reply
      /\ \/ /\ reply' = [reply EXCEPT ![s][r] = v] /\ UNCHANGED fate
            /\ answer' = [answer EXCEPT ![s][r] = Nothing] /\ doing' = [doing EXCEPT ![s][r] = Nothing]
         \/ fate' = [fate EXCEPT ![s] = "over"] /\ UNCHANGED <<answer, doing>>
  BY DEF UploadReply
<1>2. StageShapes BY StagesShaped
<1>3. Lanes(reply) /\ Lanes(doing) /\ Lanes(answer) /\ fate = [t \in Stages |-> fate[t]] BY <1>2 DEF StageShapes
<1>4. /\ Lanes(reply)' /\ reply'[s][r] \in {reply[s][r], v}
      /\ \A t \in Stages, q \in Replicas : t # s \/ q # r => reply'[t][q] = reply[t][q]
  <2>1. CASE reply' = [reply EXCEPT ![s][r] = v]
    <3>1. PICK f, g : f = reply /\ g = reply' OBVIOUS
    <3>2. g = [f EXCEPT ![s][r] = v] BY <2>1, <3>1
    <3>3. Lanes(f) BY <1>3, <3>1 DEF Lanes
    <3>4. /\ Lanes(g) /\ g[s][r] = v
          /\ \A t \in Stages, q \in Replicas : t # s \/ q # r => g[t][q] = f[t][q]
      BY <3>2, <3>3 DEF Lanes
    <3>5. Lanes(reply)' BY <3>1, <3>4 DEF Lanes
    <3> QED BY <3>1, <3>4, <3>5
  <2>2. CASE UNCHANGED reply BY <1>3, <2>2 DEF Lanes
  <2> QED BY <1>1, <2>1, <2>2
<1>5. /\ Lanes(doing)' /\ Lanes(answer)' /\ (fate = [t \in Stages |-> fate[t]])'
      /\ \A t \in Stages, q \in Replicas : t # s \/ q # r =>
           doing'[t][q] = doing[t][q] /\ answer'[t][q] = answer[t][q]
      /\ \A t \in Stages : t # s => fate'[t] = fate[t]
  <2>1. CASE /\ UNCHANGED fate
             /\ answer' = [answer EXCEPT ![s][r] = Nothing] /\ doing' = [doing EXCEPT ![s][r] = Nothing]
    <3>1. Lanes(answer)' /\ \A t \in Stages, q \in Replicas : t # s \/ q # r => answer'[t][q] = answer[t][q]
      BY ZenonT(60), <1>3, <2>1 DEF Lanes
    <3>2. Lanes(doing)' /\ \A t \in Stages, q \in Replicas : t # s \/ q # r => doing'[t][q] = doing[t][q]
      BY ZenonT(60), <1>3, <2>1 DEF Lanes
    <3> QED BY <1>3, <2>1, <3>1, <3>2
  <2>2. CASE fate' = [fate EXCEPT ![s] = "over"] /\ UNCHANGED <<answer, doing>> BY <1>3, <2>2 DEF Lanes
  <2> QED BY <1>1, <2>1, <2>2
<1> USE DEF modelVars
<1>6. StageShapes' BY <1>1, <1>2, <1>4, <1>5 DEF StageShapes
<1>7. OneCommand(s, r) BY <1>1 DEF IInv, LaneInv, Live
<1>8. /\ doing[s][r] # Nothing /\ inbox[s][r] = <<>>
      /\ Answering(v, doing[s][r].kind, s, r)
  BY <1>1, <1>7 DEF OneCommand
<1>9. ASSUME phase # "failed"
      PROVE  reply[s][r] = Nothing /\ Expected(s, r) # "none" /\ Answering(v, Expected(s, r), s, r)
  <2>1. Linked(s, r) /\ Live(s) BY <1>1, <1>9 DEF IInv, LaneInv, Live
  <2> QED BY <1>8, <2>1 DEF Linked, Asked
<1>10. CASE fate' = [fate EXCEPT ![s] = "over"] /\ UNCHANGED <<answer, doing>>
  <2>1. fate'[s] \notin {"starting", "running"} BY <1>3, <1>10
  <2>2. \A q \in Replicas : LaneInv(s, q)' BY <1>1, <1>4, <1>9, <2>1, StageIsOver
  <2>3. GradientsFitGraphs' BY <1>1 DEF IInv, GradientsFitGraphs
  <2> QED BY <1>1, <1>4, <1>5, <1>6, <2>2, <2>3, StageMoves
<1>11. CASE /\ reply' = [reply EXCEPT ![s][r] = v] /\ UNCHANGED fate
            /\ answer' = [answer EXCEPT ![s][r] = Nothing] /\ doing' = [doing EXCEPT ![s][r] = Nothing]
  <2>1. reply'[s][r] = v /\ answer'[s][r] = Nothing /\ doing'[s][r] = Nothing BY <1>3, <1>11 DEF Lanes
  <2>2. LaneInv(s, r)'
    <3>1. Expected(s, r)' = Expected(s, r) BY <1>1 DEF Expected, Before, scanVars, workVars
    <3>2. OneCommand(s, r)'
      <4>1. Len(inbox'[s][r]) = 0 /\ inbox'[s][r] = <<>> BY <1>1, <1>8
      <4> QED BY <2>1, <4>1 DEF OneCommand
    <3>3. ASSUME phase # "failed" PROVE Linked(s, r)' /\ Graphs(s, r)' /\ Counts(s, r)'
      <4>1. Linked(s, r) /\ Graphs(s, r) /\ Counts(s, r) /\ Live(s) BY <1>1, <3>3 DEF IInv, LaneInv, Live
      <4>2. (Answering(reply[s][r], Expected(s, r), s, r))'
        BY <1>9, <2>1, <3>1, <3>3 DEF Answering, Artifacts
      <4>3. Linked(s, r)' BY <1>1, <1>8, <1>9, <2>1, <3>1, <3>3, <4>2 DEF Linked
      <4>4. Graphs(s, r)'
        <5> SUFFICES ASSUME v # Failed PROVE Graphs(s, r)' BY <2>1 DEF Graphs
        <5>1. Unused(s, r, "forward") = 0 /\ Unused(s, r, "backward") = 0 BY <1>1, <1>8 DEF Unused
        <5>2. Unused(s, r, "forward")' = 0 /\ Unused(s, r, "backward")' = 0 BY <1>1, <1>8, <2>1 DEF Unused
        <5>3. Holds(pending[s][r], r, next_bwd[s][r] - 0, next_fwd[s][r] - 0)
          BY <1>9, <3>3, <4>1, <5>1, Markers DEF Graphs
        <5> QED BY <1>1, <5>2, <5>3 DEF Graphs, Holds, workVars
      <4>5. Counts(s, r)' BY <1>1, <4>1 DEF Counts, workVars
      <4> QED BY <4>3, <4>4, <4>5
    <3> QED BY <1>1, <3>2, <3>3 DEF LaneInv, scanVars
  <2>3. ASSUME NEW q \in Replicas PROVE LaneInv(s, q)'
    <3>1. CASE q # r BY <1>1, <1>4, <1>5, <1>11, <3>1, LaneWaits
    <3> QED BY <2>2, <3>1
  <2>4. GradientsFitGraphs' BY <1>1 DEF IInv, GradientsFitGraphs
  <2> QED BY <1>1, <1>4, <1>5, <1>6, <2>3, <2>4, StageMoves
<1> QED BY <1>1, <1>10, <1>11

-----------------------------------------------------------------------------
(* The theorem                                                             *)

LEMMA NextKeeps == IInv /\ [Next]_vars => IInv'
<1> SUFFICES ASSUME IInv, [Next]_vars PROVE IInv' OBVIOUS
<1>1. CASE Driver
  BY <1>1, BeginStepKeeps, DispatchEndsKeeps, LoopKeeps, SendStepKeeps, AwaitStepKeeps, AbsorbKeeps,
     SendWorkKeeps, SendWorkFailsKeeps, PollNothingKeeps, PollAnswerKeeps, PollFailsKeeps DEF Driver
<1>2. ASSUME NEW s \in Stages, Stage(s) PROVE IInv'
  BY <1>2, StartStageKeeps, ReadCommandsKeeps, OpForwardKeeps, OpBackwardKeeps, OpLosesGraphKeeps, OpStepKeeps,
     OpRefusesKeeps, StepRefusedKeeps, UploadReplyKeeps DEF Stage
<1>3. CASE UNCHANGED vars
  <2>1. /\ UNCHANGED <<workVars, inbox, reply, stageVars>> /\ UNCHANGED <<phase, at, lane, sending, step>>
    BY <1>3 DEF vars, scanVars
  <2>2. \A s \in Stages, r \in Replicas : Expected(s, r)' = Expected(s, r) BY <2>1 DEF Expected, Before, workVars
  <2>3. phase # "failed" => Position' BY <2>1 DEF IInv, Position, CanSend, workVars
  <2>4. Shapes BY DEF IInv
  <2> QED BY <2>1, <2>2, <2>3, <2>4, Unmoved DEF Shapes
<1> QED BY <1>1, <1>2, <1>3 DEF Next

\* GradientsFitGraphs: a stage of the pipeline uses in each backward pass the
\* graph of the micro-batch and replica whose gradient it was sent, and the
\* head its own output, for every length of the chain and of the batch, and also
\* after uploads, downloads, calls or whole journeys failed (op.rs, backward).
THEOREM StagesReverseTheirForwards == Spec => []GradientsFitGraphs
<1>1. IInv => GradientsFitGraphs BY DEF IInv
<1> QED BY <1>1, InitKeeps, NextKeeps, PTL DEF Spec

-----------------------------------------------------------------------------
(* The contract of a step                                                  *)

Held(graphs) == {graphs[i] : i \in DOMAIN graphs}
Used(s)      == {g.graph : g \in gradients[s]}

\* The weights of a stage are those of this step or, once it has stepped, of the
\* next, and then it holds nothing of this one.
Weights(s) ==
  /\ version[s] \in {step, step + 1}
  /\ (\A g \in gradients[s] : g.graph \in Batch) /\ lost[s] \subseteq Batch
  /\ \A r \in Replicas : \A x \in Held(pending[s][r]) : x[1] = r
  /\ version[s] > step => gradients[s] = {} /\ lost[s] = {} /\ \A r \in Replicas : pending[s][r] = <<>>

\* Where the driver is, the weights are.
Place(s) ==
  /\ phase = "collect" => gradients[s] = {} /\ lost[s] = {} /\ \A r \in Replicas : pending[s][r] = <<>>
  /\ phase \in {"collect", "dispatch", "poll", "loop"} => version[s] = step
  /\ phase = "absorb" => version[s] > step
  /\ \A r \in Replicas : /\ phase = "step" /\ ~Before(s, r) => version[s] = step
                         /\ phase = "await" /\ Before(s, r) => version[s] > step

\* A command that is still to be executed is due: nobody executed it before, and
\* the stage beside has done its part.
Due(c, s) ==
  /\ version[s] = step
  /\ c.kind = "forward"  => /\ c.artifact.of \notin Forwarded(s)
                            /\ s > 0 => c.artifact.of \in Forwarded(s - 1)
  /\ c.kind = "backward" => /\ c.artifact.of \notin Reversed(s)
                            /\ s + 1 < P => c.artifact.of \in Reversed(s + 1)
  /\ c.kind = "step"     => Batch \subseteq Reversed(s)

\* What is answered was done.
Done(a, s) ==
  /\ a = Stepped => version[s] > step
  /\ a.kind = "Artifact" => IF a.artifact.kind = "output" THEN a.artifact.of \in Forwarded(s)
                                                          ELSE a.artifact.of \in Reversed(s)

Progress(s, r) ==
  /\ Live(s) => /\ inbox[s][r] # <<>> => Due(inbox[s][r][1], s)
                /\ doing[s][r] # Nothing =>
                     IF answer[s][r] = Nothing THEN Due(doing[s][r], s) ELSE Done(answer[s][r], s)
  /\ reply[s][r] # Nothing => Done(reply[s][r], s)

\* What the driver knows was done, and it knows every gradient it has read.
Heard(s) ==
  \A x \in Batch :
    /\ forward[<<x[1], x[2], s>>] # Nothing => x \in Forwarded(s)
    /\ backward[<<x[1], x[2], s>>] # Nothing => x \in Reversed(s)
    /\ x[2] < next_bwd[s][x[1]] /\ (busy[s][x[1]] = "backward" => x[2] # Outstanding(s, x[1]))
         => backward[<<x[1], x[2], s>>] # Nothing

\* No graph is used, or lost, that was not asked for.
AskedFor(s) == /\ \A g \in gradients[s] : g.graph[2] < next_bwd[s][g.graph[1]]
               /\ \A x \in lost[s] : x[2] < next_bwd[s][x[1]]

StageInv(s) ==
  /\ Weights(s) /\ Place(s) /\ \A r \in Replicas : Progress(s, r)
  /\ phase \notin {"collect", "failed"} => Heard(s)
  /\ phase # "failed" => AskedFor(s)

Tables == version = [s \in Stages |-> version[s]] /\ lost = [s \in Stages |-> lost[s]]

CInv == Tables /\ \A s \in Stages : StageInv(s)

-----------------------------------------------------------------------------
(* What is forwarded and reversed                                          *)

LEMMA CachedIs == ASSUME NEW s PROVE Cached(s) = UNION {Held(pending[s][r]) : r \in Replicas}
BY DEF Cached, Held

\* As the weights stand, a stage has reversed what it has gradients of, or all.
LEMMA WorkIs ==
  ASSUME IInv, CInv, NEW s \in Stages
  PROVE  /\ step \in Nat /\ version[s] \in {step, step + 1}
         /\ version[s] = step => Reversed(s) = Used(s) /\ Forwarded(s) = Used(s) \cup Cached(s) \cup lost[s]
         /\ version[s] # step => Reversed(s) = Batch /\ Forwarded(s) = Batch
         /\ Cached(s) \subseteq Batch /\ Used(s) \subseteq Batch /\ lost[s] \subseteq Batch
         /\ Reversed(s) \subseteq Forwarded(s) /\ Forwarded(s) \subseteq Batch
<1>1. step \in Nat BY DEF IInv, Shapes
<1>2. Weights(s) BY DEF CInv, StageInv
<1>3. version[s] \in {step, step + 1} /\ Used(s) \subseteq Batch /\ lost[s] \subseteq Batch BY <1>2 DEF Weights, Used
<1>4. ASSUME NEW r \in Replicas PROVE Held(pending[s][r]) \subseteq Batch
  <2>1. pending[s][r] \in Seq(Batch) BY CountTypes
  <2> QED BY <2>1 DEF Held
<1>5. Cached(s) \subseteq Batch BY <1>4, CachedIs
<1>6. version[s] > step <=> version[s] # step BY <1>1, <1>3
<1>7. version[s] = step => Reversed(s) = Used(s) /\ Forwarded(s) = Used(s) \cup Cached(s) \cup lost[s]
  BY <1>6 DEF Reversed, Forwarded, Used
<1>8. version[s] # step => Reversed(s) = Batch /\ Forwarded(s) = Batch BY <1>6 DEF Reversed, Forwarded
<1> QED BY <1>1, <1>3, <1>5, <1>7, <1>8

\* A step that leaves a stage alone.
Idles(s) ==
  /\ version'[s] = version[s] /\ gradients'[s] = gradients[s] /\ lost'[s] = lost[s]
  /\ \A r \in Replicas : pending'[s][r] = pending[s][r]

LEMMA WorkStays ==
  ASSUME NEW s, Idles(s), step' = step
  PROVE  /\ Reversed(s)' = Reversed(s) /\ Forwarded(s)' = Forwarded(s)
         /\ Used(s)' = Used(s) /\ Cached(s)' = Cached(s)
<1>1. Used(s)' = Used(s) BY DEF Used, Idles
<1>2. Reversed(s)' = Reversed(s) BY DEF Reversed, Idles
<1>3. Cached(s)' = Cached(s) BY DEF Cached, Idles
<1> QED BY <1>1, <1>2, <1>3 DEF Forwarded, Idles

\* The work done grows.
Grows(s) == Reversed(s) \subseteq Reversed(s)' /\ Forwarded(s) \subseteq Forwarded(s)'

LEMMA DoneStays ==
  ASSUME IInv, CInv, NEW s \in Stages, Grows(s), step' = step, version'[s] \in {version[s], version[s] + 1},
         NEW a, Done(a, s)
  PROVE  /\ a = Stepped => version'[s] > step'
         /\ a.kind = "Artifact" => IF a.artifact.kind = "output" THEN a.artifact.of \in Forwarded(s)'
                                                               ELSE a.artifact.of \in Reversed(s)'
<1>1. step \in Nat /\ version[s] \in Nat BY WorkIs
<1>2. a = Stepped => version'[s] > step' BY <1>1 DEF Done
<1> QED BY <1>2 DEF Done, Grows

\* A lane a step is not about, of a stage that may have done work for another.
LEMMA ProgressStays ==
  ASSUME IInv, CInv, NEW s \in Stages, NEW r \in Replicas,
         inbox'[s][r] = inbox[s][r], doing'[s][r] = doing[s][r], answer'[s][r] = answer[s][r],
         reply'[s][r] \in {reply[s][r], Nothing}, Live(s)' => Live(s),
         step' = step, version'[s] = version[s], \A t \in Stages : Grows(t),
         \A b \in MicroBatches : /\ <<r, b>> \in Forwarded(s)' => <<r, b>> \in Forwarded(s)
                                 /\ <<r, b>> \in Reversed(s)' => <<r, b>> \in Reversed(s)
  PROVE  Progress(s, r)'
<1>1. Progress(s, r) /\ (Live(s) => OneCommand(s, r)) BY DEF CInv, StageInv, IInv, LaneInv
<1>2. reply'[s][r] # Nothing => Done(reply[s][r], s)' BY <1>1, DoneStays DEF Progress, Done
<1>3. ASSUME NEW c \in Command, Fit(c, s, r), Due(c, s) PROVE Due(c, s)'
  <2>1. c.kind \in Work => c.artifact.of = <<r, c.micro_batch>> /\ c.micro_batch \in MicroBatches
    BY <1>3, CommandKinds DEF Fit
  <2>2. c.kind = "forward" => c.artifact.of \notin Forwarded(s)' BY <1>3, <2>1 DEF Due
  <2>3. c.kind = "backward" => c.artifact.of \notin Reversed(s)' BY <1>3, <2>1 DEF Due
  <2>4. s > 0 => s - 1 \in Stages OBVIOUS
  <2>5. s + 1 < P => s + 1 \in Stages OBVIOUS
  <2>6. c.kind = "forward" /\ s > 0 => c.artifact.of \in Forwarded(s - 1)' BY <1>3, <2>4 DEF Due, Grows
  <2>7. c.kind = "backward" /\ s + 1 < P => c.artifact.of \in Reversed(s + 1)' BY <1>3, <2>5 DEF Due, Grows
  <2>8. c.kind = "step" => Batch \subseteq Reversed(s)' BY <1>3 DEF Due, Grows
  <2> QED BY <1>3, <2>2, <2>3, <2>6, <2>7, <2>8 DEF Due
<1>4. ASSUME Live(s), inbox[s][r] # <<>> PROVE Due(inbox[s][r][1], s)'
  <2> PICK c : c = inbox[s][r][1] OBVIOUS
  <2>1. inbox[s][r] \in Seq(Command) BY CountTypes
  <2>2. c \in Command BY <1>4, <2>1
  <2>3. Fit(c, s, r) /\ Due(c, s) BY <1>1, <1>4 DEF OneCommand, Progress
  <2>4. Due(c, s)' BY <1>3, <2>2, <2>3
  <2> QED BY <2>4 DEF Due
<1>5. ASSUME Live(s), doing[s][r] # Nothing, answer[s][r] = Nothing PROVE Due(doing[s][r], s)'
  <2> PICK c : c = doing[s][r] OBVIOUS
  <2>1. c \in Command /\ Fit(c, s, r) /\ Due(c, s) BY <1>1, <1>5 DEF OneCommand, Progress
  <2>2. Due(c, s)' BY <1>3, <2>1
  <2> QED BY <2>2 DEF Due
<1>6. ASSUME Live(s), doing[s][r] # Nothing, answer[s][r] # Nothing PROVE Done(answer[s][r], s)'
  <2>1. Done(answer[s][r], s) BY <1>1, <1>6 DEF Progress
  <2> QED BY <2>1, DoneStays DEF Done
<1> QED BY <1>2, <1>4, <1>5, <1>6 DEF Progress

-----------------------------------------------------------------------------
(* The initial state, and the driver                                       *)

LEMMA InitKeepsContract == Init => CInv
<1> SUFFICES ASSUME Init, NEW s \in Stages PROVE StageInv(s) /\ Tables
  BY ZeroIsIn DEF CInv
<1> USE DEF Init, EachLane
<1>1. version[s] = 0 /\ step = 0 /\ gradients[s] = {} /\ lost[s] = {} /\ \A r \in Replicas : pending[s][r] = <<>>
  OBVIOUS
<1>2. Weights(s) BY <1>1 DEF Weights, Held
<1>3. Place(s) BY <1>1 DEF Place
<1>4. ASSUME NEW r \in Replicas PROVE Progress(s, r) BY DEF Progress
<1>5. AskedFor(s) BY <1>1 DEF AskedFor
<1>6. Tables BY DEF Tables
<1> QED BY <1>2, <1>3, <1>4, <1>5, <1>6 DEF StageInv

\* Steps of the driver change nothing that was done.
LEMMA DriverMoves ==
  ASSUME IInv, CInv, UNCHANGED <<step, stageVars>>,
         \A s \in Stages :
           /\ Place(s)' /\ \A r \in Replicas : Progress(s, r)'
           /\ phase' \notin {"collect", "failed"} => Heard(s)'
           /\ phase' # "failed" => AskedFor(s)'
  PROVE  CInv'
<1> USE DEF stageVars, modelVars
<1>1. ASSUME NEW s \in Stages PROVE Weights(s)' BY DEF CInv, StageInv, Weights
<1>2. Tables' BY DEF CInv, Tables
<1> QED BY <1>1, <1>2 DEF CInv, StageInv

LEMMA DriverLeaves ==
  ASSUME UNCHANGED <<step, stageVars>>, NEW s
  PROVE  /\ Idles(s) /\ Grows(s) /\ Reversed(s)' = Reversed(s) /\ Forwarded(s)' = Forwarded(s)
         /\ Live(s)' = Live(s)
<1>1. Idles(s) BY DEF Idles, stageVars, modelVars
<1>2. Reversed(s)' = Reversed(s) /\ Forwarded(s)' = Forwarded(s) BY <1>1, WorkStays
<1> QED BY <1>1, <1>2 DEF Grows, Live, stageVars

LEMMA DriverWaits ==
  ASSUME IInv, CInv, UNCHANGED <<step, stageVars>>, NEW s \in Stages, NEW r \in Replicas,
         inbox'[s][r] = inbox[s][r], reply'[s][r] \in {reply[s][r], Nothing}
  PROVE  Progress(s, r)'
<1>1. \A t \in Stages : Grows(t) BY DriverLeaves
<1>2. /\ doing'[s][r] = doing[s][r] /\ answer'[s][r] = answer[s][r] /\ version'[s] = version[s]
  BY DEF stageVars, modelVars
<1> QED BY <1>1, <1>2, DriverLeaves, ProgressStays

\* The scans, and all that ends the program.
LEMMA ScanMoves ==
  ASSUME IInv, CInv, UNCHANGED <<step, workVars, inbox, stageVars>>,
         \A s \in Stages, r \in Replicas : reply'[s][r] \in {reply[s][r], Nothing},
         phase' # "failed" => phase \notin {"collect", "failed"},
         \A s \in Stages : Place(s)'
  PROVE  CInv'
<1>1. ASSUME NEW s \in Stages, phase' \notin {"collect", "failed"} PROVE Heard(s)'
  <2>1. Heard(s) BY <1>1 DEF CInv, StageInv
  <2> QED BY <2>1, DriverLeaves DEF Heard, Outstanding, workVars
<1>2. ASSUME NEW s \in Stages, phase' # "failed" PROVE AskedFor(s)'
  <2>1. AskedFor(s) BY <1>2 DEF CInv, StageInv
  <2> QED BY <2>1 DEF AskedFor, workVars, stageVars, modelVars
<1> QED BY <1>1, <1>2, DriverWaits, DriverMoves

LEMMA DispatchEndsContract == ASSUME IInv, CInv, DispatchEnds PROVE CInv'
<1>1. /\ phase = "dispatch" /\ phase' = "poll" /\ UNCHANGED <<step, workVars, inbox, reply, stageVars>>
  BY DEF DispatchEnds
<1>2. \A s \in Stages : Place(s)' BY <1>1 DEF CInv, StageInv, Place, stageVars, modelVars
<1> QED BY <1>1, <1>2, ScanMoves

LEMMA PollNothingContract ==
  ASSUME IInv, CInv, NEW s \in Stages, NEW r \in Replicas, PollNothing(s, r)
  PROVE  CInv'
<1>1. /\ phase = "poll" /\ NextLane(s, r, "loop") /\ UNCHANGED <<step, workVars, inbox, reply, stageVars>>
  BY DEF PollNothing, NextToPoll
<1>2. phase' \in {"poll", "loop"} BY <1>1, ScanGoesOn
<1>3. \A t \in Stages : Place(t)' BY <1>1, <1>2 DEF CInv, StageInv, Place, stageVars, modelVars
<1> QED BY <1>1, <1>2, <1>3, ScanMoves

\* Nothing is asked of the weights once the program has failed.
LEMMA FailedPlace == phase' = "failed" => \A s \in Stages : Place(s)'
BY DEF Place

LEMMA PollFailsContract ==
  ASSUME IInv, CInv, NEW s \in Stages, NEW r \in Replicas, PollFails(s, r)
  PROVE  CInv'
<1>1. phase' = "failed" /\ UNCHANGED <<step, workVars, inbox, reply, stageVars>> BY DEF PollFails, Abandon
<1> QED BY <1>1, FailedPlace, ScanMoves

LEMMA LoopContract == ASSUME IInv, CInv, Loop PROVE CInv'
<1>1. /\ phase \in {"loop", "poll"} /\ phase' \in {"dispatch", "step"}
      /\ UNCHANGED <<step, workVars, inbox, reply, stageVars>>
  BY DEF Loop
<1>2. \A s \in Stages : Place(s)' BY <1>1 DEF CInv, StageInv, Place, stageVars, modelVars
<1> QED BY <1>1, <1>2, ScanMoves

LEMMA AwaitStepContract == ASSUME IInv, CInv, AwaitStep PROVE CInv'
<1> PICK s : s = at OBVIOUS
<1> PICK r : r = lane OBVIOUS
<1>1. /\ phase = "await" /\ UNCHANGED <<step, workVars, inbox, stageVars>>
      /\ reply' = [reply EXCEPT ![s][r] = Nothing]
      /\ (reply[s][r] = Stepped /\ NextLane(s, r, "absorb")) \/ Abandon
  BY DEF AwaitStep
<1>2. s \in Stages /\ r \in Replicas /\ Lanes(reply) BY DEF IInv, Shapes
<1>3. \A t \in Stages, q \in Replicas : reply'[t][q] \in {reply[t][q], Nothing} BY <1>1, <1>2 DEF Lanes
<1>4. CASE Abandon BY <1>1, <1>3, <1>4, FailedPlace, ScanMoves DEF Abandon
<1>5. CASE reply[s][r] = Stepped /\ NextLane(s, r, "absorb")
  <2>1. /\ phase' \in {"await", "absorb"}
        /\ r + 1 < R => at' = s /\ lane' = r + 1 /\ phase' = "await"
        /\ r + 1 >= R => lane' = 0 /\ ((at' = s + 1 /\ phase' = "await") \/ (s + 1 = P /\ at' = 0 /\ phase' = "absorb"))
    BY <1>1, <1>2, <1>5, ScanGoesOn
  <2>2. version[s] > step
    <3>1. Progress(s, r) BY <1>2 DEF CInv, StageInv
    <3> QED BY <1>5, <3>1, Markers DEF Progress, Done
  <2>3. ASSUME NEW t \in Stages, NEW q \in Replicas, t < s \/ (t = s /\ q <= r) PROVE version[t] > step
    <3>1. CASE t = s BY <2>2, <3>1
    <3>2. CASE t < s
      <4>1. Place(t) BY DEF CInv, StageInv
      <4> QED BY <1>1, <3>2, <4>1 DEF Place, Before
    <3> QED BY <2>3, <3>1, <3>2
  <2>4. ASSUME NEW t \in Stages PROVE Place(t)'
    <3>1. CASE phase' = "await"
      <4>1. ASSUME NEW q \in Replicas, Before(t, q)' PROVE t < s \/ (t = s /\ q <= r)
        BY <1>2, <2>1, <3>1, <4>1 DEF Before
      <4> QED BY <1>1, <2>3, <3>1, <4>1 DEF Place, stageVars, modelVars
    <3>2. CASE phase' = "absorb"
      <4>1. t < s \/ (t = s /\ r <= r) BY <1>2, <2>1, <3>2
      <4>2. version[t] > step BY <1>2, <2>3, <4>1
      <4> QED BY <1>1, <3>2, <4>2 DEF Place, stageVars, modelVars
    <3> QED BY <2>1, <3>1, <3>2
  <2> QED BY <1>1, <1>3, <2>4, ScanMoves
<1> QED BY <1>1, <1>4, <1>5

\* A new batch begins when nothing of the last one is left.
LEMMA BeginStepContract == ASSUME IInv, CInv, BeginStep PROVE CInv'
<1>1. /\ phase = "collect" /\ phase' = "dispatch" /\ forward' = NoneKnown /\ backward' = NoneKnown
      /\ next_fwd' = EachLane(0) /\ next_bwd' = EachLane(0) /\ busy' = EachLane("none")
      /\ UNCHANGED <<step, inbox, reply, stageVars>>
  BY DEF BeginStep
<1>2. ASSUME NEW s \in Stages PROVE Place(s)' /\ AskedFor(s)'
  <2>1. Place(s) BY DEF CInv, StageInv
  <2>2. gradients[s] = {} /\ lost[s] = {} /\ version[s] = step BY <1>1, <2>1 DEF Place
  <2> QED BY <1>1, <2>2 DEF Place, AskedFor, stageVars, modelVars
<1>3. ASSUME NEW s \in Stages PROVE Heard(s)'
  <2> SUFFICES ASSUME NEW x \in Batch
               PROVE  /\ forward'[<<x[1], x[2], s>>] = Nothing /\ backward'[<<x[1], x[2], s>>] = Nothing
                      /\ ~(x[2] < next_bwd'[s][x[1]])
    BY DEF Heard
  <2>1. <<x[1], x[2], s>> \in Slots /\ x[1] \in Replicas /\ x[2] \in MicroBatches BY DEF Batch, Slots
  <2> QED BY <1>1, <2>1 DEF NoneKnown, EachLane
<1> QED BY <1>1, <1>2, <1>3, DriverWaits, DriverMoves

\* The driver goes on to the next step: every stage has made its own.
LEMMA AbsorbIsRest ==
  ASSUME IInv, CInv, Absorb, NEW s \in Stages
  PROVE  /\ step \in Nat /\ version[s] = step + 1 /\ gradients[s] = {} /\ lost[s] = {}
         /\ \A r \in Replicas : /\ pending[s][r] = <<>> /\ reply[s][r] = Nothing
                                /\ Live(s) => inbox[s][r] = <<>> /\ doing[s][r] = Nothing
<1>1. phase = "absorb" BY DEF Absorb
<1>2. version[s] > step /\ version[s] \in {step, step + 1} /\ step \in Nat
  BY <1>1, WorkIs DEF CInv, StageInv, Place
<1>3. gradients[s] = {} /\ lost[s] = {} /\ \A r \in Replicas : pending[s][r] = <<>>
  BY <1>2 DEF CInv, StageInv, Weights
<1>4. ASSUME NEW r \in Replicas
      PROVE  reply[s][r] = Nothing /\ (Live(s) => inbox[s][r] = <<>> /\ doing[s][r] = Nothing)
  <2>1. busy[s][r] = "none" BY <1>1, AtRest DEF Between
  <2>2. Expected(s, r) = "none" BY <1>1, <2>1 DEF Expected
  <2> QED BY <1>1, <2>2, IdleLane
<1> QED BY <1>2, <1>3, <1>4

LEMMA AbsorbContract == ASSUME IInv, CInv, Absorb PROVE CInv'
<1>1. phase' = "collect" /\ step' = step + 1 /\ UNCHANGED <<inbox, reply, stageVars>> BY DEF Absorb
<1> USE DEF stageVars, modelVars
<1>2. ASSUME NEW s \in Stages PROVE StageInv(s)'
  <2>1. /\ step \in Nat /\ version[s] = step + 1 /\ gradients[s] = {} /\ lost[s] = {}
        /\ \A r \in Replicas : /\ pending[s][r] = <<>> /\ reply[s][r] = Nothing
                               /\ Live(s) => inbox[s][r] = <<>> /\ doing[s][r] = Nothing
    BY AbsorbIsRest
  <2>2. Weights(s)' BY <1>1, <2>1 DEF Weights, Held
  <2>3. Place(s)' BY <1>1, <2>1 DEF Place
  <2>4. \A r \in Replicas : Progress(s, r)' BY <1>1, <2>1 DEF Progress, Live
  <2>5. AskedFor(s)' BY <1>1, <2>1 DEF AskedFor
  <2> QED BY <1>1, <2>2, <2>3, <2>4, <2>5 DEF StageInv
<1>3. Tables' BY <1>1 DEF CInv, Tables
<1> QED BY <1>2, <1>3 DEF CInv

-----------------------------------------------------------------------------
(* Commands are due                                                        *)

LEMMA WorkIsDue ==
  ASSUME IInv, CInv, phase = "dispatch", NEW s \in Stages, NEW r \in Replicas, NEW kind \in Work,
         CanSend(s, r, kind), Live(s), NEW c, c = WorkCommand(s, r, kind)
  PROVE  Due(c, s)
<1> DEFINE b == IF kind = "forward" THEN next_fwd[s][r] ELSE next_bwd[s][r]
<1>1. c.kind = kind /\ c.micro_batch = b /\ Fit(c, s, r) BY WorkIsFit
<1>2. c.artifact.of = <<r, b>> BY <1>1 DEF Fit
<1>3. next_fwd[s][r] \in Nat /\ next_bwd[s][r] \in Nat /\ pending[s][r] \in Seq(Batch) BY CountTypes
<1>4. Counts(s, r) BY DEF IInv, LaneInv
<1>5. version[s] = step /\ \A t \in Stages : Heard(t) BY DEF CInv, StageInv, Place
<1>6. Reversed(s) = Used(s) /\ Forwarded(s) = Used(s) \cup Cached(s) \cup lost[s] BY <1>5, WorkIs
<1>7. b \in MicroBatches /\ <<r, b>> \in Batch
  <2>1. CASE kind = "forward"
    <3>1. b = next_fwd[s][r] /\ next_fwd[s][r] < M BY <2>1 DEF CanSend
    <3>2. b \in MicroBatches BY <1>3, <3>1
    <3> QED BY <3>2, ArtifactsMade
  <2>2. CASE kind = "backward"
    <3>1. b = next_bwd[s][r] /\ next_bwd[s][r] < next_fwd[s][r] BY <2>2 DEF CanSend
    <3>2. next_bwd[s][r] < M BY <1>3, <1>4, <3>1 DEF Counts
    <3>3. b \in MicroBatches BY <1>3, <3>1, <3>2
    <3> QED BY <3>3, ArtifactsMade
  <2> QED BY <2>1, <2>2
<1> HIDE DEF b
<1>8. ASSUME NEW d \in Nat, <<r, d>> \in Used(s) \cup lost[s] PROVE d < next_bwd[s][r]
  <2>1. AskedFor(s) BY DEF CInv, StageInv
  <2>2. CASE <<r, d>> \in Used(s)
    <3>1. PICK g \in gradients[s] : g.graph = <<r, d>> BY <2>2 DEF Used
    <3> QED BY <2>1, <3>1 DEF AskedFor
  <2>3. CASE <<r, d>> \in lost[s] BY <2>1, <2>3 DEF AskedFor
  <2> QED BY <1>8, <2>2, <2>3
<1>9. CASE kind = "forward"
  <2>1. b = next_fwd[s][r] BY <1>9 DEF b
  <2>2. <<r, b>> \notin Used(s) \cup lost[s] BY <1>3, <1>4, <1>8, <2>1 DEF Counts
  <2>3. <<r, b>> \notin Cached(s)
    <3> SUFFICES ASSUME <<r, b>> \in Cached(s) PROVE FALSE OBVIOUS
    <3>1. PICK q \in Replicas : <<r, b>> \in Held(pending[s][q]) BY CachedIs
    <3>2. q = r BY <3>1 DEF CInv, StageInv, Weights
    <3>3. PICK i \in 1 .. Len(pending[s][r]) : pending[s][r][i] = <<r, b>>
      <4>1. <<r, b>> \in Held(pending[s][r]) BY <3>1, <3>2
      <4>2. DOMAIN pending[s][r] = 1 .. Len(pending[s][r]) BY <1>3
      <4> QED BY <4>1, <4>2 DEF Held
    <3>4. Expected(s, r) = "none" BY WorkIsFit
    <3>5. Holds(pending[s][r], r, next_bwd[s][r], next_fwd[s][r]) BY <3>4, IdleLane
    <3>6. /\ pending[s][r][i] = <<r, next_bwd[s][r] + i - 1>> /\ Len(pending[s][r]) = next_fwd[s][r] - next_bwd[s][r]
      BY <3>3, <3>5 DEF Holds
    <3>7. b = next_bwd[s][r] + i - 1 BY <3>3, <3>6
    <3>8. i \in Nat /\ i <= next_fwd[s][r] - next_bwd[s][r] BY <3>3, <3>6
    <3> QED BY SMTT(40), <1>3, <2>1, <3>7, <3>8
  <2>4. s > 0 => <<r, b>> \in Forwarded(s - 1)
    <3> SUFFICES ASSUME s > 0 PROVE <<r, b>> \in Forwarded(s - 1) OBVIOUS
    <3>1. forward[<<r, b, s - 1>>] # Nothing BY <1>9, <2>1 DEF CanSend
    <3>2. s - 1 \in Stages OBVIOUS
    <3>3. Heard(s - 1) BY <1>5, <3>2
    <3> QED BY <1>7, <3>1, <3>3 DEF Heard
  <2> QED BY <1>1, <1>2, <1>5, <1>6, <1>9, <2>2, <2>3, <2>4 DEF Due
<1>10. CASE kind = "backward"
  <2>1. b = next_bwd[s][r] BY <1>10 DEF b
  <2>2. <<r, b>> \notin Used(s) BY <1>3, <1>8, <2>1
  <2>3. s + 1 < P => <<r, b>> \in Reversed(s + 1)
    <3> SUFFICES ASSUME s + 1 < P PROVE <<r, b>> \in Reversed(s + 1) OBVIOUS
    <3>1. backward[<<r, b, s + 1>>] # Nothing BY <1>10, <2>1 DEF CanSend
    <3>2. s + 1 \in Stages OBVIOUS
    <3>3. Heard(s + 1) BY <1>5, <3>2
    <3> QED BY <1>7, <3>1, <3>3 DEF Heard
  <2> QED BY <1>1, <1>2, <1>5, <1>6, <1>10, <2>2, <2>3 DEF Due
<1> QED BY <1>9, <1>10

\* A step is sent when the driver has read every gradient.
LEMMA StepIsDue ==
  ASSUME IInv, CInv, phase = "step", NEW s \in Stages, NEW r \in Replicas, ~Before(s, r)
  PROVE  Due(StepCommand, s)
<1>1. version[s] = step /\ Heard(s) BY DEF CInv, StageInv, Place
<1>2. ASSUME NEW x \in Batch PROVE x \in Reversed(s)
  <2>1. x[1] \in Replicas /\ x[2] \in MicroBatches BY DEF Batch
  <2>2. next_bwd[s][x[1]] = M /\ busy[s][x[1]] = "none" BY <2>1 DEF IInv, Position, Between
  <2>3. x[2] < next_bwd[s][x[1]] /\ busy[s][x[1]] # "backward" BY <2>1, <2>2
  <2>4. backward[<<x[1], x[2], s>>] # Nothing BY <1>1, <2>3 DEF Heard
  <2> QED BY <1>1, <2>4 DEF Heard
<1> QED BY <1>1, <1>2 DEF Due, StepCommand

\* The lane that is asked.
LEMMA AskedProgress ==
  ASSUME IInv, CInv, UNCHANGED <<step, reply, stageVars>>, NEW s \in Stages, NEW r \in Replicas,
         phase # "failed", Expected(s, r) = "none",
         NEW c \in Command, inbox'[s][r] = Append(inbox[s][r], c), Live(s) => Due(c, s)
  PROVE  Progress(s, r)'
<1>1. reply[s][r] = Nothing /\ (Live(s) => inbox[s][r] = <<>> /\ doing[s][r] = Nothing) BY IdleLane
<1>2. Live(s) => inbox'[s][r][1] = c BY <1>1
<1>3. Live(s)' = Live(s) BY DriverLeaves
<1>4. Live(s) => Due(c, s)'
  <2>1. \A t \in Stages : Reversed(t)' = Reversed(t) /\ Forwarded(t)' = Forwarded(t) BY DriverLeaves
  <2>2. (s > 0 => s - 1 \in Stages) /\ (s + 1 < P => s + 1 \in Stages) OBVIOUS
  <2> QED BY <2>1, <2>2 DEF Due, stageVars, modelVars
<1> QED BY <1>1, <1>2, <1>3, <1>4 DEF Progress, stageVars

LEMMA SentProgress ==
  ASSUME IInv, CInv, UNCHANGED <<step, reply, stageVars>>, NEW s \in Stages, NEW r \in Replicas,
         phase # "failed", Expected(s, r) = "none",
         NEW c \in Command, Sent(s, r, c) \/ UNCHANGED inbox, Live(s) => Due(c, s),
         NEW t \in Stages, NEW q \in Replicas
  PROVE  Progress(t, q)'
<1>1. /\ inbox'[s][r] \in {inbox[s][r], Append(inbox[s][r], c)}
      /\ t # s \/ q # r => inbox'[t][q] = inbox[t][q]
  BY SentTo
<1>2. CASE inbox'[t][q] = inbox[t][q] BY <1>2, DriverWaits
<1>3. CASE t = s /\ q = r /\ inbox'[s][r] = Append(inbox[s][r], c) BY <1>3, AskedProgress
<1> QED BY <1>1, <1>2, <1>3

\* The driver gave up while it was sending.
LEMMA GivenUpContract ==
  ASSUME IInv, CInv, UNCHANGED <<step, reply, stageVars>>, NEW s \in Stages, NEW r \in Replicas,
         phase # "failed", phase' = "failed", Expected(s, r) = "none",
         NEW c \in Command, Sent(s, r, c) \/ UNCHANGED inbox, Live(s) => Due(c, s)
  PROVE  CInv'
<1>1. \A t \in Stages, q \in Replicas : Progress(t, q)' BY SentProgress
<1> QED BY <1>1, FailedPlace, DriverMoves

LEMMA SendWorkFailsContract == ASSUME IInv, CInv, NEW s \in Stages, SendWorkFails(s) PROVE CInv'
<1> PICK c : c = WorkCommand(s, lane, Decided(s)) OBVIOUS
<1>1. /\ phase = "dispatch" /\ phase' = "failed" /\ (Sent(s, lane, c) \/ UNCHANGED inbox)
      /\ UNCHANGED <<step, reply, stageVars>>
  BY DEF SendWorkFails, NextToSend, Unsent, Abandon
<1>2. lane \in Replicas BY DEF IInv, Shapes
<1>3. Decided(s) \in Work /\ CanSend(s, lane, Decided(s)) BY <1>2, WorkToSend DEF SendWorkFails
<1>4. Expected(s, lane) = "none" /\ c \in Command BY <1>1, <1>2, <1>3, WorkIsFit
<1>5. Live(s) => Due(c, s) BY <1>1, <1>2, <1>3, WorkIsDue
<1> QED BY <1>1, <1>2, <1>4, <1>5, GivenUpContract

LEMMA SendStepContract == ASSUME IInv, CInv, SendStep PROVE CInv'
<1> PICK s : s = at OBVIOUS
<1> PICK r : r = lane OBVIOUS
<1> PICK c : c = StepCommand OBVIOUS
<1>1. /\ phase = "step" /\ UNCHANGED <<step, workVars, reply, stageVars>>
      /\ \/ Sent(s, r, c) /\ NextLane(s, r, "await")
         \/ Abandon /\ (Sent(s, r, c) \/ UNCHANGED inbox)
  BY DEF SendStep, Unsent
<1>2. s \in Stages /\ r \in Replicas BY DEF IInv, Shapes
<1>3. c \in Command BY StepIsFit DEF IInv
<1>4. ~Before(s, r) BY <1>2 DEF Before
<1>5. busy[s][r] = "none" BY <1>1, <1>2, AtRest DEF Between
<1>6. Expected(s, r) = "none" BY <1>1, <1>4, <1>5 DEF Expected
<1>7. Due(c, s) BY <1>1, <1>2, <1>4, StepIsDue
<1>8. CASE Abandon /\ (Sent(s, r, c) \/ UNCHANGED inbox)
  BY <1>1, <1>2, <1>3, <1>6, <1>7, <1>8, GivenUpContract DEF Abandon
<1>9. CASE Sent(s, r, c) /\ NextLane(s, r, "await")
  <2>1. /\ phase' \in {"step", "await"}
        /\ r + 1 < R => at' = s /\ lane' = r + 1 /\ phase' = "step"
        /\ r + 1 >= R => lane' = 0 /\ ((at' = s + 1 /\ phase' = "step") \/ (s + 1 = P /\ at' = 0 /\ phase' = "await"))
    BY <1>1, <1>2, <1>9, ScanGoesOn
  <2>2. ASSUME NEW t \in Stages PROVE Place(t)'
    <3>1. Place(t) BY DEF CInv, StageInv
    <3>2. ASSUME NEW q \in Replicas, phase' = "step", ~Before(t, q)' PROVE ~Before(t, q)
      BY <1>2, <2>1, <3>2 DEF Before
    <3>3. ASSUME NEW q \in Replicas, phase' = "await" PROVE ~Before(t, q)'
      BY <1>2, <2>1, <3>3 DEF Before
    <3> QED BY <1>1, <2>1, <3>1, <3>2, <3>3 DEF Place, stageVars, modelVars
  <2>3. \A t \in Stages, q \in Replicas : Progress(t, q)' BY <1>1, <1>2, <1>3, <1>6, <1>7, <1>9, SentProgress
  <2>4. ASSUME NEW t \in Stages PROVE Heard(t)' /\ AskedFor(t)'
    <3>1. Heard(t) /\ AskedFor(t) BY <1>1 DEF CInv, StageInv
    <3>2. Heard(t)' BY <1>1, <3>1, DriverLeaves DEF Heard, Outstanding, workVars
    <3> QED BY <1>1, <3>1, <3>2 DEF AskedFor, workVars, stageVars, modelVars
  <2> QED BY <1>1, <2>2, <2>3, <2>4, DriverMoves
<1> QED BY <1>1, <1>8, <1>9

LEMMA SendWorkContract == ASSUME IInv, CInv, NEW s \in Stages, SendWork(s) PROVE CInv'
<1> PICK r : r = lane OBVIOUS
<1> PICK kind : kind = Decided(s) OBVIOUS
<1> PICK c : c = WorkCommand(s, r, kind) OBVIOUS
<1>1. /\ phase = "dispatch" /\ Sent(s, r, c) /\ NextLane(s, r, "poll")
      /\ busy' = [busy EXCEPT ![s][r] = kind]
      /\ next_fwd' = (IF kind = "forward" THEN [next_fwd EXCEPT ![s][r] = @ + 1] ELSE next_fwd)
      /\ next_bwd' = (IF kind = "backward" THEN [next_bwd EXCEPT ![s][r] = @ + 1] ELSE next_bwd)
      /\ UNCHANGED <<step, forward, backward, reply, stageVars>>
  BY DEF SendWork, NextToSend
<1>2. r \in Replicas /\ r = lane BY DEF IInv, Shapes
<1>3. kind \in Work /\ CanSend(s, r, kind) BY <1>2, WorkToSend DEF SendWork
<1>4. Expected(s, r) = "none" /\ c \in Command BY <1>1, <1>2, <1>3, WorkIsFit
<1>5. Live(s) => Due(c, s) BY <1>1, <1>2, <1>3, WorkIsDue
<1>6. phase' \in {"dispatch", "poll"} BY <1>1, <1>2, ScanGoesOn
<1>7. /\ busy \in [Stages -> [Replicas -> Work \cup {"none"}]]
      /\ next_fwd \in [Stages -> [Replicas -> Nat]] /\ next_bwd \in [Stages -> [Replicas -> Nat]]
  <2>1. Shapes BY DEF IInv
  <2> QED BY <2>1 DEF Shapes
<1>8. /\ busy'[s][r] = kind
      /\ \A t \in Stages, q \in Replicas : t # s \/ q # r => busy'[t][q] = busy[t][q]
  <2>1. kind \in Work \cup {"none"} /\ busy' = [busy EXCEPT ![s][r] = kind] BY <1>1, <1>3
  <2> HIDE DEF Stages, Replicas
  <2> QED BY <1>2, <1>7, <2>1, OneLane
<1>9. /\ next_bwd'[s][r] = IF kind = "backward" THEN next_bwd[s][r] + 1 ELSE next_bwd[s][r]
      /\ \A t \in Stages, q \in Replicas : t # s \/ q # r => next_bwd'[t][q] = next_bwd[t][q]
  <2>1. CASE kind = "backward"
    <3>1. next_bwd[s][r] + 1 \in Nat
      <4>1. next_bwd[s][r] \in Nat BY <1>2, CountTypes
      <4> QED BY <4>1
    <3>2. next_bwd' = [next_bwd EXCEPT ![s][r] = next_bwd[s][r] + 1] BY <1>1, <2>1
    <3> HIDE DEF Stages, Replicas
    <3> QED BY <1>2, <1>7, <2>1, <3>1, <3>2, OneLane
  <2>2. CASE kind = "forward" BY <1>1, <2>2
  <2> QED BY <1>3, <2>1, <2>2
<1>10. ASSUME NEW t \in Stages PROVE Place(t)'
  BY <1>1, <1>6 DEF CInv, StageInv, Place, stageVars, modelVars
<1>11. \A t \in Stages, q \in Replicas : Progress(t, q)' BY <1>1, <1>2, <1>4, <1>5, SentProgress
<1>12. ASSUME NEW t \in Stages, NEW q \in Replicas, NEW b \in MicroBatches, b < next_bwd'[t][q],
              busy'[t][q] = "backward" => b # Outstanding(t, q)'
       PROVE  b < next_bwd[t][q] /\ (busy[t][q] = "backward" => b # Outstanding(t, q))
  <2>1. next_bwd[t][q] \in Nat BY CountTypes
  <2>2. CASE t # s \/ q # r
    <3>1. busy'[t][q] = busy[t][q] /\ next_bwd'[t][q] = next_bwd[t][q] BY <1>8, <1>9, <2>2
    <3> QED BY <1>12, <3>1 DEF Outstanding
  <2>3. CASE t = s /\ q = r /\ kind = "backward"
    <3>1. busy[t][q] = "none" BY <1>3, <2>3 DEF CanSend
    <3>2. Outstanding(t, q)' = (next_bwd[t][q] + 1) - 1 BY <1>8, <1>9, <2>3 DEF Outstanding
    <3> QED BY <1>8, <1>9, <1>12, <2>1, <2>3, <3>1, <3>2
  <2>4. CASE t = s /\ q = r /\ kind = "forward"
    <3>1. busy[t][q] = "none" BY <1>3, <2>4 DEF CanSend
    <3> QED BY <1>9, <1>12, <2>4, <3>1
  <2> QED BY <1>3, <2>2, <2>3, <2>4
<1>13. ASSUME NEW t \in Stages PROVE Heard(t)'
  <2>1. Heard(t) BY <1>1 DEF CInv, StageInv
  <2> SUFFICES ASSUME NEW x \in Batch
               PROVE  /\ forward'[<<x[1], x[2], t>>] # Nothing => x \in Forwarded(t)'
                      /\ backward'[<<x[1], x[2], t>>] # Nothing => x \in Reversed(t)'
                      /\ x[2] < next_bwd'[t][x[1]] /\ (busy'[t][x[1]] = "backward" => x[2] # Outstanding(t, x[1])')
                           => backward'[<<x[1], x[2], t>>] # Nothing
    BY DEF Heard
  <2>2. x[1] \in Replicas /\ x[2] \in MicroBatches BY DEF Batch
  <2>3. Forwarded(t)' = Forwarded(t) /\ Reversed(t)' = Reversed(t) BY <1>1, DriverLeaves
  <2>4. /\ forward[<<x[1], x[2], t>>] # Nothing => x \in Forwarded(t)
        /\ backward[<<x[1], x[2], t>>] # Nothing => x \in Reversed(t)
        /\ x[2] < next_bwd[t][x[1]] /\ (busy[t][x[1]] = "backward" => x[2] # Outstanding(t, x[1]))
             => backward[<<x[1], x[2], t>>] # Nothing
    BY <2>1 DEF Heard
  <2>5. UNCHANGED <<forward, backward>> BY <1>1
  <2> QED BY <1>12, <2>2, <2>3, <2>4, <2>5
<1>14. ASSUME NEW t \in Stages PROVE AskedFor(t)'
  <2>1. AskedFor(t) /\ Weights(t) BY <1>1 DEF CInv, StageInv
  <2>2. ASSUME NEW x \in Batch, x[2] < next_bwd[t][x[1]] PROVE x[2] < next_bwd'[t][x[1]]
    <3>1. PICK q \in Replicas, b \in MicroBatches : x = <<q, b>> BY DEF Batch
    <3>2. next_bwd[t][q] \in Nat /\ b \in Nat /\ b < next_bwd[t][q] BY <2>2, <3>1, CountTypes
    <3>3. next_bwd'[t][q] \in {next_bwd[t][q], next_bwd[t][q] + 1} BY <1>9
    <3>4. b < next_bwd'[t][q] BY <3>2, <3>3
    <3> QED BY <3>1, <3>4
  <2>3. ASSUME NEW g \in gradients[t] PROVE g.graph[2] < next_bwd'[t][g.graph[1]]
    <3>1. g.graph \in Batch /\ g.graph[2] < next_bwd[t][g.graph[1]] BY <2>1 DEF AskedFor, Weights
    <3> QED BY <2>2, <3>1
  <2>4. ASSUME NEW x \in lost[t] PROVE x[2] < next_bwd'[t][x[1]]
    <3>1. x \in Batch /\ x[2] < next_bwd[t][x[1]] BY <2>1 DEF AskedFor, Weights
    <3> QED BY <2>2, <3>1
  <2>5. gradients' = gradients /\ lost' = lost BY <1>1 DEF stageVars, modelVars
  <2> QED BY <2>3, <2>4, <2>5 DEF AskedFor
<1> QED BY <1>1, <1>6, <1>10, <1>11, <1>13, <1>14, DriverMoves

\* The driver reads what was done.
LEMMA PollAnswerContract ==
  ASSUME IInv, CInv, NEW s \in Stages, NEW r \in Replicas, PollAnswer(s, r)
  PROVE  CInv'
<1> PICK b : b = Outstanding(s, r) OBVIOUS
<1> PICK a : a = reply[s][r].artifact OBVIOUS
<1>1. /\ phase = "poll" /\ busy[s][r] # "none" /\ RightAnswer(s, r) /\ NextLane(s, r, "loop")
      /\ forward' = (IF busy[s][r] = "forward" THEN [forward EXCEPT ![<<r, b, s>>] = a] ELSE forward)
      /\ backward' = (IF busy[s][r] = "backward" THEN [backward EXCEPT ![<<r, b, s>>] = a] ELSE backward)
      /\ busy' = [busy EXCEPT ![s][r] = "none"] /\ reply' = [reply EXCEPT ![s][r] = Nothing]
      /\ UNCHANGED <<step, next_fwd, next_bwd, inbox, stageVars>>
  BY DEF PollAnswer, NextToPoll
<1>2. /\ b \in MicroBatches /\ busy[s][r] \in Work
      /\ a = (IF busy[s][r] = "forward" THEN Output(s, <<r, b>>) ELSE Gradient(s, <<r, b>>))
  <2>1. busy[s][r] \in Work BY <1>1, CountTypes
  <2> QED BY <1>1, <2>1, AnswerIs
<1>3. phase' \in {"poll", "loop"} BY <1>1, ScanGoesOn
<1>4. /\ Lanes(reply) /\ busy \in [Stages -> [Replicas -> Work \cup {"none"}]]
      /\ forward = [x \in Slots |-> forward[x]] /\ backward = [x \in Slots |-> backward[x]]
  BY DEF IInv, Shapes
<1>5. /\ busy'[s][r] = "none"
      /\ \A t \in Stages, q \in Replicas : t # s \/ q # r => busy'[t][q] = busy[t][q]
  BY <1>1, <1>4
<1>6. \A t \in Stages, q \in Replicas : reply'[t][q] \in {reply[t][q], Nothing} BY <1>1, <1>4 DEF Lanes
<1>7. ASSUME NEW t \in Stages PROVE Place(t)'
  BY <1>1, <1>3 DEF CInv, StageInv, Place, stageVars, modelVars
<1>8. ASSUME NEW t \in Stages PROVE AskedFor(t)'
  <2>1. AskedFor(t) BY <1>1 DEF CInv, StageInv
  <2> QED BY <1>1, <2>1 DEF AskedFor, stageVars, modelVars
<1>9. a.of = <<r, b>> /\ a # Nothing /\ (busy[s][r] = "forward" <=> a.kind = "output")
  <2>1. a.of = <<r, b>> /\ a # Nothing BY ZenonT(60), <1>2, ArtifactsMade
  <2>2. a.kind = IF busy[s][r] = "forward" THEN "output" ELSE "gradient" BY <1>2 DEF Output, Gradient
  <2> QED BY <2>1, <2>2
<1>10. IF busy[s][r] = "forward" THEN <<r, b>> \in Forwarded(s) ELSE <<r, b>> \in Reversed(s)
  <2>1. reply[s][r].kind = "Artifact" BY <1>1 DEF RightAnswer
  <2>2. Done(reply[s][r], s) BY <2>1, Markers DEF CInv, StageInv, Progress
  <2> QED BY <1>9, <2>1, <2>2 DEF Done
<1>11. ASSUME NEW t \in Stages PROVE Heard(t)'
  <2> SUFFICES ASSUME NEW q \in Replicas, NEW d \in MicroBatches
               PROVE  /\ forward'[<<q, d, t>>] # Nothing => <<q, d>> \in Forwarded(t)'
                      /\ backward'[<<q, d, t>>] # Nothing => <<q, d>> \in Reversed(t)'
                      /\ d < next_bwd'[t][q] /\ (busy'[t][q] = "backward" => d # Outstanding(t, q)')
                           => backward'[<<q, d, t>>] # Nothing
    <3>1. \A x \in Batch : x[1] \in Replicas /\ x[2] \in MicroBatches /\ x = <<x[1], x[2]>> BY DEF Batch
    <3> QED BY <3>1 DEF Heard
  <2>1. Heard(t) /\ <<q, d>> \in Batch /\ <<q, d, t>> \in Slots /\ <<r, b, s>> \in Slots
    BY <1>1, <1>2, ArtifactsMade DEF CInv, StageInv
  <2>2. /\ forward[<<q, d, t>>] # Nothing => <<q, d>> \in Forwarded(t)
        /\ backward[<<q, d, t>>] # Nothing => <<q, d>> \in Reversed(t)
        /\ d < next_bwd[t][q] /\ (busy[t][q] = "backward" => d # Outstanding(t, q))
             => backward[<<q, d, t>>] # Nothing
    BY <2>1 DEF Heard
  <2>3. Forwarded(t)' = Forwarded(t) /\ Reversed(t)' = Reversed(t) BY <1>1, DriverLeaves
  <2>4. CASE t = s /\ q = r /\ d = b
    <3>1. CASE busy[s][r] = "forward"
      <4>1. forward'[<<q, d, t>>] = a /\ backward' = backward BY <1>1, <1>4, <2>1, <2>4, <3>1
      <4> QED BY <1>1, <1>10, <2>2, <2>3, <2>4, <3>1, <4>1
    <3>2. CASE busy[s][r] = "backward"
      <4>1. backward'[<<q, d, t>>] = a /\ forward' = forward BY <1>1, <1>4, <2>1, <2>4, <3>2
      <4> QED BY <1>9, <1>10, <2>2, <2>3, <2>4, <3>2, <4>1
    <3> QED BY <1>2, <3>1, <3>2
  <2>5. CASE ~(t = s /\ q = r /\ d = b)
    <3>1. <<q, d, t>> # <<r, b, s>> BY <2>5
    <3>2. forward'[<<q, d, t>>] = forward[<<q, d, t>>] /\ backward'[<<q, d, t>>] = backward[<<q, d, t>>]
      BY <1>1, <1>4, <2>1, <3>1
    <3>3. CASE t = s /\ q = r
      <4>1. busy[t][q] = "backward" => d # Outstanding(t, q) BY <2>5, <3>3
      <4> QED BY <1>1, <2>2, <2>3, <3>2, <4>1
    <3>4. CASE t # s \/ q # r
      <4>1. busy'[t][q] = busy[t][q] BY <1>5, <3>4
      <4>2. Outstanding(t, q)' = Outstanding(t, q) BY <1>1, <4>1 DEF Outstanding
      <4> QED BY <1>1, <2>2, <2>3, <3>2, <4>1, <4>2
    <3> QED BY <3>3, <3>4
  <2> QED BY <2>4, <2>5
<1> QED BY <1>1, <1>6, <1>7, <1>8, <1>11, DriverWaits, DriverMoves

-----------------------------------------------------------------------------
(* What the stages do                                                      *)

\* A step of one stage.
LEMMA StageMovesContract ==
  ASSUME IInv, CInv, UNCHANGED <<scanVars, step, workVars>>, NEW s \in Stages,
         Weights(s)', Place(s)', Grows(s), \A r \in Replicas : Progress(s, r)', phase # "failed" => AskedFor(s)',
         \A t \in Stages : t # s =>
           /\ Idles(t) /\ fate'[t] = fate[t]
           /\ \A r \in Replicas : /\ inbox'[t][r] = inbox[t][r] /\ reply'[t][r] = reply[t][r]
                                  /\ doing'[t][r] = doing[t][r] /\ answer'[t][r] = answer[t][r],
         Tables'
  PROVE  CInv'
<1> USE DEF scanVars, workVars
<1>1. \A t \in Stages : t # s => Reversed(t)' = Reversed(t) /\ Forwarded(t)' = Forwarded(t) BY WorkStays
<1>2. \A t \in Stages : Grows(t) BY <1>1 DEF Grows
<1>3. ASSUME NEW t \in Stages, phase \notin {"collect", "failed"} PROVE Heard(t)'
  <2>1. Heard(t) BY <1>3 DEF CInv, StageInv
  <2> QED BY <1>2, <2>1 DEF Heard, Grows, Outstanding
<1>4. ASSUME NEW t \in Stages, t # s PROVE StageInv(t)'
  <2>1. Weights(t) /\ Place(t) BY DEF CInv, StageInv
  <2>2. Weights(t)' BY <1>4, <2>1 DEF Weights, Idles
  <2>3. Place(t)' BY <1>4, <2>1 DEF Place, Idles, Before
  <2>4. ASSUME phase # "failed" PROVE AskedFor(t)'
    <3>1. AskedFor(t) BY <2>4 DEF CInv, StageInv
    <3> QED BY <1>4, <3>1 DEF AskedFor, Idles
  <2>5. ASSUME NEW r \in Replicas PROVE Progress(t, r)'
    <3>1. Live(t)' = Live(t) /\ version'[t] = version[t] BY <1>4 DEF Live, Idles
    <3>2. /\ inbox'[t][r] = inbox[t][r] /\ doing'[t][r] = doing[t][r] /\ answer'[t][r] = answer[t][r]
          /\ reply'[t][r] \in {reply[t][r], Nothing}
      BY <1>4
    <3> QED BY <1>1, <1>2, <1>4, <3>1, <3>2, ProgressStays
  <2> QED BY <1>3, <2>2, <2>3, <2>4, <2>5 DEF StageInv
<1>5. StageInv(s)' BY <1>3 DEF StageInv
<1> QED BY <1>4, <1>5 DEF CInv

\* One that computes nothing.
LEMMA StageWaits ==
  ASSUME IInv, CInv, UNCHANGED <<scanVars, step, workVars, modelVars>>, NEW s \in Stages,
         \A r \in Replicas : Progress(s, r)',
         \A t \in Stages : t # s =>
           /\ fate'[t] = fate[t]
           /\ \A r \in Replicas : /\ inbox'[t][r] = inbox[t][r] /\ reply'[t][r] = reply[t][r]
                                  /\ doing'[t][r] = doing[t][r] /\ answer'[t][r] = answer[t][r]
  PROVE  CInv'
<1> USE DEF scanVars, workVars, modelVars
<1>1. \A t \in Stages : Idles(t) BY DEF Idles
<1>2. Grows(s) BY <1>1, WorkStays DEF Grows
<1>3. Weights(s) /\ Place(s) /\ (phase # "failed" => AskedFor(s)) BY DEF CInv, StageInv
<1>4. Weights(s)' BY <1>3 DEF Weights
<1>5. Place(s)' BY <1>3 DEF Place, Before
<1>6. phase # "failed" => AskedFor(s)' BY <1>3 DEF AskedFor
<1>7. Tables' BY DEF CInv, Tables
<1> QED BY <1>1, <1>2, <1>4, <1>5, <1>6, <1>7, StageMovesContract

\* A lane a step of its stage is not about, when nothing was computed.
LEMMA LaneWaitsContract ==
  ASSUME IInv, CInv, UNCHANGED <<step, modelVars>>, NEW s \in Stages, NEW r \in Replicas, Live(s)' => Live(s),
         inbox'[s][r] = inbox[s][r], reply'[s][r] = reply[s][r], doing'[s][r] = doing[s][r],
         answer'[s][r] = answer[s][r]
  PROVE  Progress(s, r)'
<1>1. \A t \in Stages : Idles(t) BY DEF Idles, modelVars
<1>2. \A t \in Stages : Reversed(t)' = Reversed(t) /\ Forwarded(t)' = Forwarded(t) BY <1>1, WorkStays
<1>3. \A t \in Stages : Grows(t) BY <1>2 DEF Grows
<1>4. version'[s] = version[s] BY DEF modelVars
<1> QED BY <1>2, <1>3, <1>4, ProgressStays

LEMMA StartStageContract == ASSUME IInv, CInv, NEW s \in Stages, StartStage(s) PROVE CInv'
<1>1. /\ fate[s] = "starting" /\ fate' \in {[fate EXCEPT ![s] = "running"], [fate EXCEPT ![s] = "over"]}
      /\ UNCHANGED <<scanVars, step, workVars, inbox, reply, doing, answer, modelVars>>
  BY DEF StartStage
<1>2. fate = [t \in Stages |-> fate[t]] BY StagesShaped DEF StageShapes
<1>3. \A t \in Stages : t # s => fate'[t] = fate[t] BY <1>1, <1>2
<1>4. Live(s)' => Live(s) BY <1>1 DEF Live
<1>5. \A r \in Replicas : Progress(s, r)' BY <1>1, <1>4, LaneWaitsContract
<1> QED BY <1>1, <1>3, <1>5, StageWaits

LEMMA ReadCommandsContract == ASSUME IInv, CInv, NEW s \in Stages, ReadCommands(s) PROVE CInv'
<1>1. /\ fate[s] = "running" /\ \A r \in Replicas : doing[s][r] = Nothing /\ inbox[s][r] # <<>>
      /\ inbox' = [inbox EXCEPT ![s] = [r \in Replicas |-> Tail(inbox[s][r])]]
      /\ \/ doing' = [doing EXCEPT ![s] = [r \in Replicas |-> Head(inbox[s][r])]] /\ UNCHANGED fate
         \/ fate' = [fate EXCEPT ![s] = "mismatched"] /\ UNCHANGED doing
      /\ UNCHANGED <<scanVars, step, workVars, reply, answer, modelVars>>
  BY DEF ReadCommands
<1>2. StageShapes BY StagesShaped
<1>3. Lanes(doing) /\ fate = [t \in Stages |-> fate[t]] /\ inbox \in [Stages -> [Replicas -> Seq(Command)]]
  BY <1>2 DEF StageShapes
<1>4. ASSUME NEW t \in Stages, t # s, NEW r \in Replicas
      PROVE  fate'[t] = fate[t] /\ inbox'[t][r] = inbox[t][r] /\ doing'[t][r] = doing[t][r]
  BY <1>1, <1>3, <1>4 DEF Lanes
<1>5. ASSUME NEW r \in Replicas PROVE Progress(s, r)'
  <2>1. Live(s) /\ Progress(s, r) /\ OneCommand(s, r) BY <1>1 DEF Live, CInv, StageInv, IInv, LaneInv
  <2>2. version'[s] = version[s] /\ gradients' = gradients /\ pending' = pending BY <1>1 DEF modelVars
  <2>3. \A t \in Stages : Reversed(t)' = Reversed(t) /\ Forwarded(t)' = Forwarded(t)
    BY <1>1, WorkStays DEF Idles, modelVars
  <2>4. reply'[s][r] # Nothing => Done(reply[s][r], s)' BY <1>1, <2>1, <2>2, <2>3 DEF Progress, Done
  <2>5. CASE fate' = [fate EXCEPT ![s] = "mismatched"]
    <3>1. ~Live(s)' BY <1>3, <2>5 DEF Live
    <3> QED BY <1>1, <2>4, <3>1 DEF Progress
  <2>6. CASE doing' = [doing EXCEPT ![s] = [q \in Replicas |-> Head(inbox[s][q])]] /\ UNCHANGED fate
    <3>1. inbox[s][r] \in Seq(Command) /\ Len(inbox[s][r]) <= 1 /\ inbox[s][r] # <<>> BY <1>1, <1>3, <2>1 DEF OneCommand
    <3>2. PICK c : c = inbox[s][r][1] OBVIOUS
    <3>3. Head(inbox[s][r]) = c /\ Tail(inbox[s][r]) = <<>> BY <3>1, <3>2, OneElement
    <3>4. doing'[s][r] = c /\ inbox'[s][r] = <<>> BY <1>1, <1>3, <2>6, <3>3 DEF Lanes
    <3>5. answer'[s][r] = Nothing BY <1>1, <2>1 DEF OneCommand
    <3>6. Due(c, s) BY <1>1, <2>1, <3>2 DEF Progress
    <3>7. (s > 0 => s - 1 \in Stages) /\ (s + 1 < P => s + 1 \in Stages) OBVIOUS
    <3>8. Due(c, s)' BY <1>1, <2>2, <2>3, <3>6, <3>7 DEF Due
    <3>9. Due(doing[s][r], s)' BY <3>4, <3>8 DEF Due
    <3> QED BY <1>1, <2>4, <3>4, <3>5, <3>9 DEF Progress
  <2> QED BY <1>1, <2>5, <2>6
<1> QED BY <1>1, <1>4, <1>5, StageWaits

LEMMA OpRefusesContract ==
  ASSUME IInv, CInv, NEW s \in Stages, NEW r \in Replicas, OpRefuses(s, r)
  PROVE  CInv'
<1>1. /\ Answers(s, r, Failed) /\ UNCHANGED <<scanVars, step, workVars, inbox, reply, doing, fate, modelVars>>
  BY DEF OpRefuses
<1>2. /\ answer'[s][r] = Failed
      /\ \A t \in Stages, q \in Replicas : t # s \/ q # r => answer'[t][q] = answer[t][q]
  BY <1>1, StagesShaped, AnswerOf
<1>3. ASSUME NEW q \in Replicas PROVE Progress(s, q)'
  <2>1. CASE q # r BY <1>1, <1>2, <2>1, LaneWaitsContract DEF Live
  <2>2. CASE q = r
    <3>1. \E kind \in Work : ToExecute(s, r, kind) BY DEF OpRefuses
    <3>2. inbox[s][r] = <<>> BY <3>1, ExecutingLane
    <3>3. Progress(s, r) BY DEF CInv, StageInv
    <3>4. \A t \in Stages : Reversed(t)' = Reversed(t) /\ Forwarded(t)' = Forwarded(t)
      BY <1>1, WorkStays DEF Idles, modelVars
    <3>5. reply'[s][r] # Nothing => Done(reply[s][r], s)' BY <1>1, <3>3, <3>4 DEF Progress, Done, modelVars
    <3>6. Done(answer[s][r], s)' BY <1>2, Markers DEF Done
    <3> QED BY <1>1, <1>2, <2>2, <3>2, <3>5, <3>6, Markers DEF Progress
  <2> QED BY <2>1, <2>2
<1>4. \A t \in Stages : t # s =>
        /\ fate'[t] = fate[t]
        /\ \A q \in Replicas : /\ inbox'[t][q] = inbox[t][q] /\ reply'[t][q] = reply[t][q]
                               /\ doing'[t][q] = doing[t][q] /\ answer'[t][q] = answer[t][q]
  BY <1>1, <1>2
<1> QED BY <1>1, <1>3, <1>4, StageWaits

LEMMA StepRefusedContract == ASSUME IInv, CInv, NEW s \in Stages, StepRefused(s) PROVE CInv'
<1>1. /\ \A r \in Replicas : ToExecute(s, r, "step")
      /\ answer' = [answer EXCEPT ![s] = [r \in Replicas |-> Failed]]
      /\ UNCHANGED <<scanVars, step, workVars, inbox, reply, doing, fate, modelVars>>
  BY DEF StepRefused
<1>2. /\ \A r \in Replicas : answer'[s][r] = Failed
      /\ \A t \in Stages, q \in Replicas : t # s => answer'[t][q] = answer[t][q]
  BY ZenonT(60), <1>1, StagesShaped, AnswersOf
<1>3. ASSUME NEW r \in Replicas PROVE Progress(s, r)'
  <2>1. inbox[s][r] = <<>> BY <1>1, ExecutingLane
  <2>2. Progress(s, r) BY DEF CInv, StageInv
  <2>3. \A t \in Stages : Reversed(t)' = Reversed(t) /\ Forwarded(t)' = Forwarded(t)
    BY <1>1, WorkStays DEF Idles, modelVars
  <2>4. reply'[s][r] # Nothing => Done(reply[s][r], s)' BY <1>1, <2>2, <2>3 DEF Progress, Done, modelVars
  <2>5. Done(answer[s][r], s)' BY <1>2, Markers DEF Done
  <2> QED BY <1>1, <1>2, <2>1, <2>4, <2>5, Markers DEF Progress
<1>4. \A t \in Stages : t # s =>
        /\ fate'[t] = fate[t]
        /\ \A q \in Replicas : /\ inbox'[t][q] = inbox[t][q] /\ reply'[t][q] = reply[t][q]
                               /\ doing'[t][q] = doing[t][q] /\ answer'[t][q] = answer[t][q]
  BY <1>1, <1>2
<1> QED BY <1>1, <1>3, <1>4, StageWaits

LEMMA UploadReplyContract ==
  ASSUME IInv, CInv, NEW s \in Stages, NEW r \in Replicas, UploadReply(s, r)
  PROVE  CInv'
<1> PICK v : v = answer[s][r] OBVIOUS
<1>1. /\ fate[s] = "running" /\ v # Nothing
      /\ UNCHANGED <<scanVars, step, workVars, inbox, modelVars>>
      /\ reply' = [reply EXCEPT ![s][r] = v] \/ UNCHANGED reply
      /\ \/ /\ reply' = [reply EXCEPT ![s][r] = v] /\ UNCHANGED fate
            /\ answer' = [answer EXCEPT ![s][r] = Nothing] /\ doing' = [doing EXCEPT ![s][r] = Nothing]
         \/ fate' = [fate EXCEPT ![s] = "over"] /\ UNCHANGED <<answer, doing>>
  BY DEF UploadReply
<1>2. Lanes(reply) /\ Lanes(doing) /\ Lanes(answer) /\ fate = [t \in Stages |-> fate[t]]
  BY StagesShaped DEF StageShapes
<1>3. /\ reply'[s][r] \in {reply[s][r], v}
      /\ \A t \in Stages, q \in Replicas : t # s \/ q # r => reply'[t][q] = reply[t][q]
  <2>1. CASE reply' = [reply EXCEPT ![s][r] = v]
    <3>1. PICK f, g : f = reply /\ g = reply' OBVIOUS
    <3>2. g = [f EXCEPT ![s][r] = v] /\ Lanes(f) BY <1>2, <2>1, <3>1 DEF Lanes
    <3>3. g[s][r] = v /\ \A t \in Stages, q \in Replicas : t # s \/ q # r => g[t][q] = f[t][q]
      BY <3>2 DEF Lanes
    <3> QED BY <3>1, <3>3
  <2> QED BY <1>1, <2>1
<1>4. /\ \A t \in Stages, q \in Replicas : t # s \/ q # r =>
           doing'[t][q] = doing[t][q] /\ answer'[t][q] = answer[t][q]
      /\ \A t \in Stages : t # s => fate'[t] = fate[t]
  <2>1. CASE /\ UNCHANGED fate
             /\ answer' = [answer EXCEPT ![s][r] = Nothing] /\ doing' = [doing EXCEPT ![s][r] = Nothing]
    BY <1>2, <2>1 DEF Lanes
  <2>2. CASE fate' = [fate EXCEPT ![s] = "over"] /\ UNCHANGED <<answer, doing>> BY <1>2, <2>2
  <2> QED BY <1>1, <2>1, <2>2
<1>5. Live(s) BY <1>1 DEF Live
<1>6. doing[s][r] # Nothing /\ inbox[s][r] = <<>> /\ Progress(s, r)
  BY <1>1, <1>5 DEF IInv, LaneInv, OneCommand, CInv, StageInv
<1>7. \A t \in Stages : Reversed(t)' = Reversed(t) /\ Forwarded(t)' = Forwarded(t)
  BY <1>1, WorkStays DEF Idles, modelVars
<1>8. Done(v, s) BY <1>1, <1>5, <1>6 DEF Progress
<1>9. ASSUME NEW a, Done(a, s) PROVE Done(a, s)' BY <1>1, <1>7, <1>9 DEF Done, modelVars
<1>10. reply'[s][r] # Nothing => Done(reply[s][r], s)'
  <2> SUFFICES ASSUME reply'[s][r] # Nothing PROVE Done(reply[s][r], s)' OBVIOUS
  <2> PICK a : a = reply'[s][r] OBVIOUS
  <2>1. Done(a, s) BY <1>3, <1>6, <1>8 DEF Progress
  <2>2. Done(a, s)' BY <1>9, <2>1
  <2> QED BY <2>2 DEF Done
<1>11. ASSUME NEW q \in Replicas PROVE Progress(s, q)'
  <2>1. CASE q # r
    <3>1. Live(s)' => Live(s) BY <1>5
    <3> QED BY <1>1, <1>3, <1>4, <2>1, <3>1, LaneWaitsContract
  <2>2. CASE q = r /\ fate' = [fate EXCEPT ![s] = "over"]
    <3>1. ~Live(s)' BY <1>2, <2>2 DEF Live
    <3> QED BY <1>10, <2>2, <3>1 DEF Progress
  <2>3. CASE q = r /\ doing' = [doing EXCEPT ![s][r] = Nothing]
    <3>1. doing'[s][r] = Nothing BY <1>2, <2>3 DEF Lanes
    <3> QED BY <1>1, <1>6, <1>10, <2>3, <3>1 DEF Progress
  <2> QED BY <1>1, <2>1, <2>2, <2>3
<1> QED BY <1>1, <1>3, <1>4, <1>11, StageWaits

-----------------------------------------------------------------------------
(* Forwards, backwards and steps                                           *)

LEMMA HeldMore ==
  ASSUME NEW q \in Seq(Batch), NEW x \in Batch
  PROVE  Held(Append(q, x)) = Held(q) \cup {x}
<1> DEFINE p == Append(q, x)
<1>1. /\ Len(q) \in Nat /\ DOMAIN q = 1 .. Len(q) /\ DOMAIN p = 1 .. (Len(q) + 1)
      /\ (\A i \in 1 .. Len(q) : p[i] = q[i]) /\ p[Len(q) + 1] = x
  OBVIOUS
<1> HIDE DEF p
<1>2. \A i \in 1 .. (Len(q) + 1) : i \in 1 .. Len(q) \/ i = Len(q) + 1 BY <1>1
<1>3. 1 .. Len(q) \subseteq 1 .. (Len(q) + 1) /\ Len(q) + 1 \in 1 .. (Len(q) + 1) BY <1>1
<1>4. Held(p) \subseteq Held(q) \cup {x} BY <1>1, <1>2 DEF Held
<1>5. Held(q) \cup {x} \subseteq Held(p) BY <1>1, <1>3 DEF Held
<1>6. Held(p) = Held(q) \cup {x} BY <1>4, <1>5
<1> QED BY <1>6 DEF p

LEMMA HeldLess ==
  ASSUME NEW q \in Seq(Batch), q # <<>>
  PROVE  Held(q) = Held(Tail(q)) \cup {Head(q)}
<1> DEFINE p == Tail(q)
<1>1. /\ Len(q) \in Nat /\ Len(q) > 0 /\ DOMAIN q = 1 .. Len(q) /\ DOMAIN p = 1 .. (Len(q) - 1)
      /\ (\A i \in 1 .. (Len(q) - 1) : p[i] = q[i + 1]) /\ Head(q) = q[1]
  OBVIOUS
<1> HIDE DEF p
<1>2. ASSUME NEW i \in 1 .. Len(q) PROVE q[i] \in Held(p) \cup {Head(q)}
  <2>1. CASE i = 1 BY <1>1, <2>1
  <2>2. CASE i # 1
    <3>1. i - 1 \in 1 .. (Len(q) - 1) /\ (i - 1) + 1 = i BY <1>1, <2>2
    <3> QED BY <1>1, <3>1 DEF Held
  <2> QED BY <2>1, <2>2
<1>3. ASSUME NEW i \in 1 .. (Len(q) - 1) PROVE p[i] \in Held(q)
  <2>1. i + 1 \in 1 .. Len(q) BY <1>1
  <2> QED BY <1>1, <2>1 DEF Held
<1>4. Head(q) \in Held(q)
  <2>1. 1 \in 1 .. Len(q) BY <1>1
  <2> QED BY <1>1, <2>1 DEF Held
<1>5. Held(q) \subseteq Held(p) \cup {Head(q)} BY <1>1, <1>2 DEF Held
<1>6. Held(p) \cup {Head(q)} \subseteq Held(q) BY <1>1, <1>3, <1>4 DEF Held
<1>7. Held(q) = Held(p) \cup {Head(q)} BY <1>5, <1>6
<1> QED BY <1>7 DEF p

\* A lane that executes is asked for what is due, between the batch's begin and end.
LEMMA DueLane ==
  ASSUME IInv, CInv, NEW s \in Stages, NEW r \in Replicas, NEW kind \in Work \cup {"step"}, ToExecute(s, r, kind)
  PROVE  /\ Due(doing[s][r], s) /\ phase \notin {"collect", "absorb"}
         /\ kind \in Work => phase \in {"dispatch", "poll", "loop", "failed"}
         /\ kind = "step" => phase \in {"step", "await", "failed"}
         /\ phase = "step" => Before(s, r)
         /\ phase = "await" => ~Before(s, r)
<1>1. /\ Live(s) /\ doing[s][r] # Nothing /\ answer[s][r] = Nothing
      /\ phase # "failed" => Expected(s, r) = kind /\ (kind \in Work => busy[s][r] = kind)
  BY ExecutingLane
<1>2. Due(doing[s][r], s) BY <1>1 DEF CInv, StageInv, Progress
<1>3. phase \in Between => busy[s][r] = "none" BY AtRest
<1>4. phase \in Phases BY DEF IInv, Shapes
<1>5. phase # "failed" /\ kind = "step" => phase \in {"step", "await"}
  <2>1. busy[s][r] \in Work \cup {"none"} BY CountTypes
  <2> QED BY <1>1, <2>1 DEF Expected
<1>6. phase # "failed" /\ phase \in Between => kind = "step"
  BY <1>1, <1>3
<1>7. (phase = "step" => Before(s, r)) /\ (phase = "await" => ~Before(s, r))
  BY <1>1, <1>3 DEF Expected, Between
<1> QED BY <1>2, <1>4, <1>5, <1>6, <1>7 DEF Between

\* The lane of the command, once it is answered.
LEMMA AnsweredProgress ==
  ASSUME IInv, CInv, NEW s \in Stages, NEW r \in Replicas, NEW kind \in Work \cup {"step"}, ToExecute(s, r, kind),
         UNCHANGED <<step, inbox, reply, doing, fate>>, Grows(s), version'[s] \in {version[s], version[s] + 1},
         answer'[s][r] # Nothing, Done(answer[s][r], s)'
  PROVE  Progress(s, r)'
<1>1. inbox[s][r] = <<>> BY ExecutingLane
<1>2. Progress(s, r) BY DEF CInv, StageInv
<1>3. reply'[s][r] # Nothing => Done(reply[s][r], s)' BY <1>2, DoneStays DEF Progress, Done
<1> QED BY <1>1, <1>3 DEF Progress

\* What a forward pass does.
ForwardDone(s, r, b) ==
  /\ b \in MicroBatches /\ doing[s][r].artifact.of = <<r, b>>
  /\ version' = version /\ gradients' = gradients /\ lost' = lost /\ version[s] = step
  /\ <<r, b>> \notin Forwarded(s) /\ (s > 0 => <<r, b>> \in Forwarded(s - 1))
  /\ Reversed(s)' = Reversed(s) /\ Forwarded(s)' = Forwarded(s) \cup {<<r, b>>}
  /\ pending'[s][r] = Append(pending[s][r], <<r, b>>)
  /\ \A t \in Stages, q \in Replicas : t # s \/ q # r => pending'[t][q] = pending[t][q]
  /\ \A t \in Stages : t # s => Idles(t)

LEMMA ForwardWork ==
  ASSUME IInv, CInv, NEW s \in Stages, NEW r \in Replicas, OpForward(s, r),
         NEW b, b = doing[s][r].micro_batch
  PROVE  ForwardDone(s, r, b)
<1>1. /\ ToExecute(s, r, "forward") /\ UNCHANGED <<scanVars, step, gradients, version, lost>>
      /\ pending' = [pending EXCEPT ![s][r] = Append(pending[s][r], doing[s][r].artifact.of)]
  BY DEF OpForward
<1>2. doing[s][r].kind = "forward" /\ Fit(doing[s][r], s, r) /\ b \in MicroBatches BY <1>1, ExecutingLane
<1>3. doing[s][r].artifact.of = <<r, b>> BY <1>2 DEF Fit
<1>4. Due(doing[s][r], s) BY <1>1, DueLane
<1>5. version[s] = step /\ <<r, b>> \notin Forwarded(s) /\ (s > 0 => <<r, b>> \in Forwarded(s - 1))
  BY <1>2, <1>3, <1>4 DEF Due
<1>6. pending \in [Stages -> [Replicas -> Seq(Batch)]] BY StagesShaped DEF StageShapes
<1>7. /\ pending'[s][r] = Append(pending[s][r], <<r, b>>)
      /\ \A t \in Stages, q \in Replicas : t # s \/ q # r => pending'[t][q] = pending[t][q]
  BY <1>1, <1>3, <1>6
<1>8. Held(pending'[s][r]) = Held(pending[s][r]) \cup {<<r, b>>}
  <2>1. pending[s][r] \in Seq(Batch) BY <1>6
  <2>2. <<r, b>> \in Batch BY <1>2, ArtifactsMade
  <2>3. Held(Append(pending[s][r], <<r, b>>)) = Held(pending[s][r]) \cup {<<r, b>>} BY <2>1, <2>2, HeldMore
  <2> QED BY <1>7, <2>3
<1>9. Cached(s)' = Cached(s) \cup {<<r, b>>}
  <2>1. Cached(s)' = UNION {Held(pending'[s][q]) : q \in Replicas} BY DEF Cached, Held
  <2>2. ASSUME NEW q \in Replicas PROVE Held(pending'[s][q]) \subseteq Cached(s) \cup {<<r, b>>}
    BY ZenonT(60), <1>7, <1>8, CachedIs
  <2>3. ASSUME NEW q \in Replicas PROVE Held(pending[s][q]) \subseteq Held(pending'[s][q])
    BY <1>7, <1>8
  <2>4. Cached(s) \subseteq Cached(s)' BY <2>1, <2>3, CachedIs
  <2>5. <<r, b>> \in Cached(s)' BY <1>8, <2>1
  <2> QED BY <2>1, <2>2, <2>4, <2>5
<1>10. Reversed(s) = Used(s) /\ Forwarded(s) = Used(s) \cup Cached(s) \cup lost[s] /\ step \in Nat BY <1>5, WorkIs
<1>11. Used(s)' = Used(s) BY <1>1 DEF Used
<1>12. Reversed(s)' = Used(s)' /\ Forwarded(s)' = Used(s)' \cup Cached(s)' \cup lost[s]
  BY <1>1, <1>5, <1>10 DEF Reversed, Forwarded, Used
<1>13. \A t \in Stages : t # s => Idles(t) BY <1>1, <1>7 DEF Idles
<1> QED BY SMTT(40), <1>1, <1>2, <1>3, <1>5, <1>7, <1>9, <1>10, <1>11, <1>12, <1>13 DEF ForwardDone

LEMMA OpForwardContract ==
  ASSUME IInv, CInv, NEW s \in Stages, NEW r \in Replicas, OpForward(s, r)
  PROVE  CInv'
<1> PICK b : b = doing[s][r].micro_batch OBVIOUS
<1>1. /\ ToExecute(s, r, "forward") /\ UNCHANGED <<scanVars, step, workVars, inbox, reply, doing, fate>>
      /\ \/ Answers(s, r, MadeBy(s, r, Output(s, doing[s][r].artifact.of)))
         \/ Answers(s, r, Failed)
  BY DEF OpForward
<1>2. /\ b \in MicroBatches /\ doing[s][r].artifact.of = <<r, b>>
      /\ version' = version /\ gradients' = gradients /\ lost' = lost /\ version[s] = step
      /\ Reversed(s)' = Reversed(s) /\ Forwarded(s)' = Forwarded(s) \cup {<<r, b>>}
      /\ pending'[s][r] = Append(pending[s][r], <<r, b>>)
      /\ \A t \in Stages, q \in Replicas : t # s \/ q # r => pending'[t][q] = pending[t][q]
      /\ \A t \in Stages : t # s => Idles(t)
  <2>1. ForwardDone(s, r, b) BY ForwardWork
  <2> QED BY <2>1 DEF ForwardDone
<1> PICK v : v \in {MadeBy(s, r, Output(s, <<r, b>>)), Failed} /\ Answers(s, r, v) BY <1>1, <1>2
<1>3. /\ answer'[s][r] = v
      /\ \A t \in Stages, q \in Replicas : t # s \/ q # r => answer'[t][q] = answer[t][q]
  BY StagesShaped, AnswerOf
<1>4. \A t \in Stages : Grows(t) BY <1>1, <1>2, WorkStays DEF Grows
<1>5. step \in Nat BY WorkIs
<1>6. Weights(s)'
  <2>1. Weights(s) BY DEF CInv, StageInv
  <2>2. ASSUME NEW q \in Replicas, NEW x \in Held(pending'[s][q]) PROVE x[1] = q
    <3>1. CASE q # r BY <1>2, <2>1, <2>2, <3>1 DEF Weights
    <3>2. CASE q = r
      <4>1. pending[s][r] \in Seq(Batch) BY CountTypes
      <4>2. <<r, b>> \in Batch BY <1>2, ArtifactsMade
      <4>3. Held(Append(pending[s][r], <<r, b>>)) = Held(pending[s][r]) \cup {<<r, b>>} BY <4>1, <4>2, HeldMore
      <4>4. x \in Held(pending[s][r]) \/ x = <<r, b>> BY <1>2, <2>2, <3>2, <4>3
      <4> QED BY <2>1, <3>2, <4>4 DEF Weights
    <3> QED BY <3>1, <3>2
  <2>3. ~(version[s] > step) BY <1>2, <1>5
  <2> QED BY <1>1, <1>2, <2>1, <2>2, <2>3 DEF Weights
<1>7. Place(s)'
  <2>1. phase \in {"dispatch", "poll", "loop", "failed"} BY <1>1, DueLane
  <2> QED BY <1>1, <1>2, <2>1 DEF Place, scanVars
<1>8. ASSUME NEW q \in Replicas PROVE Progress(s, q)'
  <2>1. CASE q # r
    <3>1. \A d \in MicroBatches : <<q, d>> # <<r, b>> BY <2>1
    <3>2. \A d \in MicroBatches : /\ <<q, d>> \in Forwarded(s)' => <<q, d>> \in Forwarded(s)
                                  /\ <<q, d>> \in Reversed(s)' => <<q, d>> \in Reversed(s)
      BY <1>2, <3>1
    <3>3. Live(s)' => Live(s) BY <1>1 DEF Live
    <3>4. /\ inbox'[s][q] = inbox[s][q] /\ doing'[s][q] = doing[s][q] /\ answer'[s][q] = answer[s][q]
          /\ reply'[s][q] \in {reply[s][q], Nothing} /\ version'[s] = version[s] /\ step' = step
      BY <1>1, <1>2, <1>3, <2>1
    <3> QED BY <1>4, <3>2, <3>3, <3>4, ProgressStays
  <2>2. CASE q = r
    <3>1. v # Nothing
      <4>1. MadeBy(s, r, Output(s, <<r, b>>)).kind = "Artifact" BY DEF MadeBy
      <4> QED BY <4>1, Markers
    <3>2. Done(answer[s][r], s)'
      <4>1. CASE v = Failed BY <1>3, <4>1, Markers DEF Done
      <4>2. CASE v = MadeBy(s, r, Output(s, <<r, b>>))
        <5>1. v.kind = "Artifact" /\ v.artifact = Output(s, <<r, b>>) BY <4>2 DEF MadeBy
        <5>2. v.artifact.kind = "output" /\ v.artifact.of = <<r, b>> BY <5>1 DEF Output
        <5>3. v # Stepped BY <5>1, Markers
        <5> QED BY <1>2, <1>3, <5>2, <5>3 DEF Done
      <4> QED BY <4>1, <4>2
    <3>3. Grows(s) /\ version'[s] = version[s] BY <1>2, <1>4
    <3> QED BY <1>1, <1>3, <2>2, <3>1, <3>2, <3>3, AnsweredProgress
  <2> QED BY <2>1, <2>2
<1>9. phase # "failed" => AskedFor(s)'
  <2>1. phase # "failed" => AskedFor(s) BY DEF CInv, StageInv
  <2> QED BY <1>1, <1>2, <2>1 DEF AskedFor, workVars
<1>10. Tables' BY <1>2 DEF CInv, Tables
<1>11. \A t \in Stages : t # s =>
         /\ Idles(t) /\ fate'[t] = fate[t]
         /\ \A q \in Replicas : /\ inbox'[t][q] = inbox[t][q] /\ reply'[t][q] = reply[t][q]
                                /\ doing'[t][q] = doing[t][q] /\ answer'[t][q] = answer[t][q]
  BY <1>1, <1>2, <1>3
<1>12. UNCHANGED <<scanVars, step, workVars>> BY <1>1
<1> QED BY <1>4, <1>6, <1>7, <1>8, <1>9, <1>10, <1>11, <1>12, StageMovesContract

\* What a backward pass does.
BackwardDone(s, r, b) ==
  /\ b \in MicroBatches /\ doing[s][r].artifact.of = <<r, b>>
  /\ version' = version /\ lost' = lost /\ version[s] = step
  /\ pending[s][r] # <<>> /\ Head(pending[s][r]) = <<r, b>> /\ pending'[s][r] = Tail(pending[s][r])
  /\ \A t \in Stages, q \in Replicas : t # s \/ q # r => pending'[t][q] = pending[t][q]
  /\ gradients'[s] = gradients[s] \cup {[graph |-> <<r, b>>, from |-> doing[s][r].artifact]}
  /\ <<r, b>> \in Forwarded(s) \ Reversed(s) /\ (s + 1 < P => <<r, b>> \in Reversed(s + 1))
  /\ Reversed(s)' = Reversed(s) \cup {<<r, b>>} /\ Forwarded(s)' = Forwarded(s)
  /\ \A t \in Stages : t # s => Idles(t)

LEMMA BackwardWork ==
  ASSUME IInv, CInv, NEW s \in Stages, NEW r \in Replicas, OpBackward(s, r),
         NEW b, b = doing[s][r].micro_batch
  PROVE  BackwardDone(s, r, b)
<1> PICK a : a = doing[s][r].artifact OBVIOUS
<1>1. /\ ToExecute(s, r, "backward") /\ UNCHANGED <<scanVars, step, version, lost>>
      /\ pending' = [pending EXCEPT ![s][r] = Tail(pending[s][r])]
      /\ gradients' = [gradients EXCEPT ![s] = gradients[s] \cup {[graph |-> Head(pending[s][r]), from |-> a]}]
  BY DEF OpBackward, UsedGraph
<1>2. doing[s][r].kind = "backward" /\ Fit(doing[s][r], s, r) /\ b \in MicroBatches BY <1>1, ExecutingLane
<1>3. a.of = <<r, b>> /\ pending[s][r] # <<>> /\ Head(pending[s][r]) = <<r, b>> BY <1>2 DEF Fit
<1>4. Due(doing[s][r], s) BY <1>1, DueLane
<1>5. version[s] = step /\ <<r, b>> \notin Reversed(s) /\ (s + 1 < P => <<r, b>> \in Reversed(s + 1))
  BY <1>2, <1>3, <1>4 DEF Due
<1>6. pending \in [Stages -> [Replicas -> Seq(Batch)]] /\ gradients = [t \in Stages |-> gradients[t]]
  BY StagesShaped DEF StageShapes
<1>7. /\ pending'[s][r] = Tail(pending[s][r])
      /\ \A t \in Stages, q \in Replicas : t # s \/ q # r => pending'[t][q] = pending[t][q]
  BY <1>1, <1>6
<1>8. /\ gradients'[s] = gradients[s] \cup {[graph |-> <<r, b>>, from |-> a]}
      /\ \A t \in Stages : t # s => gradients'[t] = gradients[t]
  BY <1>1, <1>3, <1>6
<1>9. Held(pending[s][r]) = Held(pending'[s][r]) \cup {<<r, b>>}
  <2>1. pending[s][r] \in Seq(Batch) BY <1>6
  <2>2. Held(pending[s][r]) = Held(Tail(pending[s][r])) \cup {Head(pending[s][r])} BY <1>3, <2>1, HeldLess
  <2> QED BY <1>3, <1>7, <2>2
<1>10. Cached(s) = Cached(s)' \cup {<<r, b>>}
  <2>1. Cached(s)' = UNION {Held(pending'[s][q]) : q \in Replicas} BY DEF Cached, Held
  <2>2. ASSUME NEW q \in Replicas PROVE Held(pending[s][q]) \subseteq Cached(s)' \cup {<<r, b>>}
    BY <1>7, <1>9, <2>1
  <2>3. ASSUME NEW q \in Replicas PROVE Held(pending'[s][q]) \subseteq Held(pending[s][q])
    BY <1>7, <1>9
  <2>4. Cached(s)' \subseteq Cached(s) BY <2>1, <2>3, CachedIs
  <2>5. <<r, b>> \in Cached(s) BY <1>9, CachedIs
  <2> QED BY <2>2, <2>4, <2>5, CachedIs
<1>11. Reversed(s) = Used(s) /\ Forwarded(s) = Used(s) \cup Cached(s) \cup lost[s] /\ step \in Nat BY <1>5, WorkIs
<1>12. Used(s)' = Used(s) \cup {<<r, b>>}
  <2>1. [graph |-> <<r, b>>, from |-> a].graph = <<r, b>> OBVIOUS
  <2>2. Used(s)' \subseteq Used(s) \cup {<<r, b>>} BY <1>8, <2>1 DEF Used
  <2>3. Used(s) \subseteq Used(s)' BY <1>8 DEF Used
  <2>4. <<r, b>> \in Used(s)' BY <1>8, <2>1 DEF Used
  <2> QED BY <2>2, <2>3, <2>4
<1>13. Reversed(s)' = Used(s)' /\ Forwarded(s)' = Used(s)' \cup Cached(s)' \cup lost[s]
  BY <1>1, <1>5, <1>11 DEF Reversed, Forwarded, Used
<1>14. \A t \in Stages : t # s => Idles(t) BY <1>1, <1>7, <1>8 DEF Idles
<1>15. Forwarded(s)' = Forwarded(s) /\ <<r, b>> \in Forwarded(s) BY <1>10, <1>11, <1>12, <1>13
<1> QED BY <1>1, <1>2, <1>3, <1>5, <1>7, <1>8, <1>11, <1>12, <1>13, <1>14, <1>15 DEF BackwardDone

LEMMA OpBackwardContract ==
  ASSUME IInv, CInv, NEW s \in Stages, NEW r \in Replicas, OpBackward(s, r)
  PROVE  CInv'
<1> PICK b : b = doing[s][r].micro_batch OBVIOUS
<1>1. /\ ToExecute(s, r, "backward") /\ UNCHANGED <<scanVars, step, workVars, inbox, reply, doing, fate>>
      /\ \/ Answers(s, r, MadeBy(s, r, Gradient(s, doing[s][r].artifact.of)))
         \/ Answers(s, r, Failed)
  BY DEF OpBackward
<1>2. /\ b \in MicroBatches /\ doing[s][r].artifact.of = <<r, b>>
      /\ version' = version /\ lost' = lost /\ version[s] = step
      /\ pending[s][r] # <<>> /\ Head(pending[s][r]) = <<r, b>> /\ pending'[s][r] = Tail(pending[s][r])
      /\ \A t \in Stages, q \in Replicas : t # s \/ q # r => pending'[t][q] = pending[t][q]
      /\ gradients'[s] = gradients[s] \cup {[graph |-> <<r, b>>, from |-> doing[s][r].artifact]}
      /\ Reversed(s)' = Reversed(s) \cup {<<r, b>>} /\ Forwarded(s)' = Forwarded(s)
      /\ \A t \in Stages : t # s => Idles(t)
  <2>1. BackwardDone(s, r, b) BY BackwardWork
  <2> QED BY <2>1 DEF BackwardDone
<1> PICK v : v \in {MadeBy(s, r, Gradient(s, <<r, b>>)), Failed} /\ Answers(s, r, v) BY <1>1, <1>2
<1>3. /\ answer'[s][r] = v
      /\ \A t \in Stages, q \in Replicas : t # s \/ q # r => answer'[t][q] = answer[t][q]
  BY StagesShaped, AnswerOf
<1>4. \A t \in Stages : Grows(t) BY <1>1, <1>2, WorkStays DEF Grows
<1>5. step \in Nat BY WorkIs
<1>6. Weights(s)'
  <2>1. Weights(s) BY DEF CInv, StageInv
  <2>2. ASSUME NEW q \in Replicas, NEW x \in Held(pending'[s][q]) PROVE x[1] = q
    <3>1. CASE q # r BY <1>2, <2>1, <2>2, <3>1 DEF Weights
    <3>2. CASE q = r
      <4>1. pending[s][r] \in Seq(Batch) BY CountTypes
      <4>2. Held(pending[s][r]) = Held(Tail(pending[s][r])) \cup {Head(pending[s][r])} BY <1>2, <4>1, HeldLess
      <4>3. x \in Held(pending[s][r]) BY <1>2, <2>2, <3>2, <4>2
      <4> QED BY <2>1, <3>2, <4>3 DEF Weights
    <3> QED BY <3>1, <3>2
  <2>3. ~(version[s] > step) BY <1>2, <1>5
  <2>4. <<r, b>> \in Batch BY <1>2, ArtifactsMade
  <2>5. \A g \in gradients'[s] : g.graph \in Batch
    <3>1. [graph |-> <<r, b>>, from |-> doing[s][r].artifact].graph = <<r, b>> OBVIOUS
    <3> QED BY <1>2, <2>1, <2>4, <3>1 DEF Weights
  <2>6. phase # "collect" BY <1>1, DueLane
  <2> QED BY <1>1, <1>2, <2>1, <2>2, <2>3, <2>5 DEF Weights
<1>7. Place(s)'
  <2>1. phase \in {"dispatch", "poll", "loop", "failed"} BY <1>1, DueLane
  <2> QED BY <1>1, <1>2, <2>1 DEF Place, scanVars
<1>8. ASSUME NEW q \in Replicas PROVE Progress(s, q)'
  <2>1. CASE q # r
    <3>1. \A d \in MicroBatches : <<q, d>> # <<r, b>> BY <2>1
    <3>2. \A d \in MicroBatches : /\ <<q, d>> \in Forwarded(s)' => <<q, d>> \in Forwarded(s)
                                  /\ <<q, d>> \in Reversed(s)' => <<q, d>> \in Reversed(s)
      BY <1>2, <3>1
    <3>3. Live(s)' => Live(s) BY <1>1 DEF Live
    <3>4. /\ inbox'[s][q] = inbox[s][q] /\ doing'[s][q] = doing[s][q] /\ answer'[s][q] = answer[s][q]
          /\ reply'[s][q] \in {reply[s][q], Nothing} /\ version'[s] = version[s] /\ step' = step
      BY <1>1, <1>2, <1>3, <2>1
    <3> QED BY <1>4, <3>2, <3>3, <3>4, ProgressStays
  <2>2. CASE q = r
    <3>1. v # Nothing
      <4>1. MadeBy(s, r, Gradient(s, <<r, b>>)).kind = "Artifact" BY DEF MadeBy
      <4> QED BY <4>1, Markers
    <3>2. Done(answer[s][r], s)'
      <4>1. CASE v = Failed BY <1>3, <4>1, Markers DEF Done
      <4>2. CASE v = MadeBy(s, r, Gradient(s, <<r, b>>))
        <5>1. v.kind = "Artifact" /\ v.artifact = Gradient(s, <<r, b>>) BY <4>2 DEF MadeBy
        <5>2. v.artifact.kind = "gradient" /\ v.artifact.of = <<r, b>> BY <5>1 DEF Gradient
        <5>3. v # Stepped BY <5>1, Markers
        <5> QED BY <1>2, <1>3, <5>2, <5>3 DEF Done
      <4> QED BY <4>1, <4>2
    <3>3. Grows(s) /\ version'[s] = version[s] BY <1>2, <1>4
    <3> QED BY <1>1, <1>3, <2>2, <3>1, <3>2, <3>3, AnsweredProgress
  <2> QED BY <2>1, <2>2
<1>9. ASSUME phase # "failed" PROVE AskedFor(s)'
  <2>1. AskedFor(s) BY <1>9 DEF CInv, StageInv
  <2>2. busy[s][r] = "backward" /\ b = Outstanding(s, r) /\ next_bwd[s][r] \in Nat
    BY <1>1, <1>9, ExecutingLane, CountTypes
  <2>3. b < next_bwd[s][r] BY <2>2 DEF Outstanding
  <2>4. [graph |-> <<r, b>>, from |-> doing[s][r].artifact].graph = <<r, b>> OBVIOUS
  <2>5. ASSUME NEW g \in gradients'[s] PROVE g.graph[2] < next_bwd[s][g.graph[1]]
    <3>1. CASE g \in gradients[s] BY <2>1, <3>1 DEF AskedFor
    <3>2. CASE g = [graph |-> <<r, b>>, from |-> doing[s][r].artifact]
      <4>1. g.graph = <<r, b>> BY <2>4, <3>2
      <4> QED BY <2>3, <4>1
    <3> QED BY <1>2, <2>5, <3>1, <3>2
  <2> QED BY <1>1, <1>2, <2>1, <2>5 DEF AskedFor, workVars
<1>10. Tables' BY <1>2 DEF CInv, Tables
<1>11. \A t \in Stages : t # s =>
         /\ Idles(t) /\ fate'[t] = fate[t]
         /\ \A q \in Replicas : /\ inbox'[t][q] = inbox[t][q] /\ reply'[t][q] = reply[t][q]
                                /\ doing'[t][q] = doing[t][q] /\ answer'[t][q] = answer[t][q]
  BY SMTT(40), <1>1, <1>2, <1>3
<1>12. UNCHANGED <<scanVars, step, workVars>> BY <1>1
<1> QED BY <1>4, <1>6, <1>7, <1>8, <1>9, <1>10, <1>11, <1>12, StageMovesContract

\* A backward that fails with its graph has computed nothing.
LEMMA OpLosesGraphContract ==
  ASSUME IInv, CInv, NEW s \in Stages, NEW r \in Replicas, OpLosesGraph(s, r)
  PROVE  CInv' /\ UNCHANGED Contract!vars
<1> PICK b : b = doing[s][r].micro_batch OBVIOUS
<1>1. /\ ToExecute(s, r, "backward") /\ Answers(s, r, Failed)
      /\ UNCHANGED <<scanVars, step, workVars, inbox, reply, doing, fate, gradients, version>>
      /\ pending' = [pending EXCEPT ![s][r] = Tail(pending[s][r])]
      /\ lost' = [lost EXCEPT ![s] = lost[s] \cup {Head(pending[s][r])}]
  BY DEF OpLosesGraph, UsedGraph
<1>2. doing[s][r].kind = "backward" /\ Fit(doing[s][r], s, r) /\ b \in MicroBatches BY <1>1, ExecutingLane
<1>3. pending[s][r] # <<>> /\ Head(pending[s][r]) = <<r, b>> /\ <<r, b>> \in Batch
  BY <1>2, ArtifactsMade DEF Fit
<1>4. version[s] = step
  <2>1. Due(doing[s][r], s) BY <1>1, DueLane
  <2> QED BY <2>1 DEF Due
<1>5. pending \in [Stages -> [Replicas -> Seq(Batch)]] BY StagesShaped DEF StageShapes
<1>6. /\ pending'[s][r] = Tail(pending[s][r])
      /\ \A t \in Stages, q \in Replicas : t # s \/ q # r => pending'[t][q] = pending[t][q]
  BY <1>1, <1>5
<1>7. /\ lost'[s] = lost[s] \cup {<<r, b>>} /\ lost' = [t \in Stages |-> lost'[t]]
      /\ \A t \in Stages : t # s => lost'[t] = lost[t]
  <2>1. lost = [t \in Stages |-> lost[t]] BY DEF CInv, Tables
  <2> QED BY <1>1, <1>3, <2>1
<1>8. Held(pending[s][r]) = Held(pending'[s][r]) \cup {<<r, b>>}
  <2>1. pending[s][r] \in Seq(Batch) BY <1>5
  <2>2. Held(pending[s][r]) = Held(Tail(pending[s][r])) \cup {Head(pending[s][r])} BY <1>3, <2>1, HeldLess
  <2> QED BY <1>3, <1>6, <2>2
<1>9. Cached(s) = Cached(s)' \cup {<<r, b>>}
  <2>1. Cached(s)' = UNION {Held(pending'[s][q]) : q \in Replicas} BY DEF Cached, Held
  <2>2. ASSUME NEW q \in Replicas PROVE Held(pending[s][q]) \subseteq Cached(s)' \cup {<<r, b>>}
    BY <1>6, <1>8, <2>1
  <2>3. ASSUME NEW q \in Replicas PROVE Held(pending'[s][q]) \subseteq Held(pending[s][q])
    BY <1>6, <1>8
  <2>4. Cached(s)' \subseteq Cached(s) BY <2>1, <2>3, CachedIs
  <2>5. <<r, b>> \in Cached(s) BY <1>8, CachedIs
  <2> QED BY <2>2, <2>4, <2>5, CachedIs
<1>10. Reversed(s) = Used(s) /\ Forwarded(s) = Used(s) \cup Cached(s) \cup lost[s] /\ step \in Nat
  BY <1>4, WorkIs
<1>11. Reversed(s)' = Used(s) /\ Forwarded(s)' = Used(s) \cup Cached(s)' \cup lost'[s]
  BY <1>1, <1>4, <1>10 DEF Reversed, Forwarded, Used
<1>12. Reversed(s)' = Reversed(s) /\ Forwarded(s)' = Forwarded(s) BY <1>7, <1>9, <1>10, <1>11
<1>13. \A t \in Stages : t # s => Idles(t) BY <1>1, <1>6, <1>7 DEF Idles
<1>14. step' = step /\ version' = version BY <1>1
<1>15. \A t \in Stages : Reversed(t)' = Reversed(t) /\ Forwarded(t)' = Forwarded(t)
  BY <1>12, <1>13, <1>14, WorkStays
<1>16. \A t \in Stages : Grows(t) BY <1>15 DEF Grows
<1>17. Weights(s)'
  <2>1. Weights(s) BY DEF CInv, StageInv
  <2>2. ASSUME NEW q \in Replicas, NEW x \in Held(pending'[s][q]) PROVE x[1] = q
    <3>1. x \in Held(pending[s][q]) BY <1>6, <1>8, <2>2
    <3> QED BY <2>1, <3>1 DEF Weights
  <2>3. ~(version[s] > step) BY <1>4, <1>10
  <2> QED BY <1>1, <1>3, <1>7, <2>1, <2>2, <2>3 DEF Weights
<1>18. Place(s)'
  <2>1. phase \in {"dispatch", "poll", "loop", "failed"} BY <1>1, DueLane
  <2> QED BY <1>1, <1>4, <2>1 DEF Place, scanVars
<1>19. /\ answer'[s][r] = Failed
       /\ \A t \in Stages, q \in Replicas : t # s \/ q # r => answer'[t][q] = answer[t][q]
  BY <1>1, StagesShaped, AnswerOf
<1>20. ASSUME NEW q \in Replicas PROVE Progress(s, q)'
  <2>1. CASE q # r
    <3>1. Live(s)' => Live(s) BY <1>1 DEF Live
    <3>2. /\ inbox'[s][q] = inbox[s][q] /\ doing'[s][q] = doing[s][q] /\ answer'[s][q] = answer[s][q]
          /\ reply'[s][q] \in {reply[s][q], Nothing} /\ version'[s] = version[s]
      BY <1>1, <1>19, <2>1
    <3> QED BY <1>14, <1>15, <1>16, <3>1, <3>2, ProgressStays
  <2>2. CASE q = r
    <3>1. Done(answer[s][r], s)' BY <1>19, Markers DEF Done
    <3> QED BY <1>1, <1>14, <1>16, <1>19, <2>2, <3>1, Markers, AnsweredProgress
  <2> QED BY <2>1, <2>2
<1>21. ASSUME phase # "failed" PROVE AskedFor(s)'
  <2>1. AskedFor(s) BY <1>21 DEF CInv, StageInv
  <2>2. busy[s][r] = "backward" /\ b = Outstanding(s, r) /\ next_bwd[s][r] \in Nat
    BY <1>1, <1>21, ExecutingLane, CountTypes
  <2>3. b < next_bwd[s][r] BY <2>2 DEF Outstanding
  <2>4. ASSUME NEW x \in lost'[s] PROVE x[2] < next_bwd[s][x[1]]
    <3>1. CASE x \in lost[s] BY <2>1, <3>1 DEF AskedFor
    <3>2. CASE x = <<r, b>> BY <2>3, <3>2
    <3> QED BY <1>7, <2>4, <3>1, <3>2
  <2> QED BY <1>1, <2>1, <2>4 DEF AskedFor, workVars
<1>22. Tables' BY <1>7, <1>14 DEF CInv, Tables
<1>23. \A t \in Stages : t # s =>
         /\ Idles(t) /\ fate'[t] = fate[t]
         /\ \A q \in Replicas : /\ inbox'[t][q] = inbox[t][q] /\ reply'[t][q] = reply[t][q]
                                /\ doing'[t][q] = doing[t][q] /\ answer'[t][q] = answer[t][q]
  BY SMTT(40), <1>1, <1>13, <1>19
<1>24. UNCHANGED <<scanVars, step, workVars>> BY <1>1
<1>25. CInv' BY <1>16, <1>17, <1>18, <1>20, <1>21, <1>22, <1>23, <1>24, StageMovesContract
<1>26. UNCHANGED Contract!vars BY <1>14, <1>15 DEF Contract!vars
<1> QED BY <1>25, <1>26

LEMMA StepWork ==
  ASSUME IInv, CInv, NEW s \in Stages, OpStep(s)
  PROVE  /\ version[s] = step /\ Reversed(s) = Batch /\ Forwarded(s) = Batch
         /\ version' = [version EXCEPT ![s] = version[s] + 1] /\ version'[s] = step + 1 /\ step' = step
         /\ gradients'[s] = {} /\ lost'[s] = {} /\ \A r \in Replicas : pending'[s][r] = <<>>
         /\ lost' = [t \in Stages |-> lost'[t]]
         /\ Reversed(s)' = Batch /\ Forwarded(s)' = Batch
         /\ \A t \in Stages : t # s => Idles(t)
<1>1. /\ \A r \in Replicas : ToExecute(s, r, "step") /\ pending[s][r] = <<>>
      /\ version' = [version EXCEPT ![s] = version[s] + 1] /\ gradients' = [gradients EXCEPT ![s] = {}]
      /\ lost' = [lost EXCEPT ![s] = {}] /\ UNCHANGED <<scanVars, step, pending>>
  BY DEF OpStep
<1>2. doing[s][0].kind = "step" /\ Due(doing[s][0], s) BY <1>1, ZeroIsIn, ExecutingLane, DueLane
<1>3. version[s] = step /\ Batch \subseteq Reversed(s) BY <1>2 DEF Due
<1>4. step \in Nat /\ Reversed(s) \subseteq Forwarded(s) /\ Forwarded(s) \subseteq Batch BY WorkIs
<1>5. gradients = [t \in Stages |-> gradients[t]] BY StagesShaped DEF StageShapes
<1>6. /\ version'[s] = step + 1 /\ gradients'[s] = {} /\ lost'[s] = {} /\ lost' = [t \in Stages |-> lost'[t]]
      /\ \A t \in Stages : t # s =>
           version'[t] = version[t] /\ gradients'[t] = gradients[t] /\ lost'[t] = lost[t]
  <2>1. version = [t \in Stages |-> version[t]] /\ lost = [t \in Stages |-> lost[t]] BY DEF CInv, Tables
  <2> QED BY <1>1, <1>3, <1>5, <2>1
<1>7. version'[s] > step' BY <1>1, <1>4, <1>6
<1>8. Reversed(s)' = Batch /\ Forwarded(s)' = Batch BY <1>7 DEF Reversed, Forwarded
<1>9. \A t \in Stages : t # s => Idles(t) BY <1>1, <1>6 DEF Idles
<1> QED BY <1>1, <1>3, <1>4, <1>6, <1>8, <1>9

LEMMA OpStepContract == ASSUME IInv, CInv, NEW s \in Stages, OpStep(s) PROVE CInv'
<1>1. /\ \A r \in Replicas : ToExecute(s, r, "step")
      /\ UNCHANGED <<scanVars, step, workVars, inbox, reply, doing, fate>>
  BY DEF OpStep
<1>2. /\ version[s] = step /\ Reversed(s) = Batch /\ Forwarded(s) = Batch
      /\ version' = [version EXCEPT ![s] = version[s] + 1] /\ version'[s] = step + 1
      /\ gradients'[s] = {} /\ lost'[s] = {} /\ \A r \in Replicas : pending'[s][r] = <<>>
      /\ lost' = [t \in Stages |-> lost'[t]]
      /\ Reversed(s)' = Batch /\ Forwarded(s)' = Batch
      /\ \A t \in Stages : t # s => Idles(t)
  BY StepWork
<1> PICK v : v \in {Stepped, Failed} /\ answer' = [answer EXCEPT ![s] = [r \in Replicas |-> v]] BY DEF OpStep
<1>3. /\ \A r \in Replicas : answer'[s][r] = v
      /\ \A t \in Stages, q \in Replicas : t # s => answer'[t][q] = answer[t][q]
  BY ZenonT(60), StagesShaped, AnswersOf
<1>4. \A t \in Stages : Grows(t) BY <1>1, <1>2, WorkStays DEF Grows
<1>5. step \in Nat BY WorkIs
<1>6. Weights(s)' BY <1>1, <1>2 DEF Weights, Held
<1>7. Place(s)'
  <2>1. phase \in {"step", "await", "failed"} BY <1>1, ZeroIsIn, DueLane
  <2>2. ASSUME NEW r \in Replicas PROVE ~(phase = "step" /\ ~Before(s, r)) BY <1>1, DueLane
  <2> QED BY <1>1, <1>2, <1>5, <2>1, <2>2 DEF Place, scanVars, Before
<1>8. ASSUME NEW r \in Replicas PROVE Progress(s, r)'
  <2>1. answer'[s][r] = v /\ v # Nothing /\ v.kind # "Artifact" BY <1>3, Markers
  <2>2. version'[s] > step' /\ version'[s] = version[s] + 1 BY <1>1, <1>2, <1>5
  <2>3. Done(answer[s][r], s)' BY <2>1, <2>2 DEF Done
  <2> QED BY <1>1, <1>4, <2>1, <2>2, <2>3, AnsweredProgress
<1>9. AskedFor(s)' BY <1>2 DEF AskedFor
<1>10. Tables' BY <1>2 DEF CInv, Tables
<1>11. \A t \in Stages : t # s =>
         /\ Idles(t) /\ fate'[t] = fate[t]
         /\ \A q \in Replicas : /\ inbox'[t][q] = inbox[t][q] /\ reply'[t][q] = reply[t][q]
                                /\ doing'[t][q] = doing[t][q] /\ answer'[t][q] = answer[t][q]
  BY <1>1, <1>2, <1>3
<1>12. UNCHANGED <<scanVars, step, workVars>> BY <1>1
<1> QED BY <1>4, <1>6, <1>7, <1>8, <1>9, <1>10, <1>11, <1>12, StageMovesContract

-----------------------------------------------------------------------------
(* The refinement                                                          *)

LEMMA NextKeepsContract == IInv /\ CInv /\ [Next]_vars => CInv'
<1> SUFFICES ASSUME IInv, CInv, [Next]_vars PROVE CInv' OBVIOUS
<1>1. CASE Driver
  BY <1>1, BeginStepContract, DispatchEndsContract, LoopContract, SendStepContract, AwaitStepContract,
     AbsorbContract, SendWorkContract, SendWorkFailsContract, PollNothingContract, PollAnswerContract,
     PollFailsContract DEF Driver
<1>2. ASSUME NEW s \in Stages, Stage(s) PROVE CInv'
  BY <1>2, StartStageContract, ReadCommandsContract, OpForwardContract, OpBackwardContract,
     OpLosesGraphContract, OpStepContract, OpRefusesContract, StepRefusedContract, UploadReplyContract DEF Stage
<1>3. CASE UNCHANGED vars
  <2>1. /\ UNCHANGED <<scanVars, step, workVars, inbox, reply, doing, answer, fate, modelVars>>
    BY <1>3 DEF vars, stageVars
  <2>2. \A s \in Stages, r \in Replicas : Progress(s, r)' BY <2>1, LaneWaitsContract DEF Live
  <2> QED BY <2>1, <2>2, ZeroIsIn, StageWaits
<1> QED BY <1>1, <1>2, <1>3 DEF Next

LEMMA FirstStage == Contract!First = 0
<1>1. 0 \in Stages /\ \A t \in Stages : 0 <= t OBVIOUS
<1>2. \A u \in Stages : (\A t \in Stages : u <= t) => u = 0 OBVIOUS
<1> QED BY <1>1, <1>2 DEF Contract!First

LEMMA InitIsContract == Init => Contract!Init
<1> SUFFICES ASSUME Init PROVE Contract!Init OBVIOUS
<1>1. ASSUME NEW s \in Stages PROVE Forwarded(s) = {} /\ Reversed(s) = {}
  <2>1. /\ version[s] = 0 /\ step = 0 /\ gradients[s] = {} /\ lost[s] = {}
        /\ \A r \in Replicas : pending[s][r] = <<>>
    BY DEF Init, EachLane
  <2>2. Reversed(s) = {} BY <2>1 DEF Reversed
  <2>3. Cached(s) = {} BY <2>1 DEF Cached
  <2> QED BY <2>1, <2>2, <2>3 DEF Forwarded
<1>2. version = [s \in Stages |-> 0] BY DEF Init
<1> QED BY <1>1, <1>2 DEF Contract!Init

\* Steps that compute nothing.
LEMMA Stutters ==
  ASSUME UNCHANGED <<step, modelVars>>
  PROVE  UNCHANGED Contract!vars
<1>1. \A s \in Stages : Forwarded(s)' = Forwarded(s) /\ Reversed(s)' = Reversed(s)
  BY WorkStays DEF Idles, modelVars
<1>2. version' = version BY DEF modelVars
<1> QED BY <1>1, <1>2 DEF Contract!vars

LEMMA ForwardsAreOfTheContract ==
  ASSUME IInv, CInv, NEW s \in Stages, NEW r \in Replicas, OpForward(s, r)
  PROVE  Contract!Next
<1> PICK b : b = doing[s][r].micro_batch OBVIOUS
<1>1. ForwardDone(s, r, b) BY ForwardWork
<1>2. step' = step BY DEF OpForward
<1>3. <<r, b>> \in Batch BY <1>1, ArtifactsMade DEF ForwardDone
<1>4. /\ Forwarded(s)' = Forwarded(s) \cup {<<r, b>>} /\ Reversed(s)' = Reversed(s)
      /\ \A t \in Stages : t # s => Forwarded(t)' = Forwarded(t) /\ Reversed(t)' = Reversed(t)
  BY <1>1, <1>2, WorkStays DEF ForwardDone
<1>5. Contract!Forward(s, <<r, b>>)
  <2>1. <<r, b>> \notin [t \in Stages |-> Forwarded(t)][s] BY <1>1 DEF ForwardDone
  <2>2. s # 0 => s - 1 \in Stages /\ <<r, b>> \in [t \in Stages |-> Forwarded(t)][s - 1] BY <1>1 DEF ForwardDone
  <2>3. [t \in Stages |-> Forwarded(t)]' = [[t \in Stages |-> Forwarded(t)] EXCEPT ![s] = @ \cup {<<r, b>>}]
    BY <1>4
  <2>4. [t \in Stages |-> Reversed(t)]' = [t \in Stages |-> Reversed(t)] BY <1>4
  <2>5. version' = version BY <1>1 DEF ForwardDone
  <2> QED BY <2>1, <2>2, <2>3, <2>4, <2>5, FirstStage DEF Contract!Forward
<1> QED BY <1>3, <1>5 DEF Contract!Next, Contract!Batch, Batch

LEMMA BackwardsAreOfTheContract ==
  ASSUME IInv, CInv, NEW s \in Stages, NEW r \in Replicas, OpBackward(s, r)
  PROVE  Contract!Next
<1> PICK b : b = doing[s][r].micro_batch OBVIOUS
<1>1. BackwardDone(s, r, b) BY BackwardWork
<1>2. step' = step BY DEF OpBackward
<1>3. <<r, b>> \in Batch BY <1>1, ArtifactsMade DEF BackwardDone
<1>4. /\ Forwarded(s)' = Forwarded(s) /\ Reversed(s)' = Reversed(s) \cup {<<r, b>>}
      /\ \A t \in Stages : t # s => Forwarded(t)' = Forwarded(t) /\ Reversed(t)' = Reversed(t)
  BY <1>1, <1>2, WorkStays DEF BackwardDone
<1>5. Contract!Backward(s, <<r, b>>)
  <2>1. <<r, b>> \in [t \in Stages |-> Forwarded(t)][s] \ [t \in Stages |-> Reversed(t)][s]
    BY <1>1 DEF BackwardDone
  <2>2. s + 1 \in Stages => <<r, b>> \in [t \in Stages |-> Reversed(t)][s + 1] BY <1>1 DEF BackwardDone
  <2>3. [t \in Stages |-> Reversed(t)]' = [[t \in Stages |-> Reversed(t)] EXCEPT ![s] = @ \cup {<<r, b>>}]
    BY <1>4
  <2>4. [t \in Stages |-> Forwarded(t)]' = [t \in Stages |-> Forwarded(t)] BY <1>4
  <2>5. version' = version BY <1>1 DEF BackwardDone
  <2> QED BY <2>1, <2>2, <2>3, <2>4, <2>5 DEF Contract!Backward
<1> QED BY <1>3, <1>5 DEF Contract!Next, Contract!Batch, Batch

LEMMA StepsAreOfTheContract == ASSUME IInv, CInv, NEW s \in Stages, OpStep(s) PROVE Contract!Next
<1>1. /\ version[s] = step /\ Reversed(s) = Batch /\ Forwarded(s) = Batch
      /\ version' = [version EXCEPT ![s] = version[s] + 1] /\ step' = step
      /\ Reversed(s)' = Batch /\ Forwarded(s)' = Batch
      /\ \A t \in Stages : t # s => Idles(t)
  BY StepWork
<1>2. \A t \in Stages : Forwarded(t)' = Forwarded(t) /\ Reversed(t)' = Reversed(t) BY <1>1, WorkStays
<1>3. \A t \in Stages : version[s] <= version[t] BY <1>1, WorkIs
<1>4. Contract!Update(s)
  <2>1. [t \in Stages |-> Reversed(t)][s] = Contract!Batch BY <1>1 DEF Contract!Batch, Batch
  <2>2. /\ [t \in Stages |-> Reversed(t)]' = [t \in Stages |-> Reversed(t)]
        /\ [t \in Stages |-> Forwarded(t)]' = [t \in Stages |-> Forwarded(t)]
    BY <1>2
  <2> QED BY <1>1, <1>3, <2>1, <2>2 DEF Contract!Update
<1> QED BY <1>4 DEF Contract!Next

LEMMA AbsorbIsOfTheContract == ASSUME IInv, CInv, Absorb PROVE Contract!Next
<1>1. step' = step + 1 /\ UNCHANGED modelVars BY DEF Absorb, stageVars
<1>2. ASSUME NEW s \in Stages
      PROVE  /\ version[s] = step + 1 /\ Reversed(s) = Batch
             /\ Reversed(s)' = {} /\ Forwarded(s)' = {}
  <2>1. /\ step \in Nat /\ version[s] = step + 1 /\ gradients[s] = {} /\ lost[s] = {}
        /\ \A r \in Replicas : pending[s][r] = <<>>
    BY AbsorbIsRest
  <2>2. Reversed(s) = Batch BY <2>1 DEF Reversed
  <2>3. ~(version'[s] > step') BY <1>1, <2>1 DEF modelVars
  <2>4. Reversed(s)' = {} BY <1>1, <2>1, <2>3 DEF Reversed, modelVars
  <2>5. Cached(s)' = {} BY <1>1, <2>1 DEF Cached, modelVars
  <2> QED BY <1>1, <2>1, <2>2, <2>3, <2>4, <2>5 DEF Forwarded, modelVars
<1>3. Contract!NextBatch
  <2>1. \A s, t \in Stages : [u \in Stages |-> Reversed(u)][s] = Contract!Batch /\ version[s] = version[t]
    BY <1>2 DEF Contract!Batch, Batch
  <2>2. /\ [s \in Stages |-> Reversed(s)]' = [s \in Stages |-> {}]
        /\ [s \in Stages |-> Forwarded(s)]' = [s \in Stages |-> {}]
    BY <1>2
  <2>3. version' = version BY <1>1 DEF modelVars
  <2> QED BY <2>1, <2>2, <2>3 DEF Contract!NextBatch
<1> QED BY <1>3 DEF Contract!Next

LEMMA NextIsContract == IInv /\ CInv /\ [Next]_vars => [Contract!Next]_(Contract!vars)
<1> SUFFICES ASSUME IInv, CInv, [Next]_vars PROVE Contract!Next \/ UNCHANGED Contract!vars OBVIOUS
<1>1. CASE Driver
  <2>1. CASE Absorb BY <2>1, AbsorbIsOfTheContract
  <2>2. CASE BeginStep \/ DispatchEnds \/ Loop \/ SendStep \/ AwaitStep
    <3>1. UNCHANGED <<step, modelVars>>
      BY <2>2 DEF BeginStep, DispatchEnds, Loop, SendStep, AwaitStep, stageVars
    <3> QED BY <3>1, Stutters
  <2>3. ASSUME NEW s \in Stages, SendWork(s) \/ SendWorkFails(s) PROVE UNCHANGED Contract!vars
    <3>1. UNCHANGED <<step, modelVars>> BY <2>3 DEF SendWork, SendWorkFails, stageVars
    <3> QED BY <3>1, Stutters
  <2>4. ASSUME NEW s \in Stages, NEW r \in Replicas, PollNothing(s, r) \/ PollAnswer(s, r) \/ PollFails(s, r)
        PROVE  UNCHANGED Contract!vars
    <3>1. UNCHANGED <<step, modelVars>> BY <2>4 DEF PollNothing, PollAnswer, PollFails, stageVars
    <3> QED BY <3>1, Stutters
  <2> QED BY <1>1, <2>1, <2>2, <2>3, <2>4 DEF Driver
<1>2. ASSUME NEW s \in Stages, Stage(s) PROVE Contract!Next \/ UNCHANGED Contract!vars
  <2>1. CASE OpStep(s) BY <2>1, StepsAreOfTheContract
  <2>2. CASE StartStage(s) \/ ReadCommands(s) \/ StepRefused(s)
    <3>1. UNCHANGED <<step, modelVars>> BY <2>2 DEF StartStage, ReadCommands, StepRefused
    <3> QED BY <3>1, Stutters
  <2>3. ASSUME NEW r \in Replicas, OpRefuses(s, r) \/ UploadReply(s, r) PROVE UNCHANGED Contract!vars
    <3>1. UNCHANGED <<step, modelVars>> BY <2>3 DEF OpRefuses, UploadReply
    <3> QED BY <3>1, Stutters
  <2>4. ASSUME NEW r \in Replicas, OpForward(s, r) PROVE Contract!Next BY <2>4, ForwardsAreOfTheContract
  <2>5. ASSUME NEW r \in Replicas, OpBackward(s, r) PROVE Contract!Next BY <2>5, BackwardsAreOfTheContract
  <2>6. ASSUME NEW r \in Replicas, OpLosesGraph(s, r) PROVE UNCHANGED Contract!vars
    BY <2>6, OpLosesGraphContract
  <2> QED BY <1>2, <2>1, <2>2, <2>3, <2>4, <2>5, <2>6 DEF Stage
<1>3. CASE UNCHANGED vars
  <2>1. UNCHANGED <<step, modelVars>> BY <1>3 DEF vars, stageVars
  <2> QED BY <2>1, Stutters
<1> QED BY <1>1, <1>2, <1>3 DEF Next

\* ImplementsContract: for every length of the chain and of the batch, and also
\* after uploads, calls or whole journeys failed, each micro-batch passes forward
\* through the stages in their order and its gradient back, both once, and a stage
\* steps its weights when it has all gradients of the batch, before any stage
\* begins the next (action.rs and op.rs of pipeline_backward).
THEOREM ScheduleComputesTheStep == Spec => ImplementsContract
<1>1. IInv /\ CInv /\ [Next]_vars => IInv' /\ CInv' BY NextKeeps, NextKeepsContract
<1>2. Init => IInv /\ CInv BY InitKeeps, InitKeepsContract
<1> QED BY <1>1, <1>2, InitIsContract, NextIsContract, PTL DEF Spec, ImplementsContract, Contract!Spec
=============================================================================
