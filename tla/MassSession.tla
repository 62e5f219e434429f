---------------------------- MODULE MassSession -----------------------------
(***************************************************************************)
(* The model instances one Mass server hosts (_black_hole_mass/src/lib.rs):*)
(* start and shutdown, the three registries an instance is entered in, and *)
(* the QuZO session of each: perturb up, infer, perturb down, infer,       *)
(* optimize, with the train/freeze oscillation.                            *)
(*                                                                         *)
(* A request first finds its instance (get_instance clones the Arc) and    *)
(* then waits for the session lock: those are two steps, between which a   *)
(* shutdown, and even a new start with the same id, may come.  Under the   *)
(* lock it runs to its end, so the rest is one step.  Any request may      *)
(* fail on the way (the engine or Void answers an error); it then leaves   *)
(* its instance as it was.                                                 *)
(*                                                                         *)
(* The engine is external.  All that is said of it is which weights it     *)
(* holds: the base, or the base moved along the sampled direction.         *)
(***************************************************************************)
EXTENDS Naturals, Sequences, FiniteSets

CONSTANTS
  Models,         \* instance ids
  Requests,       \* concurrent requests
  NoRequest,
  MaxInstances,   \* the server's max_instances
  Frozen,         \* resolve_model_frozen of every instance
  Oscillations,   \* the schedules an instance may be started with
  NoOscillation,
  MaxStarts,      \* bound: starts of one id
  MaxSteps        \* bound: optimize steps of one instance

\* FrozenOscillation, as resolve_model_oscillation lets it through.
FrozenOscillation ==
  {o \in [period_steps : Nat \ {0}, train_steps : Nat, phase_steps : Nat, warmup_steps : Nat] :
     o.train_steps <= o.period_steps}

ASSUME OscillationsAssumption == Oscillations \subseteq FrozenOscillation \cup {NoOscillation}
ASSUME NoOscillationAssumption == NoOscillation \notin FrozenOscillation
ASSUME ModelsAssumption == Models # {}
ASSUME RequestsAssumption == NoRequest \notin Requests
ASSUME FlagsAssumption == Frozen \in BOOLEAN
ASSUME LimitsAssumption == {MaxInstances, MaxStarts, MaxSteps} \subseteq Nat

VARIABLES
  slot,      \* QwenOperationAdapter::instances
  hosted,    \* MassContext::instances
  routed,    \* MassContext::routes
  dispatch,  \* the start that holds start_dispatch
  session,   \* the MassSession of the id's latest instance
  engine,    \* and what its engine holds
  starts,    \* instances the id has had
  request,   \* requests in flight
  fused,     \* directions in which weights captured for a fusion were moved
  trained,   \* per instance, whether each optimize step updated the engine
  stranded   \* ids whose engine failed to unload

vars == <<slot, hosted, routed, dispatch, session, engine, starts, request, fused, trained,
          stranded>>

MassState == {"Idle", "PostPerturbUp", "AwaitingPerturbDown", "PostPerturbDown", "AwaitingOptimize"}
Moved     == {"none", "up", "down"}
Ops       == {"perturbUp", "infer", "perturbDown", "optimize", "fuse"}

Free == [op |-> "none", model |-> CHOOSE m \in Models : TRUE, instance |-> 0]

----------------------------------------------------------------------------
(* The oscillation schedule                                                *)

\* Mutant of FrozenAtStep: one training step too many in each window.
FrozenAtStepLong(n, o) ==
  ((n - o.warmup_steps - 1) + (o.phase_steps % o.period_steps)) % o.period_steps > o.train_steps

\* frozen_state_for_optimize_step, past the warm-up.
FrozenAtStep(n, o) ==
  ((n - o.warmup_steps - 1) + (o.phase_steps % o.period_steps)) % o.period_steps >= o.train_steps

Scheduled(n, o) == o # NoOscillation /\ n > o.warmup_steps

\* apply_initial_frozen_oscillation.
NewSession(o) ==
  [state |-> "Idle", running |-> TRUE, steps |-> 0, oscillation |-> o,
   frozen |-> IF Scheduled(1, o) THEN FrozenAtStep(1, o) ELSE Frozen]

\* apply_frozen_oscillation.
Oscillated(s) ==
  LET o == s.oscillation
      n == IF o = NoOscillation THEN s.steps ELSE s.steps + 1
  IN  [s EXCEPT !.steps = n,
                !.frozen = IF Scheduled(n, o) THEN FrozenAtStep(n, o) ELSE @]

----------------------------------------------------------------------------
Init ==
  /\ slot = [m \in Models |-> "absent"]
  /\ hosted = {} /\ routed = {} /\ dispatch = NoRequest
  /\ session = [m \in Models |-> [NewSession(NoOscillation) EXCEPT !.running = FALSE]]
  /\ engine = [m \in Models |-> [loaded |-> FALSE, moved |-> "none"]]
  /\ starts = [m \in Models |-> 0]
  /\ request = [r \in Requests |-> Free]
  /\ fused = {}
  /\ trained = [m \in Models |-> <<>>]
  /\ stranded = {}

Done(r) == request' = [request EXCEPT ![r] = Free]

----------------------------------------------------------------------------
(* Start: handle_instance_start_distributed, _local and handle_start       *)

\* Mutant of StartBegins: two starts at once.
StartBeginsUnguarded(r, m) ==
  /\ request[r] = Free
  /\ m \notin routed /\ m \notin hosted /\ slot[m] = "absent"
  /\ Cardinality(routed) < MaxInstances
  /\ starts[m] < MaxStarts
  /\ starts' = [starts EXCEPT ![m] = @ + 1]
  /\ dispatch' = r
  /\ slot' = [slot EXCEPT ![m] = "starting"]
  /\ request' = [request EXCEPT ![r] = [op |-> "start", model |-> m, instance |-> starts[m] + 1]]
  /\ UNCHANGED <<hosted, routed, session, engine, fused, stranded, trained>>

\* Under start_dispatch: the id is new, there is capacity, the slot is vacant.
StartBegins(r, m) ==
  /\ request[r] = Free /\ dispatch = NoRequest
  /\ m \notin routed /\ m \notin hosted /\ slot[m] = "absent"
  /\ Cardinality(routed) < MaxInstances
  /\ starts[m] < MaxStarts
  /\ starts' = [starts EXCEPT ![m] = @ + 1]
  /\ dispatch' = r
  /\ slot' = [slot EXCEPT ![m] = "starting"]
  /\ request' = [request EXCEPT ![r] = [op |-> "start", model |-> m, instance |-> starts[m] + 1]]
  /\ UNCHANGED <<hosted, routed, session, engine, fused, stranded, trained>>

\* The model is loaded: running slot, then both registries.  Nobody can reach
\* the instance before it is routed, which is the last of these.
StartEnds(r, o) ==
  LET m == request[r].model IN
  /\ request[r].op = "start"
  /\ slot' = [slot EXCEPT ![m] = "running"]
  /\ hosted' = hosted \cup {m} /\ routed' = routed \cup {m}
  /\ session' = [session EXCEPT ![m] = NewSession(o)]
  /\ engine' = [engine EXCEPT ![m] = [loaded |-> TRUE, moved |-> "none"]]
  /\ trained' = [trained EXCEPT ![m] = <<>>]
  /\ dispatch' = NoRequest /\ Done(r)
  /\ UNCHANGED <<starts, fused, stranded>>

\* Mutant of StartFails: the slot is left behind.
StartFailsKeepsSlot(r) ==
  /\ request[r].op = "start"
  /\ dispatch' = NoRequest /\ Done(r)
  /\ UNCHANGED <<slot, hosted, routed, session, engine, starts, fused, stranded, trained>>

\* Every error path of handle_start vacates the slot.
StartFails(r) ==
  /\ request[r].op = "start"
  /\ slot' = [slot EXCEPT ![request[r].model] = "absent"]
  /\ dispatch' = NoRequest /\ Done(r)
  /\ UNCHANGED <<hosted, routed, session, engine, starts, fused, stranded, trained>>

----------------------------------------------------------------------------
(* Shutdown: handle_shutdown, handle_instance_shutdown_local, _distributed *)

ShutdownBegins(r, m) ==
  /\ request[r] = Free
  /\ m \in routed /\ m \in hosted /\ slot[m] = "running"
  /\ slot' = [slot EXCEPT ![m] = "shuttingDown"]
  /\ request' = [request EXCEPT ![r] = [op |-> "shutdown", model |-> m, instance |-> starts[m]]]
  /\ UNCHANGED <<hosted, routed, dispatch, session, engine, starts, fused, stranded, trained>>

\* Under the session lock.  The slot is vacated although the unload fails, and
\* then the error returns before the registries are.
ShutdownUnloads(r) ==
  LET m == request[r].model IN
  /\ request[r].op = "shutdown"
  /\ session' = [session EXCEPT ![m].running = FALSE]
  /\ engine' = [engine EXCEPT ![m].loaded = FALSE]
  /\ slot' = [slot EXCEPT ![m] = "absent"]
  /\ \/ request' = [request EXCEPT ![r].op = "unlist"] /\ UNCHANGED stranded
     \/ Done(r) /\ stranded' = stranded \cup {m}
  /\ UNCHANGED <<hosted, routed, dispatch, starts, fused, trained>>

ShutdownUnlists(r) ==
  LET m == request[r].model IN
  /\ request[r].op = "unlist"
  /\ \/ /\ m \in hosted /\ hosted' = hosted \ {m}
        /\ UNCHANGED <<routed, request>>
     \/ /\ m \notin hosted /\ routed' = routed \ {m} /\ Done(r)
        /\ UNCHANGED hosted
  /\ UNCHANGED <<slot, dispatch, session, engine, starts, fused, stranded, trained>>

----------------------------------------------------------------------------
(* Session requests                                                        *)

\* route_for_instance, hosted_instance, get_instance.
Enters(r, op, m) ==
  /\ request[r] = Free
  /\ m \in routed /\ m \in hosted /\ slot[m] = "running"
  /\ request' = [request EXCEPT ![r] = [op |-> op, model |-> m, instance |-> starts[m]]]
  /\ UNCHANGED <<slot, hosted, routed, dispatch, session, engine, starts, fused, stranded, trained>>

\* Mutant of Locked: the instance is not checked again under the lock.
LockedUnchecked(r, op, expected) ==
  /\ request[r].op = op
  /\ session[request[r].model].state \in expected

\* The request has the lock; its instance still runs (an instance that has a
\* successor does not) and is in one of the expected states.
Locked(r, op, expected) ==
  LET m == request[r].model IN
  /\ request[r].op = op
  /\ request[r].instance = starts[m] /\ session[m].running
  /\ session[m].state \in expected

\* Mutant of Answers: a frozen instance is perturbed like any other.
AnswersThawed(r, state, moved) ==
  LET m == request[r].model IN
  /\ session' = [session EXCEPT ![m].state = state]
  /\ engine' = [engine EXCEPT ![m].moved = moved]
  /\ Done(r)
  /\ UNCHANGED <<slot, hosted, routed, dispatch, starts, fused, stranded, trained>>

\* The state of the session and the position of the weights after a request.
Answers(r, state, moved) ==
  LET m == request[r].model IN
  /\ session' = [session EXCEPT ![m].state = state]
  /\ engine' = [engine EXCEPT ![m].moved = IF session[m].frozen THEN @ ELSE moved]
  /\ Done(r)
  /\ UNCHANGED <<slot, hosted, routed, dispatch, starts, fused, stranded, trained>>

PerturbUp(r) ==
  /\ Locked(r, "perturbUp", {"Idle"})
  /\ Answers(r, "PostPerturbUp", "up")

PerturbDown(r) ==
  /\ Locked(r, "perturbDown", {"AwaitingPerturbDown"})
  /\ Answers(r, "PostPerturbDown", "down")

\* handle_infer accepts every state.
Infer(r) ==
  LET m == request[r].model IN
  /\ Locked(r, "infer", MassState)
  /\ Answers(r, IF session[m].state \in {"PostPerturbUp", "AwaitingPerturbDown"}
                THEN "AwaitingPerturbDown" ELSE "AwaitingOptimize",
             engine[m].moved)

\* The update returns the weights to a base; the schedule decides on the next
\* step.
Optimize(r) ==
  LET m == request[r].model IN
  /\ Locked(r, "optimize", {"AwaitingOptimize"})
  /\ Len(trained[m]) < MaxSteps
  /\ session' = [session EXCEPT ![m] = Oscillated([@ EXCEPT !.state = "Idle"])]
  /\ engine' = [engine EXCEPT ![m].moved = IF session[m].frozen THEN @ ELSE "none"]
  /\ trained' = [trained EXCEPT ![m] = Append(@, ~session[m].frozen)]
  /\ Done(r)
  /\ UNCHANGED <<slot, hosted, routed, dispatch, starts, fused, stranded>>

\* handle_fuse_weights, as far as it looks at the instance.
FuseWeights(r) ==
  /\ Locked(r, "fuse", {"Idle"})
  /\ fused' = fused \cup {engine[request[r].model].moved}
  /\ Done(r)
  /\ UNCHANGED <<slot, hosted, routed, dispatch, session, engine, starts, stranded, trained>>

\* The request is refused or fails.
Refused(r) ==
  /\ request[r].op \in Ops
  /\ Done(r)
  /\ UNCHANGED <<slot, hosted, routed, dispatch, session, engine, starts, fused, stranded, trained>>

----------------------------------------------------------------------------
Next ==
  \E r \in Requests :
    \/ \E m \in Models : StartBegins(r, m) \/ ShutdownBegins(r, m)
    \/ \E m \in Models, op \in Ops : Enters(r, op, m)
    \/ \E o \in Oscillations : StartEnds(r, o)
    \/ StartFails(r) \/ ShutdownUnloads(r) \/ ShutdownUnlists(r)
    \/ PerturbUp(r) \/ PerturbDown(r) \/ Infer(r) \/ Optimize(r) \/ FuseWeights(r)
    \/ Refused(r)

Spec == Init /\ [][Next]_vars

----------------------------------------------------------------------------
(* Properties                                                              *)

Sessions == [state : MassState, running : BOOLEAN, steps : Nat,
             oscillation : Oscillations \cup {NoOscillation}, frozen : BOOLEAN]

RequestRecords == [op : Ops \cup {"none", "start", "shutdown", "unlist"},
                   model : Models, instance : 0..MaxStarts]

\* Type invariant of the registries, the sessions and the requests; a start in
\* flight holds start_dispatch.
TypeOK ==
  /\ slot \in [Models -> {"absent", "starting", "running", "shuttingDown"}]
  /\ hosted \subseteq Models /\ routed \subseteq Models
  /\ dispatch \in Requests \cup {NoRequest}
  /\ session \in [Models -> Sessions]
  /\ engine \in [Models -> [loaded : BOOLEAN, moved : Moved]]
  /\ starts \in [Models -> 0..MaxStarts]
  /\ request \in [Requests -> RequestRecords]
  /\ \A r \in Requests : request[r].op = "start" <=> dispatch = r
  /\ fused \subseteq Moved
  /\ trained \in [Models -> Seq(BOOLEAN)]
  /\ stranded \subseteq Models

\* Where a session is in its step and where its engine's weights are agree: an
\* idle instance holds its base weights, one past a perturbation the perturbed
\* ones, a frozen one never moves, and a change of the frozen flag by the
\* schedule never comes between a perturbation and its undoing.
Position(s) ==
  IF s.frozen \/ s.state = "Idle" THEN {"none"}
  ELSE IF s.state \in {"PostPerturbUp", "AwaitingPerturbDown"} THEN {"up"}
  ELSE IF s.state = "PostPerturbDown" THEN {"down"}
  ELSE {"down", "none"}
WeightsInStep == \A m \in Models : engine[m].moved \in Position(session[m])

\* The weights a fusion starts from were never perturbed (handle_fuse_weights).
FusesBase == fused \subseteq {"none"}

\* A request that found its instance before a shutdown and got the session lock
\* after it works neither on the unloaded engine nor on a successor's.
NoUseAfterUnload ==
  [][\A r \in Requests : LET q == request[r] IN
       /\ q.op \in Ops /\ request'[r] = Free
       /\ session'[q.model] # session[q.model] \/ engine'[q.model] # engine[q.model]
       => engine[q.model].loaded /\ q.instance = starts[q.model]]_vars

\* The server never hosts more instances than max_instances, however starts and
\* shutdowns overlap.
WithinCapacity == Cardinality(hosted) <= MaxInstances

\* The three registries agree about an id that is neither being started nor
\* shut down: no instance leaks, and one is listed and routed if it runs or its
\* engine failed to unload (handle_shutdown then vacates the slot and nothing
\* else), and in no other case.
Busy(m) == \E r \in Requests : request[r].op \in {"start", "shutdown", "unlist"} /\ request[r].model = m
RegistriesAgree ==
  \A m \in Models : ~Busy(m) =>
    /\ slot[m] \in {"absent", "running"}
    /\ (slot[m] = "running") = (m \in hosted \ stranded)
    /\ m \in stranded => m \in hosted
    /\ (m \in hosted) = (m \in routed)

Updates(s) == Cardinality({i \in DOMAIN s : s[i]})

\* Once the schedule has taken over, any period_steps optimize steps in a row
\* train train_steps times.
CyclesTrain ==
  \A m \in Models : LET o == session[m].oscillation  n == Len(trained[m]) IN
    o # NoOscillation /\ n >= o.warmup_steps + 1 + o.period_steps =>
      Updates(SubSeq(trained[m], n - o.period_steps + 1, n)) = o.train_steps
=============================================================================
